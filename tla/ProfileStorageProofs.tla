------------------------ MODULE ProfileStorageProofs ------------------------
(***************************************************************************)
(* What the profile storage keeps and erases, for any list on disk and any *)
(* number of commands and crashes.                                         *)
(***************************************************************************)
EXTENDS ProfileStorage, SequenceTheorems, TLAPS

\* Some entry of the list has this id (and this mark).
Marked(list, id, mark) == \E i \in DOMAIN list : list[i].id = id /\ list[i].favorite = mark
Listed(list, id) == \E i \in DOMAIN list : list[i].id = id
SameEntry(a, b, id) == \A mark \in BOOLEAN : Marked(a, id, mark) <=> Marked(b, id, mark)
Unique(list) == \A i, j \in DOMAIN list : list[i].id = list[j].id => i = j
Below(list) == \A i \in DOMAIN list : list[i].id < nextId

\* The types, with those of the parts TypeOK leaves open.
LoadType ==
    [taken : {TRUE}, list : Seq(EntryType), cache : [Ids -> Nat], settings : PolicyType]
TypeInv ==
    /\ TypeOK
    /\ store = [loaded |-> store.loaded, profiles |-> store.profiles,
                settings |-> store.settings, active |-> store.active]
    /\ load = NoSnapshot \/ load \in LoadType
    /\ store.loaded => load = NoSnapshot
    /\ killStale \in BOOLEAN /\ crashes \in Nat
    /\ nextId <= Len(InitialProfiles) + issued + 1

\* What is on its way makes sense.
CommandOK(c) ==
    /\ c.op = "save" => /\ c.id \in Ids /\ c.id < nextId /\ c.at \in {"cache", "vault", "list"}
                        /\ c.at # "list" => c.secret # 0
    /\ c.op = "delete" => /\ c.id \in deleted /\ c.secret = 0 /\ c.at \in {"cache", "vault", "list"}
    /\ c.op = "settings" => c.id = Settings /\ c.at \in {"file", "memory"}
    /\ c.op = "daemon" => c.id = Settings /\ c.at = "daemon"

\* Every list has an id once, and only ids that were given out.
UniqueIds ==
    /\ Unique(store.profiles) /\ Unique(mem.list) /\ Unique(disk.profiles)
    /\ Below(store.profiles) /\ Below(mem.list) /\ Below(disk.profiles)
    /\ load.taken => Unique(load.list) /\ Below(load.list)
    /\ \A id \in deleted : id < nextId

\* A secret missing from the cache and not from the file was deleted.
OnlyDeletedMissing ==
    \A id \in Ids : mem.cache[id] = 0 /\ disk.vault[id] # 0 => id \in deleted

\* Memory and files agree on a profile with nothing wrong, but for the secret
\* between the cache and the vault file.
Agree(id) ==
    /\ "list" \notin damaged => SameEntry(mem.list, disk.profiles, id)
    /\ "vault" \notin damaged /\ (\A c \in pending : c.id = id => c.at # "vault")
          => mem.cache[id] = disk.vault[id]

\* A file that a failed write damaged reads as empty.
DamageInv ==
    /\ "list" \in damaged => disk.profiles = <<>>
    /\ "vault" \in damaged => disk.vault = NoSecrets

\* Before the store is loaded nothing is on its way for it, and the snapshot is
\* still right.
NotLoaded(id) ==
    /\ \A c \in pending : c.id # id
    /\ id \notin deleted
    /\ load.taken => SameEntry(load.list, mem.list, id) /\ load.cache[id] = mem.cache[id]

\* Afterwards at most one command is on its way for it, which carries what the
\* library shows; without one, the list is as shown.
Loaded(id) ==
    /\ \A c, d \in pending : c.id = id /\ d.id = id => c = d
    /\ (\A c \in pending : c.id # id) => SameEntry(store.profiles, mem.list, id)
    /\ \A c \in pending : c.id = id /\ c.op = "save" =>
          \A mark \in BOOLEAN : Marked(store.profiles, id, mark) <=> mark = c.favorite

\* The secret shown is on its way to the cache, or there.
SecretKept(id) ==
    \A i \in DOMAIN store.profiles : store.profiles[i].id = id /\ store.profiles[i].secret # 0 =>
       /\ \A c \in pending : c.id = id /\ c.at = "cache" => c.secret = store.profiles[i].secret
       /\ (\A c \in pending : c.id = id => c.at # "cache") => mem.cache[id] = store.profiles[i].secret

\* A deleted profile is not shown, and its deletion is on its way or done.
Erased(id) ==
    id \in deleted =>
       /\ ~Listed(store.profiles, id)
       /\ (\A c \in pending : c.id = id => c.at # "cache") => mem.cache[id] = 0
       /\ (\A c \in pending : c.id # id) => ~Listed(mem.list, id)

ProfileInv ==
    \A id \in Ids \ dirty :
       /\ Agree(id)
       /\ ~store.loaded => NotLoaded(id)
       /\ store.loaded => Loaded(id) /\ SecretKept(id) /\ Erased(id)

\* The same of the settings.
SettingsInv ==
    Settings \notin dirty =>
       /\ ~store.loaded => /\ \A c \in pending : c.id # Settings
                           /\ mem.settings = disk.settings
                           /\ load.taken => load.settings = disk.settings
       /\ store.loaded =>
             /\ \A c \in pending : c.op = "settings" => c.settings = store.settings
             /\ (\A c \in pending : c.at # "file") => disk.settings = store.settings

\* The policies of the daemon are the one shown, or it is on its way there.
KillInv ==
    ~killStale =>
       /\ ~store.loaded => /\ Settings \notin dirty
                           /\ \A c \in pending : c.id # Settings
                           /\ {captured, daemonKill} \subseteq {"none", disk.settings.kill}
       /\ store.loaded =>
             /\ \A c \in pending : c.op = "daemon" => c.settings.kill = store.settings.kill
             /\ (\A c \in pending : c.op # "daemon") =>
                   {captured, daemonKill} \subseteq {"none", store.settings.kill}

Commands == \A c \in pending : CommandOK(c)

IInv ==
    /\ TypeInv /\ Commands /\ UniqueIds /\ OnlyDeletedMissing /\ DamageInv
    /\ ProfileInv /\ SettingsInv /\ KillInv

-----------------------------------------------------------------------------
(***************************************************************************)
(* The lists                                                               *)
(***************************************************************************)
LEMMA IdsFacts ==
  /\ MaxId \in Nat /\ Ids \subseteq Nat /\ Settings \notin Ids /\ MaxId = Len(InitialProfiles) + MaxOps
  /\ \A n \in Nat : n \in Ids <=> 1 <= n /\ n <= MaxId
BY StorageAssumption, LenProperties DEF Ids, MaxId, Settings

\* What taking out one position leaves.
LEMMA RemoveAtFacts ==
  ASSUME NEW S, NEW s \in Seq(S), NEW i \in 1..Len(s)
  PROVE  /\ RemoveAt(s, i) \in Seq(S)
         /\ Len(RemoveAt(s, i)) = Len(s) - 1
         /\ \A j \in 1..(Len(s) - 1) : RemoveAt(s, i)[j] = IF j < i THEN s[j] ELSE s[j + 1]
<1> DEFINE a == SubSeq(s, 1, i - 1)
           b == SubSeq(s, i + 1, Len(s))
<1>0. Len(s) \in Nat /\ i \in Nat
  BY LenProperties
<1>1. a \in Seq(S) /\ Len(a) = i - 1 /\ \A j \in 1..(i - 1) : a[j] = s[j]
  BY <1>0, SubSeqProperties
<1>2. b \in Seq(S) /\ Len(b) = Len(s) - i /\ \A j \in 1..(Len(s) - i) : b[j] = s[i + j]
  BY <1>0, SubSeqProperties
<1>3. /\ a \o b \in Seq(S) /\ Len(a \o b) = Len(a) + Len(b)
      /\ \A j \in 1..(Len(a) + Len(b)) : (a \o b)[j] = IF j <= Len(a) THEN a[j] ELSE b[j - Len(a)]
  BY <1>1, <1>2, ConcatProperties
<1> HIDE DEF a, b
<1>4. \A j \in 1..(Len(s) - 1) : (a \o b)[j] = IF j < i THEN s[j] ELSE s[j + 1]
  <2> SUFFICES ASSUME NEW j \in 1..(Len(s) - 1)
               PROVE  (a \o b)[j] = IF j < i THEN s[j] ELSE s[j + 1]
    OBVIOUS
  <2>1. CASE j < i
    BY <2>1, <1>0, <1>1, <1>2, <1>3
  <2>2. CASE ~(j < i)
    <3>1. j - (i - 1) \in 1..(Len(s) - i) /\ i + (j - (i - 1)) = j + 1
      BY <2>2, <1>0
    <3>2. (a \o b)[j] = b[j - (i - 1)]
      BY <2>2, <1>0, <1>1, <1>2, <1>3
    <3> QED
      BY <3>1, <3>2, <1>2, <2>2
  <2> QED
    BY <2>1, <2>2
<1>5. a \o b = RemoveAt(s, i)
  BY DEF a, b, RemoveAt
<1> QED
  BY <1>0, <1>1, <1>2, <1>3, <1>4, <1>5

\* Without drops the entry of id and nothing else, and keeps ids unique.
LEMMA WithoutFacts ==
  ASSUME NEW S, NEW s \in Seq(S), NEW id, Unique(s)
  PROVE  /\ Without(s, id) \in Seq(S)
         /\ Unique(Without(s, id))
         /\ \A i \in DOMAIN Without(s, id) : \E j \in DOMAIN s : Without(s, id)[i] = s[j] /\ s[j].id # id
         /\ \A j \in DOMAIN s : s[j].id # id => \E i \in DOMAIN Without(s, id) : Without(s, id)[i] = s[j]
<1>0. DOMAIN s = 1..Len(s) /\ Len(s) \in Nat
  BY LenProperties
<1>1. CASE ~\E i \in DOMAIN s : s[i].id = id
  BY <1>1 DEF Without
<1>2. CASE \E i \in DOMAIN s : s[i].id = id
  <2> DEFINE k == CHOOSE i \in DOMAIN s : s[i].id = id
             w == RemoveAt(s, k)
  <2>1. k \in 1..Len(s) /\ s[k].id = id
    BY <1>2, <1>0
  <2>2. Without(s, id) = w
    BY <1>2 DEF Without
  <2> HIDE DEF k
  <2>3. /\ w \in Seq(S) /\ Len(w) = Len(s) - 1
        /\ \A j \in 1..(Len(s) - 1) : w[j] = IF j < k THEN s[j] ELSE s[j + 1]
    BY <2>1, RemoveAtFacts
  <2> HIDE DEF w
  <2>4. DOMAIN w = 1..(Len(s) - 1)
    BY <2>3, LenProperties
  <2>5. \A i \in DOMAIN s : s[i].id = id => i = k
    BY <2>1, <1>0 DEF Unique
  <2>6. Unique(w)
    <3> SUFFICES ASSUME NEW i \in DOMAIN w, NEW j \in DOMAIN w, w[i].id = w[j].id
                 PROVE  i = j
      BY DEF Unique
    <3>1. w[i] = s[IF i < k THEN i ELSE i + 1] /\ w[j] = s[IF j < k THEN j ELSE j + 1]
      BY <2>3, <2>4
    <3>2. (IF i < k THEN i ELSE i + 1) \in DOMAIN s /\ (IF j < k THEN j ELSE j + 1) \in DOMAIN s
      BY <2>4, <1>0, <2>1
    <3>3. (IF i < k THEN i ELSE i + 1) = (IF j < k THEN j ELSE j + 1)
      BY <3>1, <3>2 DEF Unique
    <3> QED
      BY <3>3, <2>4, <1>0, <2>1
  <2>7. ASSUME NEW i \in DOMAIN w
        PROVE  \E j \in DOMAIN s : w[i] = s[j] /\ s[j].id # id
    <3> DEFINE j == IF i < k THEN i ELSE i + 1
    <3>1. j \in DOMAIN s /\ j # k /\ w[i] = s[j]
      BY <2>3, <2>4, <1>0, <2>1
    <3> QED
      BY <3>1, <2>5
  <2>8. ASSUME NEW j \in DOMAIN s, s[j].id # id
        PROVE  \E i \in DOMAIN w : w[i] = s[j]
    <3> DEFINE i == IF j < k THEN j ELSE j - 1
    <3>1. j # k
      BY <2>8, <2>1
    <3>2. i \in DOMAIN w /\ (IF i < k THEN i ELSE i + 1) = j
      BY <3>1, <2>4, <1>0, <2>1
    <3>3. w[i] = s[j]
      BY <3>2, <2>3, <2>4
    <3> QED
      BY <3>2, <3>3
  <2> QED
    BY <2>2, <2>3, <2>6, <2>7, <2>8
<1> QED
  BY <1>1, <1>2

\* What a list is after a new first entry, and after replacing the entry of an id.
ConsOf(w, e, s) ==
    /\ \A i \in DOMAIN w : w[i] = e \/ \E j \in DOMAIN s : w[i] = s[j]
    /\ \E i \in DOMAIN w : w[i] = e
    /\ \A j \in DOMAIN s : \E i \in DOMAIN w : w[i] = s[j]
Replaced(s, e) == [i \in DOMAIN s |-> IF s[i].id = e.id THEN e ELSE s[i]]
ReplaceOf(w, e, s) ==
    DOMAIN w = DOMAIN s /\ \A i \in DOMAIN s : w[i] = IF s[i].id = e.id THEN e ELSE s[i]

\* A new first entry.
LEMMA ConsFacts ==
  ASSUME NEW S, NEW s \in Seq(S), NEW e \in S, Unique(s), ~Listed(s, e.id)
  PROVE  <<e>> \o s \in Seq(S) /\ Unique(<<e>> \o s) /\ ConsOf(<<e>> \o s, e, s)
<1> DEFINE w == <<e>> \o s
<1>0. DOMAIN s = 1..Len(s) /\ Len(s) \in Nat
  BY LenProperties
<1>1. <<e>> \in Seq(S) /\ Len(<<e>>) = 1 /\ <<e>>[1] = e
  OBVIOUS
<1>2. /\ w \in Seq(S) /\ Len(w) = 1 + Len(s)
      /\ \A i \in 1..(1 + Len(s)) : w[i] = IF i <= 1 THEN <<e>>[i] ELSE s[i - 1]
  BY <1>1, ConcatProperties
<1> HIDE DEF w
<1>3. DOMAIN w = 1..(1 + Len(s))
  BY <1>2, LenProperties
<1>4. w[1] = e /\ \A i \in DOMAIN w : i # 1 => i - 1 \in DOMAIN s /\ w[i] = s[i - 1]
  BY <1>0, <1>1, <1>2, <1>3
<1>5. \A j \in DOMAIN s : j + 1 \in DOMAIN w /\ w[j + 1] = s[j]
  BY <1>0, <1>2, <1>3
<1>6. Unique(w)
  <2> SUFFICES ASSUME NEW i \in DOMAIN w, NEW j \in DOMAIN w, w[i].id = w[j].id, i # j
               PROVE  FALSE
    BY DEF Unique
  <2>1. CASE i = 1
    BY <2>1, <1>4 DEF Listed
  <2>2. CASE j = 1
    BY <2>2, <1>4 DEF Listed
  <2>3. CASE i # 1 /\ j # 1
    BY <2>3, <1>4, <1>3, <1>0 DEF Unique
  <2> QED
    BY <2>1, <2>2, <2>3
<1>7. 1 \in DOMAIN w
  BY <1>3, <1>0
<1>8. ConsOf(w, e, s)
  BY <1>4, <1>5, <1>7 DEF ConsOf
<1> QED
  BY <1>2, <1>6, <1>8 DEF w

\* Replacing the entry of one id.
LEMMA ReplaceFacts ==
  ASSUME NEW S, NEW s \in Seq(S), NEW e \in S, Unique(s)
  PROVE  Replaced(s, e) \in Seq(S) /\ Unique(Replaced(s, e)) /\ ReplaceOf(Replaced(s, e), e, s)
<1> DEFINE w == Replaced(s, e)
<1>1. DOMAIN s = 1..Len(s) /\ Len(s) \in Nat /\ \A i \in DOMAIN s : s[i] \in S
  BY LenProperties, ElementOfSeq
<1>2. ReplaceOf(w, e, s)
  BY DEF ReplaceOf, Replaced
<1>3. w \in Seq(S)
  BY <1>1, IsASeq DEF Replaced
<1>4. Unique(w)
  BY <1>2 DEF Unique, ReplaceOf
<1> QED
  BY <1>2, <1>3, <1>4

\* What a save and a deletion make of the list in memory.
LEMMA NewListFacts ==
  ASSUME TypeInv, UniqueIds, NEW c \in CommandType, c.id \in Ids
  PROVE  /\ NewList(c) \in Seq(EntryType) /\ Unique(NewList(c))
         /\ \A i \in DOMAIN NewList(c) : NewList(c)[i].id = c.id \/ Listed(mem.list, NewList(c)[i].id)
         /\ \A id : id # c.id => SameEntry(NewList(c), mem.list, id)
         /\ \A id : id # c.id => (Listed(NewList(c), id) <=> Listed(mem.list, id))
         /\ c.op = "delete" => ~Listed(NewList(c), c.id)
         /\ c.op # "delete" => \A mark \in BOOLEAN : Marked(NewList(c), c.id, mark) <=> mark = c.favorite
<1> DEFINE s == mem.list
           e == [id |-> c.id, favorite |-> c.favorite]
           w == NewList(c)
<1>0. s \in Seq(EntryType) /\ Unique(s)
  BY DEF TypeInv, TypeOK, UniqueIds
<1>1. e \in EntryType /\ e.id = c.id /\ e.favorite = c.favorite
  BY DEF EntryType, CommandType
<1>2. CASE c.op = "delete"
  <2>1. w = Without(s, c.id)
    BY <1>2 DEF NewList
  <2>2. /\ w \in Seq(EntryType) /\ Unique(w)
        /\ \A i \in DOMAIN w : \E j \in DOMAIN s : w[i] = s[j] /\ s[j].id # c.id
        /\ \A j \in DOMAIN s : s[j].id # c.id => \E i \in DOMAIN w : w[i] = s[j]
    BY <2>1, <1>0, WithoutFacts
  <2> HIDE DEF w, s
  <2> QED
    BY <1>2, <2>2 DEF Marked, Listed, SameEntry, w, s
<1>3. CASE c.op # "delete" /\ \E i \in DOMAIN s : s[i].id = c.id
  <2>1. w = Replaced(s, e)
    BY <1>3, <1>1 DEF NewList, Replaced
  <2> HIDE DEF w, s, e
  <2>2. w \in Seq(EntryType) /\ Unique(w) /\ ReplaceOf(w, e, s)
    BY <2>1, <1>0, <1>1, ReplaceFacts
  <2> QED
    BY <1>3, <1>1, <2>2 DEF ReplaceOf, Marked, Listed, SameEntry, w, s
<1>4. CASE c.op # "delete" /\ ~\E i \in DOMAIN s : s[i].id = c.id
  <2>1. w = <<e>> \o s
    BY <1>4 DEF NewList
  <2>2. ~Listed(s, e.id)
    BY <1>4, <1>1 DEF Listed
  <2> HIDE DEF w, s, e
  <2>3. w \in Seq(EntryType) /\ Unique(w) /\ ConsOf(w, e, s)
    BY <2>1, <2>2, <1>0, <1>1, ConsFacts
  <2> QED
    BY <1>4, <1>1, <2>3 DEF ConsOf, Marked, Listed, SameEntry, w, s
<1> QED
  BY <1>2, <1>3, <1>4

-----------------------------------------------------------------------------
(***************************************************************************)
(* Types                                                                   *)
(***************************************************************************)
LEMMA InitialFacts ==
  /\ InitialProfiles \in Seq(EntryType) /\ Len(InitialProfiles) \in Nat
  /\ DOMAIN InitialProfiles = 1..Len(InitialProfiles)
  /\ Unique(InitialProfiles)
  /\ \A i \in DOMAIN InitialProfiles : InitialProfiles[i].id = i
<1>1. /\ Len(InitialProfiles) \in Nat /\ DOMAIN InitialProfiles = 1..Len(InitialProfiles)
      /\ \A i \in DOMAIN InitialProfiles : InitialProfiles[i].id = i
      /\ \A i \in DOMAIN InitialProfiles : InitialProfiles[i] \in [id : Nat, favorite : BOOLEAN]
  BY StorageAssumption, LenProperties, ElementOfSeq
<1>2. \A i \in 1..Len(InitialProfiles) : InitialProfiles[i] \in EntryType
  BY <1>1, IdsFacts, StorageAssumption DEF EntryType
<1>3. InitialProfiles = [i \in 1..Len(InitialProfiles) |-> InitialProfiles[i]]
  BY <1>1, StorageAssumption
<1>4. InitialProfiles \in Seq(EntryType)
  BY <1>1, <1>2, <1>3, IsASeq
<1> QED
  BY <1>1, <1>4 DEF Unique

LEMMA DefaultIsPolicy == DefaultSettings \in PolicyType /\ NoSecrets \in [Ids -> Nat]
BY DEF DefaultSettings, PolicyType, NoSecrets

LEMMA TypeInit == Init => TypeInv
<1> SUFFICES ASSUME Init PROVE TypeInv
  OBVIOUS
<1>1. disk \in [profiles : Seq(EntryType), vault : [Ids -> Nat], settings : PolicyType]
  BY InitialFacts, DefaultIsPolicy DEF Init, InitialDisk
<1>2. mem \in [list : Seq(EntryType), cache : [Ids -> Nat], settings : PolicyType]
  BY <1>1 DEF Init, LoadedFrom
<1>3. /\ store.loaded = FALSE /\ store.settings \in PolicyType /\ store.profiles \in Seq(ProfileType)
      /\ store = [loaded |-> store.loaded, profiles |-> store.profiles,
                  settings |-> store.settings, active |-> store.active]
  BY DefaultIsPolicy DEF Init, EmptyStore
<1>4. issued \in 0..MaxOps /\ nextId \in 1..(MaxId + 1) /\ nextId <= Len(InitialProfiles) + issued + 1
  BY InitialFacts, IdsFacts, StorageAssumption DEF Init
<1> QED
  BY <1>1, <1>2, <1>3, <1>4 DEF Init, TypeInv, TypeOK

-----------------------------------------------------------------------------
(***************************************************************************)
(* The operations of the store on profiles, as one: they change what is    *)
(* shown of profile x and issue the command cmd.                           *)
(***************************************************************************)
\* A store with the four fields is read as it was written.
StoreShape ==
    store = [loaded |-> store.loaded, profiles |-> store.profiles,
             settings |-> store.settings, active |-> store.active]

HasSecret(list, id, s) == \E i \in DOMAIN list : list[i].id = id /\ list[i].secret = s

\* Only what is shown of x changes.
OnlyEntry(new, old, x) ==
    \A id : id # x =>
       /\ SameEntry(new, old, id)
       /\ Listed(new, id) <=> Listed(old, id)
       /\ \A s : HasSecret(new, id, s) <=> HasSecret(old, id, s)

\* A save carries what is shown, with the secret if it is a new one.
SaveOp(x, cmd) ==
    /\ deleted' = deleted
    /\ Listed(store.profiles, x) \/ x = nextId
    /\ \A mark \in BOOLEAN : Marked(store'.profiles, x, mark) <=> mark = cmd.favorite
    /\ cmd.at = (IF cmd.secret = 0 THEN "list" ELSE "cache")
    /\ \A s : HasSecret(store'.profiles, x, s) /\ s # 0 =>
          IF cmd.secret # 0 THEN s = cmd.secret ELSE HasSecret(store.profiles, x, s)

DeleteOp(x, cmd) ==
    /\ deleted' = deleted \cup {x}
    /\ Listed(store.profiles, x) /\ ~Listed(store'.profiles, x)
    /\ cmd.at = "cache" /\ cmd.secret = 0

ProfileOp(x, cmd) ==
    /\ cmd.id = x /\ Issue({cmd}, x)
    /\ \/ cmd.op = "save" /\ SaveOp(x, cmd)
       \/ cmd.op = "delete" /\ DeleteOp(x, cmd)
    /\ store'.loaded = store.loaded /\ store'.settings = store.settings /\ StoreShape'
    /\ store'.profiles \in Seq(ProfileType) /\ Unique(store'.profiles)
    /\ OnlyEntry(store'.profiles, store.profiles, x)
    /\ nextId' = (IF x = nextId THEN nextId + 1 ELSE nextId)
    /\ UNCHANGED <<load, mem, disk, captured, daemonKill, damaged, killStale, crashes>>

LEMMA OpBasics ==
  ASSUME TypeInv
  PROVE  /\ StoreShape /\ issued \in Nat /\ nextId \in Nat /\ nextId <= Len(InitialProfiles) + issued + 1
         /\ \A i \in DOMAIN store.profiles : store.profiles[i] \in ProfileType
         /\ \A p \in ProfileType, secret \in Nat :
               /\ SaveCommand(p, secret) \in CommandType
               /\ SaveCommand(p, secret).op = "save" /\ SaveCommand(p, secret).id = p.id
               /\ SaveCommand(p, secret).favorite = p.favorite /\ SaveCommand(p, secret).secret = secret
               /\ SaveCommand(p, secret).at = IF secret = 0 THEN "list" ELSE "cache"
<1>1. /\ StoreShape /\ issued \in Nat /\ nextId \in Nat /\ nextId <= Len(InitialProfiles) + issued + 1
      /\ \A i \in DOMAIN store.profiles : store.profiles[i] \in ProfileType
  BY ElementOfSeq, IdsFacts, StorageAssumption DEF TypeInv, TypeOK, StoreShape
<1>2. ASSUME NEW p \in ProfileType, NEW secret \in Nat
      PROVE  /\ SaveCommand(p, secret) \in CommandType
             /\ SaveCommand(p, secret).op = "save" /\ SaveCommand(p, secret).id = p.id
             /\ SaveCommand(p, secret).favorite = p.favorite /\ SaveCommand(p, secret).secret = secret
             /\ SaveCommand(p, secret).at = IF secret = 0 THEN "list" ELSE "cache"
  BY <1>1, IdsFacts, DefaultIsPolicy DEF SaveCommand, CommandType, ProfileType
<1> QED
  BY <1>1, <1>2

\* The entry of p's id is p.
Shows(w, p) ==
    /\ \A mark : Marked(w, p.id, mark) <=> mark = p.favorite
    /\ \A x : HasSecret(w, p.id, x) <=> x = p.secret

Put(s, i, p) == [s EXCEPT ![i] = p]

\* The entry at position i is replaced by one with the same id.
LEMMA PutFacts ==
  ASSUME NEW S, NEW s \in Seq(S), NEW i \in DOMAIN s, NEW p \in S, p.id = s[i].id, Unique(s)
  PROVE  Put(s, i, p) \in Seq(S) /\ Unique(Put(s, i, p)) /\ OnlyEntry(Put(s, i, p), s, p.id) /\ Shows(Put(s, i, p), p)
<1> DEFINE w == Put(s, i, p)
<1>1. w \in Seq(S)
  BY ExceptSeq, LenProperties DEF Put
<1>2. DOMAIN w = DOMAIN s /\ w[i] = p /\ \A j \in DOMAIN s : j # i => w[j] = s[j]
  BY LenProperties DEF Put
<1> HIDE DEF w
<1>3. \A j \in DOMAIN s : s[j].id = p.id <=> j = i
  BY DEF Unique
<1>4. Unique(w)
  BY <1>2 DEF Unique
<1>5. OnlyEntry(w, s, p.id)
  BY <1>2, <1>3 DEF OnlyEntry, SameEntry, Marked, Listed, HasSecret
<1>6. \A mark : Marked(w, p.id, mark) <=> mark = p.favorite
  BY <1>2, <1>3 DEF Marked
<1>7. \A x : HasSecret(w, p.id, x) <=> x = p.secret
  BY <1>2, <1>3 DEF HasSecret
<1> QED
  BY <1>1, <1>4, <1>5, <1>6, <1>7 DEF Shows, w

LEMMA AddIsOp ==
  ASSUME TypeInv, UniqueIds, AddProfile
  PROVE  \E x \in Ids, cmd \in CommandType : ProfileOp(x, cmd)
<1> DEFINE p == [id |-> nextId, favorite |-> FALSE, secret |-> issued + 2]
           cmd == SaveCommand(p, p.secret)
<1>0. StoreShape /\ issued \in Nat /\ nextId \in Nat
  BY OpBasics
<1>1. issued < MaxOps /\ Issue({cmd}, p.id)
  BY DEF AddProfile, Issue
<1>2. nextId \in Ids
  BY <1>1, <1>0, OpBasics, IdsFacts, InitialFacts, StorageAssumption DEF TypeInv, TypeOK
<1>3. p \in ProfileType /\ p.id = nextId /\ p.favorite = FALSE /\ p.secret \in Nat \ {0}
  BY <1>2, <1>0 DEF ProfileType
<1>4. store' = [store EXCEPT !.profiles = <<p>> \o @, !.active = p.id]
  BY DEF AddProfile
<1>5. UNCHANGED <<load, mem, disk, captured, daemonKill, damaged, killStale, deleted, crashes>> /\ nextId' = nextId + 1
  BY DEF AddProfile, backVars, daemonVars
<1> HIDE DEF p
<1>6. /\ store'.profiles = <<p>> \o store.profiles
      /\ store'.loaded = store.loaded /\ store'.settings = store.settings
      /\ StoreShape'
  BY <1>4, <1>0 DEF StoreShape
<1>7. store.profiles \in Seq(ProfileType) /\ Unique(store.profiles) /\ ~Listed(store.profiles, p.id)
  <2>1. store.profiles \in Seq(ProfileType) /\ Unique(store.profiles) /\ Below(store.profiles)
    BY DEF TypeInv, TypeOK, UniqueIds
  <2>2. \A i \in DOMAIN store.profiles : store.profiles[i].id \in Nat
    BY OpBasics, IdsFacts DEF ProfileType
  <2>3. \A i \in DOMAIN store.profiles : store.profiles[i].id # nextId
    BY <2>1, <2>2, <1>0 DEF Below
  <2> QED
    BY <2>1, <2>3, <1>3 DEF Listed
<1> DEFINE w == store'.profiles
           s == store.profiles
<1>8. w \in Seq(ProfileType) /\ Unique(w) /\ ConsOf(w, p, s)
  BY <1>3, <1>6, <1>7, ConsFacts
<1>9. /\ cmd \in CommandType /\ cmd.op = "save" /\ cmd.id = p.id /\ cmd.favorite = p.favorite
      /\ cmd.secret = p.secret /\ cmd.at = "cache"
  BY <1>3, OpBasics
<1> HIDE DEF cmd, w, s
<1>10. OnlyEntry(w, s, p.id)
  BY <1>8 DEF ConsOf, OnlyEntry, SameEntry, Marked, Listed, HasSecret
<1>11. Shows(w, p)
  <2>1. ~Listed(s, p.id)
    BY <1>7 DEF s
  <2>2. \A i \in DOMAIN w : w[i].id = p.id => w[i] = p
    BY <2>1, <1>8 DEF ConsOf, Listed
  <2>3. \E i \in DOMAIN w : w[i] = p
    BY <1>8 DEF ConsOf
  <2>4. \A mark : Marked(w, p.id, mark) <=> mark = p.favorite
    BY <2>2, <2>3 DEF Marked
  <2>5. \A x : HasSecret(w, p.id, x) <=> x = p.secret
    BY <2>2, <2>3 DEF HasSecret
  <2> QED
    BY <2>4, <2>5 DEF Shows
<1>12. SaveOp(nextId, cmd)
  BY <1>3, <1>5, <1>9, <1>11 DEF SaveOp, Shows, w
<1>13. ProfileOp(nextId, cmd)
  BY <1>1, <1>3, <1>5, <1>6, <1>8, <1>9, <1>10, <1>12 DEF ProfileOp, w, s
<1> QED
  BY <1>2, <1>9, <1>13

LEMMA UpdateIsOp ==
  ASSUME TypeInv, UniqueIds, NEW i \in 1..MaxId, NEW secret \in {0, issued + 2}, UpdateProfile(i, secret)
  PROVE  \E x \in Ids, cmd \in CommandType : ProfileOp(x, cmd)
<1> DEFINE s == store.profiles
           p == [s[i] EXCEPT !.secret = secret]
           x == s[i].id
           cmd == SaveCommand(p, secret)
           w == store'.profiles
<1>0. StoreShape /\ issued \in Nat /\ nextId \in Nat
  BY OpBasics
<1>1. i \in DOMAIN s /\ s[i] \in ProfileType /\ secret \in Nat
  BY <1>0, OpBasics DEF UpdateProfile
<1>2. p \in ProfileType /\ p.id = x /\ p.favorite = s[i].favorite /\ p.secret = secret /\ x \in Ids
  BY <1>1 DEF ProfileType
<1>3. store' = [store EXCEPT !.profiles[i] = p] /\ Issue({cmd}, x)
  BY <1>2 DEF UpdateProfile
<1>4. UNCHANGED <<load, mem, disk, captured, daemonKill, damaged, killStale, deleted, crashes, nextId>>
  BY DEF UpdateProfile, backVars, daemonVars
<1>5. s \in Seq(ProfileType) /\ Unique(s) /\ x < nextId
  BY <1>1 DEF TypeInv, TypeOK, UniqueIds, Below
<1>6. Listed(s, x)
  BY <1>1 DEF Listed
<1>9. /\ cmd \in CommandType /\ cmd.op = "save" /\ cmd.id = x /\ cmd.favorite = p.favorite
      /\ cmd.secret = secret /\ cmd.at = (IF secret = 0 THEN "list" ELSE "cache")
  <2> HIDE DEF p, x, s
  <2> QED
    BY <1>1, <1>2, OpBasics
<1> HIDE DEF p, cmd
<1>7. w = Put(s, i, p) /\ store'.loaded = store.loaded /\ store'.settings = store.settings /\ StoreShape'
  BY <1>3, <1>0 DEF StoreShape, Put
<1> HIDE DEF w, s
<1>8. w \in Seq(ProfileType) /\ Unique(w) /\ OnlyEntry(w, s, p.id) /\ Shows(w, p)
  BY <1>1, <1>2, <1>5, <1>7, PutFacts
<1> HIDE DEF x
<1>10. SaveOp(x, cmd)
  BY <1>2, <1>4, <1>6, <1>8, <1>9 DEF SaveOp, Shows, w, s
<1>11. x # nextId
  BY <1>0, <1>2, <1>5, IdsFacts
<1>12. ProfileOp(x, cmd)
  BY <1>2, <1>3, <1>4, <1>7, <1>8, <1>9, <1>10, <1>11 DEF ProfileOp, w, s
<1> QED
  BY <1>2, <1>9, <1>12

LEMMA ToggleIsOp ==
  ASSUME TypeInv, UniqueIds, NEW i \in 1..MaxId, ToggleFavorite(i)
  PROVE  \E x \in Ids, cmd \in CommandType : ProfileOp(x, cmd)
<1> DEFINE s == store.profiles
           p == [s[i] EXCEPT !.favorite = ~@]
           x == s[i].id
           cmd == SaveCommand(p, 0)
           w == store'.profiles
<1>0. StoreShape /\ issued \in Nat /\ nextId \in Nat
  BY OpBasics
<1>1. i \in DOMAIN s /\ s[i] \in ProfileType
  BY <1>0, OpBasics DEF ToggleFavorite
<1>2. p \in ProfileType /\ p.id = x /\ p.secret = s[i].secret /\ x \in Ids
  BY <1>1 DEF ProfileType
<1>3. store' = [store EXCEPT !.profiles[i] = p] /\ Issue({cmd}, x)
  BY <1>2 DEF ToggleFavorite
<1>4. UNCHANGED <<load, mem, disk, captured, daemonKill, damaged, killStale, deleted, crashes, nextId>>
  BY DEF ToggleFavorite, backVars, daemonVars
<1>5. s \in Seq(ProfileType) /\ Unique(s) /\ x < nextId
  BY <1>1 DEF TypeInv, TypeOK, UniqueIds, Below
<1>6. Listed(s, x) /\ HasSecret(s, x, s[i].secret)
  BY <1>1 DEF Listed, HasSecret
<1>9. /\ cmd \in CommandType /\ cmd.op = "save" /\ cmd.id = x /\ cmd.favorite = p.favorite
      /\ cmd.secret = 0 /\ cmd.at = "list"
  <2> HIDE DEF p, x, s
  <2> QED
    BY <1>1, <1>2, OpBasics
<1> HIDE DEF p, cmd
<1>7. w = Put(s, i, p) /\ store'.loaded = store.loaded /\ store'.settings = store.settings /\ StoreShape'
  BY <1>3, <1>0 DEF StoreShape, Put
<1> HIDE DEF w, s
<1>8. w \in Seq(ProfileType) /\ Unique(w) /\ OnlyEntry(w, s, p.id) /\ Shows(w, p)
  BY <1>1, <1>2, <1>5, <1>7, PutFacts
<1> HIDE DEF x
<1>10. SaveOp(x, cmd)
  BY <1>2, <1>4, <1>6, <1>8, <1>9 DEF SaveOp, Shows, w, s
<1>11. x # nextId
  BY <1>0, <1>2, <1>5, IdsFacts
<1>12. ProfileOp(x, cmd)
  BY <1>2, <1>3, <1>4, <1>7, <1>8, <1>9, <1>10, <1>11 DEF ProfileOp, w, s
<1> QED
  BY <1>2, <1>9, <1>12

LEMMA DeleteIsOp ==
  ASSUME TypeInv, UniqueIds, NEW i \in 1..MaxId, DeleteProfile(i)
  PROVE  \E x \in Ids, cmd \in CommandType : ProfileOp(x, cmd)
<1> DEFINE s == store.profiles
           x == s[i].id
           cmd == DeleteCommand(x)
           w == store'.profiles
<1>0. StoreShape /\ issued \in Nat /\ nextId \in Nat
  BY OpBasics
<1>1. i \in DOMAIN s /\ s[i] \in ProfileType /\ x \in Ids
  BY <1>0, OpBasics DEF DeleteProfile, ProfileType
<1>2. /\ store' = [store EXCEPT !.profiles = Without(@, x),
                                !.active = IF @ = x THEN FirstId(store.profiles) ELSE @]
      /\ Issue({cmd}, x) /\ deleted' = deleted \cup {x}
  BY DEF DeleteProfile
<1>3. UNCHANGED <<load, mem, disk, captured, daemonKill, damaged, killStale, crashes, nextId>>
  BY DEF DeleteProfile, backVars, daemonVars
<1>4. s \in Seq(ProfileType) /\ Unique(s) /\ x < nextId
  BY <1>1 DEF TypeInv, TypeOK, UniqueIds, Below
<1>5. Listed(s, x)
  BY <1>1 DEF Listed
<1>6. cmd \in CommandType /\ cmd.op = "delete" /\ cmd.id = x /\ cmd.secret = 0 /\ cmd.at = "cache"
  BY <1>0, <1>1, DefaultIsPolicy DEF DeleteCommand, CommandType
<1> HIDE DEF x, cmd
<1>7. w = Without(s, x) /\ store'.loaded = store.loaded /\ store'.settings = store.settings /\ StoreShape'
  BY <1>2, <1>0 DEF StoreShape
<1> HIDE DEF w, s
<1>8. /\ w \in Seq(ProfileType) /\ Unique(w)
      /\ \A k \in DOMAIN w : \E j \in DOMAIN s : w[k] = s[j] /\ s[j].id # x
      /\ \A j \in DOMAIN s : s[j].id # x => \E k \in DOMAIN w : w[k] = s[j]
  BY <1>4, <1>7, WithoutFacts
<1>9. OnlyEntry(w, s, x) /\ ~Listed(w, x)
  BY <1>8 DEF OnlyEntry, SameEntry, Marked, Listed, HasSecret
<1>10. x # nextId
  BY <1>0, <1>1, <1>4, IdsFacts
<1>11. DeleteOp(x, cmd)
  BY <1>2, <1>5, <1>6, <1>9 DEF DeleteOp, w, s
<1>12. ProfileOp(x, cmd)
  BY <1>2, <1>3, <1>6, <1>7, <1>8, <1>9, <1>10, <1>11 DEF ProfileOp, w, s
<1> QED
  BY <1>1, <1>6, <1>12

\* Changing the settings, as one: s is what is shown then, cmds the commands.
SettingsOp(s, cmds) ==
    /\ Issue(cmds, Settings)
    /\ \A c \in cmds : /\ c.id = Settings /\ c.settings = s
                       /\ \/ c.op = "settings" /\ c.at = "file"
                          \/ c.op = "daemon" /\ c.at = "daemon"
    /\ \E c \in cmds : c.op = "settings"
    /\ store'.settings = s /\ store'.profiles = store.profiles /\ store'.loaded = store.loaded /\ StoreShape'
    /\ killStale' \in BOOLEAN /\ (killStale \/ ~store.loaded => killStale')
    /\ \/ s.kill = store.settings.kill /\ \A c \in cmds : c.op # "daemon"
       \/ (\E c \in cmds : c.op = "daemon") /\ ((\E c \in pending : c.op = "daemon") => killStale')
    /\ UNCHANGED <<load, nextId, mem, disk, captured, daemonKill, damaged, deleted, crashes>>

LEMMA SettingsCommandFacts ==
  ASSUME TypeInv, NEW s \in PolicyType, NEW op \in {"settings", "daemon"}
  PROVE  /\ SettingsCommand(op, s) \in CommandType
         /\ SettingsCommand(op, s).id = Settings /\ SettingsCommand(op, s).settings = s
         /\ SettingsCommand(op, s).op = op
         /\ SettingsCommand(op, s).at = IF op = "settings" THEN "file" ELSE "daemon"
BY OpBasics DEF SettingsCommand, CommandType

LEMMA KillSwitchIsOp ==
  ASSUME TypeInv, NEW mode \in {"off", "strict"}, SetKillSwitch(mode)
  PROVE  \E s \in PolicyType : \E cmds \in SUBSET CommandType : SettingsOp(s, cmds)
<1> DEFINE s == [store.settings EXCEPT !.kill = mode]
           a == SettingsCommand("settings", s)
           b == SettingsCommand("daemon", s)
<1>0. StoreShape /\ store.settings \in PolicyType /\ killStale \in BOOLEAN
  BY OpBasics DEF TypeInv, TypeOK
<1>1. s \in PolicyType
  BY <1>0 DEF PolicyType
<1>2. store' = [store EXCEPT !.settings = s] /\ Issue({a, b}, Settings)
  BY DEF SetKillSwitch
<1>3. /\ UNCHANGED <<load, nextId, mem, disk, captured, daemonKill, damaged, deleted, crashes>>
      /\ killStale' = (killStale \/ ~store.loaded \/ \E c \in pending : c.op = "daemon")
  BY DEF SetKillSwitch, backVars, daemonVars
<1> HIDE DEF s
<1>4. /\ a \in CommandType /\ a.id = Settings /\ a.settings = s /\ a.op = "settings" /\ a.at = "file"
      /\ b \in CommandType /\ b.id = Settings /\ b.settings = s /\ b.op = "daemon" /\ b.at = "daemon"
  BY <1>1, SettingsCommandFacts
<1> HIDE DEF a, b
<1>5. store'.settings = s /\ store'.profiles = store.profiles /\ store'.loaded = store.loaded /\ StoreShape'
  BY <1>0, <1>2 DEF StoreShape
<1>6. SettingsOp(s, {a, b})
  BY <1>0, <1>2, <1>3, <1>4, <1>5 DEF SettingsOp
<1> QED
  BY <1>1, <1>4, <1>6

LEMMA SecurityIsOp ==
  ASSUME TypeInv, NEW ipv6 \in BOOLEAN, UpdateSecuritySettings(ipv6)
  PROVE  \E s \in PolicyType : \E cmds \in SUBSET CommandType : SettingsOp(s, cmds)
<1> DEFINE s == [store.settings EXCEPT !.ipv6 = ipv6]
           a == SettingsCommand("settings", s)
<1>0. StoreShape /\ store.settings \in PolicyType /\ killStale \in BOOLEAN
  BY OpBasics DEF TypeInv, TypeOK
<1>1. s \in PolicyType /\ s.kill = store.settings.kill
  BY <1>0 DEF PolicyType
<1>2. store' = [store EXCEPT !.settings = s] /\ Issue({a}, Settings)
  BY DEF UpdateSecuritySettings
<1>3. /\ UNCHANGED <<load, nextId, mem, disk, captured, daemonKill, damaged, deleted, crashes>>
      /\ killStale' = (killStale \/ ~store.loaded)
  BY DEF UpdateSecuritySettings, backVars, daemonVars
<1> HIDE DEF s
<1>4. a \in CommandType /\ a.id = Settings /\ a.settings = s /\ a.op = "settings" /\ a.at = "file"
  BY <1>1, SettingsCommandFacts
<1> HIDE DEF a
<1>5. store'.settings = s /\ store'.profiles = store.profiles /\ store'.loaded = store.loaded /\ StoreShape'
  BY <1>0, <1>2 DEF StoreShape
<1>6. SettingsOp(s, {a})
  BY <1>0, <1>1, <1>2, <1>3, <1>4, <1>5 DEF SettingsOp
<1> QED
  BY <1>1, <1>4, <1>6

\* The snapshot that arrives shows every profile of it with its secret.
LoadOp ==
    /\ load.taken /\ load' = NoSnapshot
    /\ store'.loaded = TRUE /\ store'.settings = load.settings /\ StoreShape'
    /\ store'.profiles \in Seq(ProfileType) /\ Unique(store'.profiles)
    /\ \A id : SameEntry(store'.profiles, load.list, id) /\ (Listed(store'.profiles, id) <=> Listed(load.list, id))
    /\ \A id, s : HasSecret(store'.profiles, id, s) => s = load.cache[id]
    /\ UNCHANGED <<pending, issued, nextId, mem, disk, captured, daemonKill, damaged, dirty, killStale, deleted, crashes>>

LEMMA LoadIsOp ==
  ASSUME TypeInv, UniqueIds, LoadStorage
  PROVE  LoadOp /\ load \in LoadType
<1> DEFINE l == load.list
           w == [i \in DOMAIN l |-> [id |-> l[i].id, favorite |-> l[i].favorite, secret |-> load.cache[l[i].id]]]
<1>1. load \in LoadType /\ load.taken
  BY DEF LoadStorage, TypeInv, NoSnapshot
<1>2. l \in Seq(EntryType) /\ load.cache \in [Ids -> Nat] /\ Unique(l)
  BY <1>1 DEF LoadType, UniqueIds
<1>3. DOMAIN l = 1..Len(l) /\ Len(l) \in Nat /\ \A i \in DOMAIN l : l[i] \in EntryType
  BY <1>2, LenProperties, ElementOfSeq
<1>4. \A i \in 1..Len(l) : [id |-> l[i].id, favorite |-> l[i].favorite, secret |-> load.cache[l[i].id]] \in ProfileType
  BY <1>2, <1>3 DEF EntryType, ProfileType
<1>5. w \in Seq(ProfileType)
  BY <1>3, <1>4, IsASeq
<1>6. store' = [loaded |-> TRUE, profiles |-> w, settings |-> load.settings, active |-> StartId(w)]
  BY DEF LoadStorage
<1>7. /\ DOMAIN w = DOMAIN l
      /\ \A i \in DOMAIN l : w[i].id = l[i].id /\ w[i].favorite = l[i].favorite /\ w[i].secret = load.cache[l[i].id]
  OBVIOUS
<1> HIDE DEF w
<1>8. store'.loaded = TRUE /\ store'.profiles = w /\ store'.settings = load.settings /\ StoreShape'
  BY <1>6 DEF StoreShape
<1>9. Unique(w)
  BY <1>2, <1>7 DEF Unique
<1>10. \A id : SameEntry(w, l, id) /\ (Listed(w, id) <=> Listed(l, id))
  BY <1>7 DEF SameEntry, Marked, Listed
<1>11. \A id, s : HasSecret(w, id, s) => s = load.cache[id]
  BY <1>7 DEF HasSecret
<1>12. load' = NoSnapshot /\ UNCHANGED <<pending, issued, nextId, mem, disk, captured, daemonKill, damaged, dirty, killStale, deleted, crashes>>
  BY DEF LoadStorage, backVars, daemonVars, ghostVars
<1> QED
  BY <1>1, <1>5, <1>8, <1>9, <1>10, <1>11, <1>12 DEF LoadOp

\* A command moves on: the same command, further.
Moved(c, d, at) ==
    /\ d \in CommandType /\ pending' = (pending \ {c}) \cup {d}
    /\ d.n = c.n /\ d.op = c.op /\ d.id = c.id /\ d.favorite = c.favorite /\ d.secret = c.secret
    /\ d.settings = c.settings /\ d.at = at

LEMMA AdvanceMoves ==
  ASSUME NEW c \in CommandType, NEW at \in {"vault", "list", "memory"}, Advance(c, at)
  PROVE  \E d : Moved(c, d, at)
<1> DEFINE d == [c EXCEPT !.at = at]
<1>1. pending' = (pending \ {c}) \cup {d}
  BY DEF Advance
<1>2. /\ d \in CommandType /\ d.n = c.n /\ d.op = c.op /\ d.id = c.id /\ d.favorite = c.favorite
      /\ d.secret = c.secret /\ d.settings = c.settings /\ d.at = at
  BY DEF CommandType
<1> HIDE DEF d
<1> QED
  BY <1>1, <1>2 DEF Moved

\* What the tunnel leaves alone.
LEMMA TunnelKeeps ==
  ASSUME TypeInv, Connect \/ TunnelUp \/ TunnelDown
  PROVE  /\ UNCHANGED <<store, load, pending, nextId, mem, disk, dirty, damaged, deleted, crashes>>
         /\ issued' \in 0..MaxOps /\ issued \in Nat /\ issued <= issued' /\ killStale' \in BOOLEAN
         /\ captured' \in {"none", "off", "strict"} /\ daemonKill' \in {"none", "off", "strict"}
<1>1. /\ issued \in 0..MaxOps /\ store.settings \in PolicyType /\ killStale \in BOOLEAN /\ store.loaded \in BOOLEAN
      /\ captured \in {"none", "off", "strict"} /\ daemonKill \in {"none", "off", "strict"}
  BY DEF TypeInv, TypeOK
<1>2. store.settings.kill \in {"off", "strict"}
  BY <1>1 DEF PolicyType
<1>3. CASE Connect
  BY <1>1, <1>2, <1>3, StorageAssumption DEF Connect, uiVars
<1>4. CASE TunnelUp
  BY <1>1, <1>4, StorageAssumption DEF TunnelUp, uiVars, ghostVars
<1>5. CASE TunnelDown
  BY <1>1, <1>5, StorageAssumption DEF TunnelDown, uiVars, ghostVars
<1> QED
  BY <1>3, <1>4, <1>5

LEMMA NextCases ==
  ASSUME TypeInv, UniqueIds, Next
  PROVE  \/ TakeSnapshot
         \/ LoadOp /\ load \in LoadType
         \/ \E x \in Ids, cmd \in CommandType : ProfileOp(x, cmd)
         \/ \E s \in PolicyType : \E cmds \in SUBSET CommandType : SettingsOp(s, cmds)
         \/ Connect \/ TunnelUp \/ TunnelDown
         \/ \E c \in pending : Step(c)
         \/ \E torn \in SUBSET {"list", "vault", "file"} : Crash(torn)
<1>1. CASE LoadStorage
  BY <1>1, LoadIsOp
<1>2. CASE AddProfile
  BY <1>2, AddIsOp
<1>3. ASSUME NEW i \in 1..MaxId, NEW secret \in {0, issued + 2}, UpdateProfile(i, secret)
      PROVE  \E x \in Ids, cmd \in CommandType : ProfileOp(x, cmd)
  BY <1>3, UpdateIsOp
<1>4. ASSUME NEW i \in 1..MaxId, ToggleFavorite(i)
      PROVE  \E x \in Ids, cmd \in CommandType : ProfileOp(x, cmd)
  BY <1>4, ToggleIsOp
<1>5. ASSUME NEW i \in 1..MaxId, DeleteProfile(i)
      PROVE  \E x \in Ids, cmd \in CommandType : ProfileOp(x, cmd)
  BY <1>5, DeleteIsOp
<1>6. ASSUME NEW mode \in {"off", "strict"}, SetKillSwitch(mode)
      PROVE  \E s \in PolicyType : \E cmds \in SUBSET CommandType : SettingsOp(s, cmds)
  BY <1>6, KillSwitchIsOp
<1>7. ASSUME NEW ipv6 \in BOOLEAN, UpdateSecuritySettings(ipv6)
      PROVE  \E s \in PolicyType : \E cmds \in SUBSET CommandType : SettingsOp(s, cmds)
  BY <1>7, SecurityIsOp
<1> QED
  BY <1>1, <1>2, <1>3, <1>4, <1>5, <1>6, <1>7 DEF Next

\* What the steps of the back end do to the commands and to `dirty`.
LEMMA StepMoves ==
  ASSUME TypeInv, NEW c \in pending, Step(c)
  PROVE  /\ c \in CommandType
         /\ UNCHANGED <<store, load, issued, nextId, deleted, crashes>>
         /\ \/ \E d : Moved(c, d, "vault") /\ CacheStep(c)
            \/ \E d : Moved(c, d, "list") /\ (VaultStep(c) \/ (VaultFails(c) /\ c.op # "save"))
            \/ \E d : Moved(c, d, "memory") /\ SettingsFileStep(c)
            \/ /\ Finish(c)
               /\ \/ VaultFails(c) /\ c.op = "save"
                  \/ ListStep(c) \/ ListFails(c) \/ SettingsFail(c)
                  \/ SettingsMemoryStep(c) \/ DaemonStep(c) \/ DaemonFails(c)
<1>1. c \in CommandType
  BY DEF TypeInv, TypeOK
<1>2. CASE CacheStep(c)
  BY <1>1, <1>2, AdvanceMoves DEF CacheStep, uiVars, ghostVars
<1>3. CASE VaultStep(c)
  BY <1>1, <1>3, AdvanceMoves DEF VaultStep, uiVars
<1>4. CASE VaultFails(c)
  <2>1. CASE c.op = "save"
    BY <1>1, <1>4, <2>1 DEF VaultFails, uiVars
  <2>2. CASE c.op # "save"
    BY <1>1, <1>4, <2>2, AdvanceMoves DEF VaultFails, uiVars
  <2> QED
    BY <2>1, <2>2
<1>5. CASE ListStep(c)
  BY <1>1, <1>5 DEF ListStep, uiVars, ghostVars
<1>6. CASE ListFails(c)
  BY <1>1, <1>6 DEF ListFails, uiVars
<1>7. CASE SettingsFileStep(c)
  BY <1>1, <1>7, AdvanceMoves DEF SettingsFileStep, uiVars, ghostVars
<1>8. CASE SettingsFail(c)
  BY <1>1, <1>8 DEF SettingsFail, uiVars
<1>9. CASE SettingsMemoryStep(c)
  BY <1>1, <1>9 DEF SettingsMemoryStep, uiVars, ghostVars
<1>10. CASE DaemonStep(c)
  BY <1>1, <1>10 DEF DaemonStep, uiVars, ghostVars
<1>11. CASE DaemonFails(c)
  BY <1>1, <1>11 DEF DaemonFails, uiVars
<1> QED
  BY <1>2, <1>3, <1>4, <1>5, <1>6, <1>7, <1>8, <1>9, <1>10, <1>11 DEF Step

\* What the steps of the back end keep the types of.
LEMMA StepTypes ==
  ASSUME TypeInv, UniqueIds, Commands, NEW c \in pending, Step(c)
  PROVE  TypeInv'
<1>0. c \in CommandType /\ UNCHANGED <<store, load, issued, nextId, deleted, crashes>>
  BY StepMoves
<1>1. pending' \subseteq CommandType
  BY StepMoves DEF Moved, Finish, TypeInv, TypeOK
<1>2. /\ dirty' \subseteq Ids \cup {Settings} /\ killStale' \in BOOLEAN
      /\ mem' \in [list : Seq(EntryType), cache : [Ids -> Nat], settings : PolicyType]
      /\ disk' \in [profiles : Seq(EntryType), vault : [Ids -> Nat], settings : PolicyType]
      /\ captured' \in {"none", "off", "strict"} /\ daemonKill' \in {"none", "off", "strict"}
      /\ damaged' \subseteq {"list", "vault", "file"}
  <2> USE <1>0 DEF TypeInv, TypeOK
  <2>1. CASE CacheStep(c)
    BY <2>1 DEF CacheStep, ghostVars, daemonVars, CommandType
  <2>2. CASE VaultStep(c)
    BY <2>2 DEF VaultStep, Completes, daemonVars
  <2>3. CASE VaultFails(c)
    <3>1. NoSecrets \in [Ids -> Nat] /\ c.id \in Ids \cup {Settings}
      BY DEF NoSecrets, CommandType
    <3>2. [disk EXCEPT !.vault = NoSecrets] \in [profiles : Seq(EntryType), vault : [Ids -> Nat], settings : PolicyType]
      BY <3>1
    <3>3. c.at = "vault" /\ Fails(c, [disk EXCEPT !.vault = NoSecrets]) /\ UNCHANGED <<mem, captured, daemonKill, killStale>>
      BY <2>3 DEF VaultFails, daemonVars
    <3> QED
      BY <3>1, <3>2, <3>3 DEF Fails
  <2>4. CASE ListStep(c)
    <3>1. c.id \in Ids
      BY <2>4 DEF Commands, CommandOK, ListStep, CommandType
    <3>2. NewList(c) \in Seq(EntryType)
      BY <3>1, NewListFacts
    <3> QED
      BY <2>4, <3>2 DEF ListStep, Completes, daemonVars
  <2>5. CASE ListFails(c)
    <3>1. c.id \in Ids
      BY <2>5 DEF Commands, CommandOK, ListFails, CommandType
    <3>2. NewList(c) \in Seq(EntryType)
      BY <3>1, NewListFacts
    <3> QED
      <4>0. <<>> \in Seq(EntryType)
        OBVIOUS
      <4>1. [disk EXCEPT !.profiles = <<>>] \in [profiles : Seq(EntryType), vault : [Ids -> Nat], settings : PolicyType]
        BY <4>0
      <4>2. c.at = "list" /\ Fails(c, [disk EXCEPT !.profiles = <<>>]) /\ UNCHANGED <<captured, daemonKill, killStale>>
        BY <2>5 DEF ListFails, daemonVars
      <4>3. mem' = [mem EXCEPT !.list = NewList(c)]
        BY <2>5 DEF ListFails
      <4> QED
        BY <3>1, <3>2, <4>1, <4>2, <4>3 DEF Fails
  <2>6. CASE SettingsFileStep(c)
    BY <2>6 DEF SettingsFileStep, Completes, daemonVars, CommandType
  <2>7. CASE SettingsFail(c)
    BY <2>7, DefaultIsPolicy DEF SettingsFail, Fails, daemonVars, CommandType
  <2>8. CASE SettingsMemoryStep(c)
    BY <2>8 DEF SettingsMemoryStep, ghostVars, daemonVars, CommandType
  <2>9. CASE DaemonStep(c)
    BY <2>9 DEF DaemonStep, CommandType, PolicyType
  <2>10. CASE DaemonFails(c)
    BY <2>10 DEF DaemonFails, backVars, daemonVars
  <2> QED
    BY <2>1, <2>2, <2>3, <2>4, <2>5, <2>6, <2>7, <2>8, <2>9, <2>10 DEF Step
<1> QED
  BY <1>0, <1>1, <1>2 DEF TypeInv, TypeOK, LoadType, NoSnapshot

\* Sending commands: only their subject can become dirty, and it does if there
\* was something on its way for it or the store was still to be loaded.
LEMMA IssueFacts ==
  ASSUME TypeInv, NEW cmds \in SUBSET CommandType, NEW subject \in Ids \cup {Settings}, Issue(cmds, subject)
  PROVE  /\ issued \in Nat /\ issued' = issued + 1 /\ issued' \in 0..MaxOps
         /\ pending' = pending \cup cmds /\ pending' \subseteq CommandType
         /\ dirty \subseteq dirty' /\ dirty' \subseteq Ids \cup {Settings}
         /\ subject \notin dirty' => store.loaded /\ \A c \in pending : c.id # subject
         /\ \A y : y # subject => (y \in dirty' <=> y \in dirty)
<1>1. /\ issued \in 0..MaxOps /\ pending \subseteq CommandType /\ dirty \subseteq Ids \cup {Settings}
      /\ store.loaded \in BOOLEAN
  BY DEF TypeInv, TypeOK
<1>2. issued < MaxOps /\ pending' = pending \cup cmds /\ issued' = issued + 1
  BY DEF Issue
<1>3. issued \in Nat /\ issued' \in 0..MaxOps
  BY <1>1, <1>2, StorageAssumption
<1>4. CASE (\E c \in pending : c.id = subject) \/ ~store.loaded
  <2>1. dirty' = dirty \cup {subject}
    BY <1>4 DEF Issue
  <2> QED
    BY <1>1, <1>2, <1>3, <2>1
<1>5. CASE ~((\E c \in pending : c.id = subject) \/ ~store.loaded)
  <2>1. dirty' = dirty
    BY <1>5 DEF Issue
  <2> QED
    BY <1>1, <1>2, <1>3, <1>5, <2>1
<1> QED
  BY <1>4, <1>5

LEMMA TypeStep ==
  ASSUME TypeInv, UniqueIds, Commands, [Next]_vars
  PROVE  TypeInv'
<1>1. CASE TakeSnapshot
  BY <1>1 DEF TakeSnapshot, TypeInv, TypeOK, LoadType, NoSnapshot, backVars, daemonVars, ghostVars
<1>2. CASE LoadOp /\ load \in LoadType
  BY <1>2 DEF LoadOp, TypeInv, TypeOK, LoadType, NoSnapshot, StoreShape
<1>3. ASSUME NEW x \in Ids, NEW cmd \in CommandType, ProfileOp(x, cmd)
      PROVE  TypeInv'
  <2>1. /\ issued' \in 0..MaxOps /\ pending' \subseteq CommandType /\ dirty' \subseteq Ids \cup {Settings}
        /\ issued' = issued + 1 /\ issued \in Nat
    BY <1>3, IssueFacts DEF ProfileOp
  <2>2. nextId' \in 1..(MaxId + 1) /\ nextId' <= Len(InitialProfiles) + issued' + 1
    <3>1. nextId \in 1..(MaxId + 1) /\ nextId <= Len(InitialProfiles) + issued + 1 /\ Len(InitialProfiles) \in Nat
      BY StorageAssumption, LenProperties DEF TypeInv, TypeOK
    <3>2. nextId' = IF x = nextId THEN nextId + 1 ELSE nextId
      BY <1>3 DEF ProfileOp
    <3>3. CASE x = nextId
      BY <3>1, <3>2, <3>3, <2>1, IdsFacts
    <3>4. CASE x # nextId
      BY <3>1, <3>2, <3>4, <2>1, IdsFacts
    <3> QED
      BY <3>3, <3>4
  <2>3. deleted' \subseteq Ids
    BY <1>3 DEF ProfileOp, SaveOp, DeleteOp, TypeInv, TypeOK
  <2>4. TypeOK'
    BY <1>3, <2>1, <2>2, <2>3 DEF ProfileOp, TypeInv, TypeOK
  <2> QED
    BY <1>3, <2>1, <2>2, <2>4 DEF ProfileOp, TypeInv, StoreShape, LoadType, NoSnapshot
<1>4. ASSUME NEW s \in PolicyType, NEW cmds \in SUBSET CommandType, SettingsOp(s, cmds)
      PROVE  TypeInv'
  <2>1. /\ issued' \in 0..MaxOps /\ pending' \subseteq CommandType /\ dirty' \subseteq Ids \cup {Settings}
        /\ issued' = issued + 1 /\ issued \in Nat
    BY <1>4, IssueFacts DEF SettingsOp
  <2>2. nextId' \in 1..(MaxId + 1) /\ nextId' <= Len(InitialProfiles) + issued' + 1
    <3>1. nextId \in 1..(MaxId + 1) /\ nextId <= Len(InitialProfiles) + issued + 1 /\ Len(InitialProfiles) \in Nat
      BY StorageAssumption, LenProperties DEF TypeInv, TypeOK
    <3> QED
      BY <3>1, <1>4, <2>1 DEF SettingsOp
  <2> QED
    BY <1>4, <2>1, <2>2 DEF SettingsOp, TypeInv, TypeOK, StoreShape, LoadType, NoSnapshot
<1>5. ASSUME NEW c \in pending, Step(c)
      PROVE  TypeInv'
  BY <1>5, StepTypes
<1>6. ASSUME NEW torn \in SUBSET {"list", "vault", "file"}, Crash(torn)
      PROVE  TypeInv'
  <2>1. disk' \in [profiles : Seq(EntryType), vault : [Ids -> Nat], settings : PolicyType]
    BY <1>6, DefaultIsPolicy DEF Crash, TypeInv, TypeOK
  <2>2. mem' \in [list : Seq(EntryType), cache : [Ids -> Nat], settings : PolicyType]
    BY <1>6, <2>1 DEF Crash, LoadedFrom
  <2>3. /\ store'.loaded = FALSE /\ store'.settings \in PolicyType /\ store'.profiles \in Seq(ProfileType)
        /\ StoreShape'
    BY <1>6, DefaultIsPolicy DEF Crash, EmptyStore, StoreShape
  <2>4. /\ load' = NoSnapshot /\ pending' = {} /\ dirty' = {} /\ deleted' = {} /\ killStale' \in BOOLEAN
        /\ damaged' = {} /\ crashes' = crashes + 1 /\ UNCHANGED <<issued, nextId, captured, daemonKill>>
    BY <1>6 DEF Crash, daemonVars, TypeInv
  <2>5. TypeOK'
    BY <2>1, <2>2, <2>3, <2>4 DEF TypeInv, TypeOK
  <2>6. crashes' \in Nat /\ nextId' <= Len(InitialProfiles) + issued' + 1
    BY <2>4 DEF TypeInv
  <2> QED
    BY <2>3, <2>4, <2>5, <2>6 DEF TypeInv, StoreShape
<1>7. CASE UNCHANGED vars
  BY <1>7 DEF vars, uiVars, backVars, daemonVars, ghostVars, TypeInv, TypeOK, LoadType, NoSnapshot
<1>8. CASE Connect \/ TunnelUp \/ TunnelDown
  <2>1. nextId \in Nat /\ nextId <= Len(InitialProfiles) + issued + 1 /\ Len(InitialProfiles) \in Nat
    BY OpBasics, StorageAssumption, LenProperties
  <2>2. issued' \in Nat /\ nextId' <= Len(InitialProfiles) + issued' + 1
    BY <1>8, <2>1, TunnelKeeps, StorageAssumption
  <2> QED
    BY <1>8, <2>2, TunnelKeeps DEF TypeInv, TypeOK, LoadType, NoSnapshot
<1> QED
  BY <1>1, <1>2, <1>3, <1>4, <1>5, <1>6, <1>7, <1>8, NextCases

-----------------------------------------------------------------------------
(***************************************************************************)
(* The commands and the lists                                              *)
(***************************************************************************)
\* The kind of a command, from where it is.
LEMMA KindOf ==
  ASSUME TypeInv, Commands, NEW c \in pending
  PROVE  /\ c \in CommandType /\ CommandOK(c)
         /\ c.at \in {"cache", "vault", "list"} => c.op \in {"save", "delete"} /\ c.id \in Ids
         /\ c.at \in {"file", "memory"} => c.op = "settings" /\ c.id = Settings
         /\ c.at = "daemon" => c.op = "daemon" /\ c.id = Settings
         /\ c.op \in {"settings", "daemon"} => c.id = Settings
<1>1. c \in CommandType /\ CommandOK(c) /\ deleted \subseteq Ids
  BY DEF TypeInv, TypeOK, Commands
<1>2. c.op \in {"save", "delete", "settings", "daemon"}
  BY <1>1 DEF CommandType
<1> QED
  BY <1>1, <1>2 DEF CommandOK

LEMMA CommandsStep ==
  ASSUME TypeInv, UniqueIds, Commands, [Next]_vars
  PROVE  Commands'
<1> SUFFICES ASSUME NEW b \in pending'
             PROVE  CommandOK(b)'
  BY DEF Commands
<1>1. ASSUME b \in pending, nextId <= nextId', deleted \subseteq deleted', nextId \in Nat, nextId' \in Nat
      PROVE  CommandOK(b)'
  <2>1. CommandOK(b) /\ Ids \subseteq Nat
    BY <1>1, IdsFacts DEF Commands
  <2>2. b.op = "save" => b.id \in Ids /\ b.id < nextId'
    <3> SUFFICES ASSUME b.op = "save" PROVE b.id \in Ids /\ b.id < nextId'
      OBVIOUS
    <3>1. b.id \in Ids /\ b.id < nextId /\ b.id \in Nat
      BY <2>1 DEF CommandOK
    <3> QED
      BY <3>1, <1>1
  <2> QED
    BY <1>1, <2>1, <2>2 DEF CommandOK
<1>2. nextId \in Nat /\ deleted \subseteq Ids
  BY OpBasics DEF TypeInv, TypeOK
<1>3. CASE TakeSnapshot
  BY <1>1, <1>2, <1>3 DEF TakeSnapshot, ghostVars
<1>4. CASE LoadOp
  BY <1>1, <1>2, <1>4 DEF LoadOp
<1>5. ASSUME NEW x \in Ids, NEW cmd \in CommandType, ProfileOp(x, cmd)
      PROVE  CommandOK(b)'
  <2>1. pending' = pending \cup {cmd} /\ cmd.id = x
    BY <1>5, IssueFacts DEF ProfileOp
  <2>2. nextId' = (IF x = nextId THEN nextId + 1 ELSE nextId) /\ deleted \subseteq deleted'
    BY <1>5 DEF ProfileOp, SaveOp, DeleteOp
  <2>3. nextId <= nextId' /\ nextId' \in Nat
    BY <2>2, <1>2
  <2>4. CASE cmd.op = "save"
    <3>1. SaveOp(x, cmd)
      BY <1>5, <2>4 DEF ProfileOp
    <3>2. x < nextId'
      BY <3>1, <2>2, <1>2 DEF SaveOp, Listed, UniqueIds, Below
    <3>3. cmd.at \in {"cache", "list"} /\ (cmd.at # "list" => cmd.secret # 0)
      BY <3>1 DEF SaveOp
    <3>4. CommandOK(cmd)'
      BY <2>1, <2>4, <3>2, <3>3 DEF CommandOK
    <3> QED
      BY <1>1, <1>2, <2>1, <2>2, <2>3, <3>4
  <2>5. CASE cmd.op = "delete"
    <3>1. DeleteOp(x, cmd)
      BY <1>5, <2>5 DEF ProfileOp
    <3>2. CommandOK(cmd)'
      BY <2>1, <2>5, <3>1 DEF CommandOK, DeleteOp
    <3> QED
      BY <1>1, <1>2, <2>1, <2>2, <2>3, <3>2
  <2> QED
    BY <1>5, <2>4, <2>5 DEF ProfileOp
<1>6. ASSUME NEW s \in PolicyType, NEW cmds \in SUBSET CommandType, SettingsOp(s, cmds)
      PROVE  CommandOK(b)'
  <2>1. pending' = pending \cup cmds /\ UNCHANGED <<nextId, deleted>>
    BY <1>6, IssueFacts DEF SettingsOp
  <2>2. CASE b \in pending
    BY <2>1, <2>2, <1>1, <1>2
  <2>3. CASE b \in cmds
    BY <1>6, <2>3 DEF SettingsOp, CommandOK
  <2> QED
    BY <2>1, <2>2, <2>3
<1>7. ASSUME NEW c \in pending, Step(c)
      PROVE  CommandOK(b)'
  <2>1. UNCHANGED <<nextId, deleted>>
    BY <1>7, StepMoves
  <2>2. CASE b \in pending
    BY <2>1, <2>2, <1>1, <1>2
  <2>3. CASE b \notin pending
    <3>1. /\ b.op = c.op /\ b.id = c.id /\ b.secret = c.secret
          /\ \/ b.at \in {"vault", "list"} /\ c.at \in {"cache", "vault"}
             \/ b.at = "memory" /\ c.at = "file"
      BY <1>7, <2>3, StepMoves DEF Moved, Finish, CacheStep, VaultStep, VaultFails, SettingsFileStep
    <3>2. CommandOK(c)
      BY DEF Commands
    <3> QED
      BY <3>1, <3>2, <2>1 DEF CommandOK
  <2> QED
    BY <2>2, <2>3
<1>8. ASSUME NEW torn \in SUBSET {"list", "vault", "file"}, Crash(torn)
      PROVE  CommandOK(b)'
  BY <1>8 DEF Crash
<1>9. CASE UNCHANGED vars
  BY <1>9, <1>1, <1>2 DEF vars, ghostVars
<1>10. CASE Connect \/ TunnelUp \/ TunnelDown
  BY <1>10, <1>1, <1>2, TunnelKeeps
<1> QED
  BY <1>3, <1>4, <1>5, <1>6, <1>7, <1>8, <1>9, <1>10, NextCases

LEMMA UniqueIdsStep ==
  ASSUME TypeInv, UniqueIds, Commands, [Next]_vars
  PROVE  UniqueIds'
<1>0. /\ nextId \in Nat /\ Ids \subseteq Nat
      /\ deleted \subseteq Ids
      /\ \A i \in DOMAIN store.profiles : store.profiles[i].id \in Nat
      /\ \A i \in DOMAIN mem.list : mem.list[i].id \in Nat
      /\ \A i \in DOMAIN disk.profiles : disk.profiles[i].id \in Nat
      /\ load.taken => \A i \in DOMAIN load.list : load.list[i].id \in Nat
  <2>1. /\ store.profiles \in Seq(ProfileType) /\ mem.list \in Seq(EntryType) /\ disk.profiles \in Seq(EntryType)
    BY DEF TypeInv, TypeOK
  <2>3. load.taken => load \in LoadType
    BY DEF TypeInv, NoSnapshot
  <2>4. load.taken => load.list \in Seq(EntryType)
    BY <2>3 DEF LoadType
  <2>2. \A e \in EntryType \cup ProfileType : e.id \in Nat
    BY IdsFacts DEF EntryType, ProfileType
  <2> QED
    BY <2>1, <2>2, <2>4, OpBasics, IdsFacts, ElementOfSeq DEF TypeInv, TypeOK
<1>1. CASE TakeSnapshot
  BY <1>1 DEF TakeSnapshot, UniqueIds, Unique, Below, backVars, daemonVars, ghostVars
<1>2. CASE LoadOp /\ load \in LoadType
  <2>1. Below(store'.profiles)
    BY <1>2 DEF LoadOp, Below, Listed, UniqueIds
  <2> QED
    BY <1>2, <2>1 DEF LoadOp, UniqueIds, Unique, Below, NoSnapshot
<1>3. ASSUME NEW x \in Ids, NEW cmd \in CommandType, ProfileOp(x, cmd)
      PROVE  UniqueIds'
  <2>1. nextId' = (IF x = nextId THEN nextId + 1 ELSE nextId) /\ Unique(store'.profiles)
    BY <1>3 DEF ProfileOp
  <2>2. x < nextId'
    BY <1>3, <2>1, <1>0 DEF ProfileOp, SaveOp, DeleteOp, UniqueIds, Below, Listed
  <2>3. nextId' \in Nat /\ nextId <= nextId'
    BY <2>1, <1>0
  <2>4. Below(store.profiles) /\ OnlyEntry(store'.profiles, store.profiles, x)
    BY <1>3 DEF ProfileOp, UniqueIds
  <2>5. \A i \in DOMAIN store'.profiles : store'.profiles[i].id < nextId'
    <3> SUFFICES ASSUME NEW i \in DOMAIN store'.profiles, store'.profiles[i].id # x
                 PROVE  store'.profiles[i].id < nextId'
      BY <2>2
    <3>1. Listed(store'.profiles, store'.profiles[i].id)
      BY DEF Listed
    <3>2. Listed(store.profiles, store'.profiles[i].id)
      BY <3>1, <2>4 DEF OnlyEntry
    <3> QED
      BY <3>2, <2>3, <2>4, <1>0 DEF Listed, Below
  <2>6. \A id \in deleted' : id < nextId'
    <3>1. \A id \in deleted : id \in Nat /\ id < nextId
      BY <1>0 DEF UniqueIds
    <3>2. \A id \in deleted : id < nextId'
      BY <3>1, <2>3, <1>0
    <3>3. deleted' \subseteq deleted \cup {x}
      BY <1>3 DEF ProfileOp, SaveOp, DeleteOp
    <3> QED
      BY <3>2, <3>3, <2>2
  <2>7. UNCHANGED <<mem, disk, load>>
    BY <1>3 DEF ProfileOp
  <2>8. Below(mem.list)' /\ Below(disk.profiles)' /\ (load.taken => Below(load.list)')
    BY <2>3, <2>7, <1>0 DEF UniqueIds, Below
  <2> QED
    BY <2>1, <2>5, <2>6, <2>7, <2>8 DEF UniqueIds, Unique, Below
<1>4. ASSUME NEW s \in PolicyType, NEW cmds \in SUBSET CommandType, SettingsOp(s, cmds)
      PROVE  UniqueIds'
  BY <1>4 DEF SettingsOp, UniqueIds, Unique, Below
<1>5. ASSUME NEW c \in pending, Step(c)
      PROVE  UniqueIds'
  <2>0. UNCHANGED <<store, load, nextId, deleted>>
    BY <1>5, StepMoves
  <2>1. CASE c.at = "list"
    <3>1. c \in CommandType /\ c.id \in Ids /\ c.id < nextId
      BY <2>1, KindOf DEF CommandOK, UniqueIds
    <3>2. Unique(NewList(c)) /\ \A i \in DOMAIN NewList(c) : NewList(c)[i].id = c.id \/ Listed(mem.list, NewList(c)[i].id)
      BY <3>1, NewListFacts
    <3> DEFINE w == NewList(c)
    <3>3. mem'.list = w /\ (disk'.profiles = w \/ disk'.profiles = disk.profiles \/ disk'.profiles = <<>>)
      BY <1>5, <2>1 DEF Step, CacheStep, VaultStep, VaultFails, ListStep, ListFails, SettingsFileStep, SettingsFail,
           SettingsMemoryStep, DaemonStep, DaemonFails, Fails, TypeInv, TypeOK
    <3> HIDE DEF w
    <3>4. \A i \in DOMAIN w : w[i].id < nextId
      BY <3>1, <3>2 DEF w, Listed, UniqueIds, Below
    <3> QED
      BY <2>0, <3>2, <3>3, <3>4 DEF w, UniqueIds, Unique, Below
  <2>2. CASE c.at # "list"
    <3>1. mem'.list = mem.list /\ disk'.profiles = disk.profiles
      BY <1>5, <2>2 DEF Step, CacheStep, VaultStep, VaultFails, ListStep, ListFails, SettingsFileStep, SettingsFail,
           SettingsMemoryStep, DaemonStep, DaemonFails, Fails, TypeInv, TypeOK, backVars
    <3> QED
      BY <2>0, <3>1 DEF UniqueIds, Unique, Below
  <2> QED
    BY <2>1, <2>2
<1>6. ASSUME NEW torn \in SUBSET {"list", "vault", "file"}, Crash(torn)
      PROVE  UniqueIds'
  <2>1. /\ disk'.profiles = (IF "list" \in torn THEN <<>> ELSE disk.profiles) /\ mem'.list = disk'.profiles
        /\ store'.profiles = <<>> /\ load' = NoSnapshot /\ deleted' = {} /\ nextId' = nextId
    BY <1>6 DEF Crash, LoadedFrom, EmptyStore
  <2>2. Unique(disk'.profiles) /\ Below(disk'.profiles)
    BY <2>1 DEF UniqueIds, Unique, Below
  <2>3. Unique(store'.profiles) /\ Below(store'.profiles)
    BY <2>1 DEF Unique, Below
  <2> QED
    BY <2>1, <2>2, <2>3 DEF UniqueIds, Unique, Below, NoSnapshot
<1>7. CASE UNCHANGED vars
  BY <1>7 DEF vars, uiVars, backVars, daemonVars, ghostVars, UniqueIds, Unique, Below
<1>8. CASE Connect \/ TunnelUp \/ TunnelDown
  BY <1>8, TunnelKeeps DEF UniqueIds, Unique, Below
<1> QED
  BY <1>1, <1>2, <1>3, <1>4, <1>5, <1>6, <1>7, <1>8, NextCases

\* What the steps of the back end do to the secrets.
LEMMA StepSecrets ==
  ASSUME TypeInv, NEW c \in pending, Step(c)
  PROVE  \/ /\ c.at = "cache" /\ disk'.vault = disk.vault /\ damaged' = damaged
            /\ mem'.cache = [mem.cache EXCEPT ![c.id] = c.secret]
         \/ c.at = "vault" /\ mem'.cache = mem.cache /\ disk'.vault = mem.cache /\ "vault" \notin damaged'
         \/ /\ c.at = "vault" /\ mem'.cache = mem.cache /\ disk'.vault = NoSecrets /\ "vault" \in damaged'
            /\ c.id \in dirty'
         \/ /\ mem'.cache = mem.cache /\ disk'.vault = disk.vault /\ ("vault" \in damaged' <=> "vault" \in damaged)
BY DEF Step, CacheStep, VaultStep, VaultFails, ListStep, ListFails, SettingsFileStep, SettingsFail,
       SettingsMemoryStep, DaemonStep, DaemonFails, Fails, Completes, TypeInv, TypeOK, backVars, ghostVars

LEMMA OnlyDeletedMissingStep ==
  ASSUME TypeInv, UniqueIds, Commands, OnlyDeletedMissing, [Next]_vars
  PROVE  OnlyDeletedMissing'
<1>1. CASE TakeSnapshot
  BY <1>1 DEF TakeSnapshot, OnlyDeletedMissing, backVars, daemonVars, ghostVars
<1>2. CASE LoadOp
  BY <1>2 DEF LoadOp, OnlyDeletedMissing
<1>3. ASSUME NEW x \in Ids, NEW cmd \in CommandType, ProfileOp(x, cmd)
      PROVE  OnlyDeletedMissing'
  BY <1>3 DEF ProfileOp, SaveOp, DeleteOp, OnlyDeletedMissing
<1>4. ASSUME NEW s \in PolicyType, NEW cmds \in SUBSET CommandType, SettingsOp(s, cmds)
      PROVE  OnlyDeletedMissing'
  BY <1>4 DEF SettingsOp, OnlyDeletedMissing
<1>5. ASSUME NEW c \in pending, Step(c)
      PROVE  OnlyDeletedMissing'
  <2>1. deleted' = deleted
    BY <1>5, StepMoves
  <2>2. mem.cache \in [Ids -> Nat] /\ disk.vault \in [Ids -> Nat]
    BY DEF TypeInv, TypeOK
  <2>4. CASE disk'.vault = NoSecrets /\ mem'.cache = mem.cache
    BY <2>4 DEF OnlyDeletedMissing, NoSecrets
  <2>3. CASE c.at = "cache" /\ disk'.vault = disk.vault /\ mem'.cache = [mem.cache EXCEPT ![c.id] = c.secret]
    <3>1. c.id \in Ids /\ (c.secret = 0 => c.id \in deleted)
      BY <2>3, KindOf DEF CommandOK
    <3> QED
      BY <2>1, <2>2, <2>3, <3>1 DEF OnlyDeletedMissing
  <2> QED
    BY <1>5, <2>1, <2>3, <2>4, StepSecrets DEF OnlyDeletedMissing
<1>6. ASSUME NEW torn \in SUBSET {"list", "vault", "file"}, Crash(torn)
      PROVE  OnlyDeletedMissing'
  BY <1>6 DEF Crash, LoadedFrom, OnlyDeletedMissing
<1>7. CASE UNCHANGED vars
  BY <1>7 DEF vars, backVars, daemonVars, ghostVars, OnlyDeletedMissing
<1>8. CASE Connect \/ TunnelUp \/ TunnelDown
  BY <1>8, TunnelKeeps DEF OnlyDeletedMissing
<1> QED
  BY <1>1, <1>2, <1>3, <1>4, <1>5, <1>6, <1>7, <1>8, NextCases

\* The lists in memory and on disk after a step of the back end.
LEMMA StepLists ==
  ASSUME TypeInv, UniqueIds, Commands, NEW c \in pending, Step(c)
  PROVE  \/ /\ c.at = "list" /\ mem'.list = NewList(c) /\ Finish(c)
            /\ \/ disk'.profiles = NewList(c) /\ dirty' = dirty /\ "list" \notin damaged'
               \/ disk'.profiles = disk.profiles /\ c.id \in dirty' /\ damaged' = damaged
               \/ disk'.profiles = <<>> /\ c.id \in dirty' /\ "list" \in damaged'
         \/ /\ c.at # "list" /\ mem'.list = mem.list /\ disk'.profiles = disk.profiles
            /\ "list" \in damaged' <=> "list" \in damaged
BY DEF Step, CacheStep, VaultStep, VaultFails, ListStep, ListFails, SettingsFileStep, SettingsFail,
       SettingsMemoryStep, DaemonStep, DaemonFails, Fails, Completes, TypeInv, TypeOK, backVars, ghostVars

LEMMA DamageInvStep ==
  ASSUME TypeInv, UniqueIds, Commands, DamageInv, [Next]_vars
  PROVE  DamageInv'
<1>1. CASE TakeSnapshot \/ LoadOp \/ (\E x \in Ids, cmd \in CommandType : ProfileOp(x, cmd))
             \/ (\E s \in PolicyType : \E cmds \in SUBSET CommandType : SettingsOp(s, cmds))
  <2>1. UNCHANGED <<disk, damaged>>
    BY <1>1 DEF TakeSnapshot, LoadOp, ProfileOp, SettingsOp, backVars, ghostVars
  <2> QED
    BY <2>1 DEF DamageInv
<1>2. CASE Connect \/ TunnelUp \/ TunnelDown
  BY <1>2, TunnelKeeps DEF DamageInv
<1>3. ASSUME NEW c \in pending, Step(c)
      PROVE  DamageInv'
  <2>1. "vault" \in damaged' => disk'.vault = NoSecrets
    BY <1>3, StepSecrets DEF DamageInv
  <2>2. "list" \in damaged' => disk'.profiles = <<>>
    BY <1>3, StepLists DEF DamageInv
  <2> QED
    BY <2>1, <2>2 DEF DamageInv
<1>4. ASSUME NEW torn \in SUBSET {"list", "vault", "file"}, Crash(torn)
      PROVE  DamageInv'
  BY <1>4 DEF Crash, DamageInv
<1>5. CASE UNCHANGED vars
  BY <1>5 DEF vars, backVars, ghostVars, DamageInv
<1> QED
  BY <1>1, <1>2, <1>3, <1>4, <1>5, NextCases

-----------------------------------------------------------------------------
(***************************************************************************)
(* Profiles                                                                *)
(***************************************************************************)
ProfileOK(id) ==
    /\ Agree(id)
    /\ ~store.loaded => NotLoaded(id)
    /\ store.loaded => Loaded(id) /\ SecretKept(id) /\ Erased(id)

\* A step of the back end for something else.
LEMMA StepOfOther ==
  ASSUME TypeInv, UniqueIds, Commands, NEW c \in pending, Step(c), NEW id \in Ids, c.id # id, ProfileOK(id)
  PROVE  ProfileOK(id)'
<1>0. UNCHANGED <<store, load, deleted>>
  BY StepMoves
<1>1. \A b : b.id = id => (b \in pending' <=> b \in pending)
  BY StepMoves DEF Moved, Finish
<1>2. /\ mem'.cache[id] = mem.cache[id]
      /\ "vault" \notin damaged' =>
            (disk'.vault[id] = disk.vault[id] /\ "vault" \notin damaged) \/ disk'.vault[id] = mem.cache[id]
  <2>1. mem.cache \in [Ids -> Nat]
    BY DEF TypeInv, TypeOK
  <2> QED
    BY <2>1, StepSecrets
<1>3. SameEntry(mem'.list, mem.list, id) /\ (Listed(mem'.list, id) <=> Listed(mem.list, id))
      /\ ("list" \notin damaged' =>
            SameEntry(disk'.profiles, mem.list, id) \/ (disk'.profiles = disk.profiles /\ "list" \notin damaged))
  <2>1. CASE c.at = "list"
    <3>1. c \in CommandType /\ c.id \in Ids
      BY <2>1, KindOf
    <3>2. SameEntry(NewList(c), mem.list, id) /\ (Listed(NewList(c), id) <=> Listed(mem.list, id))
      BY <3>1, NewListFacts
    <3>3. /\ mem'.list = NewList(c)
          /\ "list" \notin damaged' =>
                disk'.profiles = NewList(c) \/ (disk'.profiles = disk.profiles /\ "list" \notin damaged)
      BY <2>1, StepLists
    <3> QED
      BY <3>2, <3>3
  <2>2. CASE c.at # "list"
    BY <2>2, StepLists DEF SameEntry
  <2> QED
    BY <2>1, <2>2
<1>4. Agree(id)'
  <2>1. "list" \notin damaged => SameEntry(mem.list, disk.profiles, id)
    BY DEF ProfileOK, Agree
  <2>2. "list" \notin damaged' => SameEntry(mem'.list, disk'.profiles, id)
    BY <1>3, <2>1 DEF SameEntry
  <2>3. "vault" \notin damaged' /\ (\A b \in pending' : b.id = id => b.at # "vault")
           => mem'.cache[id] = disk'.vault[id]
    BY <1>1, <1>2 DEF ProfileOK, Agree
  <2> QED
    BY <2>2, <2>3 DEF Agree
<1>5. ~store.loaded => NotLoaded(id)'
  BY <1>0, <1>1, <1>2, <1>3 DEF ProfileOK, NotLoaded, SameEntry
<1>6. store.loaded => Loaded(id)'
  BY <1>0, <1>1, <1>3 DEF ProfileOK, Loaded, SameEntry
<1>7. store.loaded => SecretKept(id)'
  BY <1>0, <1>1, <1>2 DEF ProfileOK, SecretKept
<1>8. store.loaded => Erased(id)'
  BY <1>0, <1>1, <1>2, <1>3 DEF ProfileOK, Erased
<1> QED
  BY <1>0, <1>4, <1>5, <1>6, <1>7, <1>8 DEF ProfileOK

\* A step for the profile itself, which was not dirty before and is not after.
LEMMA StepOfOwn ==
  ASSUME TypeInv, UniqueIds, Commands, NEW c \in pending, Step(c), c.id \in Ids, c.id \notin dirty', ProfileOK(c.id)
  PROVE  ProfileOK(c.id)'
<1> DEFINE id == c.id
<1>0. UNCHANGED <<store, load, deleted>> /\ c \in CommandType /\ CommandOK(c)
  BY StepMoves, KindOf
<1>1. store.loaded
  BY DEF ProfileOK, NotLoaded, TypeInv, TypeOK
<1>2. /\ Agree(id) /\ Loaded(id) /\ SecretKept(id) /\ Erased(id)
      /\ \A b \in pending : b.id = id => b = c
  BY <1>1 DEF ProfileOK, Loaded
<1>3. c.op \in {"save", "delete"} /\ c.at \in {"cache", "vault", "list"}
  <2>1. id # Settings
    BY IdsFacts
  <2>2. c.at \in {"cache", "vault", "list", "file", "memory", "daemon"}
    BY <1>0 DEF CommandType
  <2> QED
    BY <2>1, <2>2, KindOf
<1>4. id \in deleted <=> c.op = "delete"
  <2>1. c.op = "delete" => id \in deleted
    BY <1>0 DEF CommandOK
  <2>2. c.op = "save" => Listed(store.profiles, id)
    <3> SUFFICES ASSUME c.op = "save" PROVE Listed(store.profiles, id)
      OBVIOUS
    <3>1. c.favorite \in BOOLEAN
      BY <1>0 DEF CommandType
    <3>2. Marked(store.profiles, id, c.favorite)
      BY <1>2, <3>1 DEF Loaded
    <3> QED
      BY <3>2 DEF Marked, Listed
  <2> QED
    BY <2>1, <2>2, <1>2, <1>3 DEF Erased
<1>5. CASE c.at = "cache"
  <2>1. /\ disk'.vault = disk.vault /\ mem'.list = mem.list /\ disk'.profiles = disk.profiles
        /\ "list" \in damaged' <=> "list" \in damaged
        /\ \E d : Moved(c, d, "vault")
    BY <1>5, StepMoves, StepLists, StepSecrets DEF Finish, CacheStep, VaultStep, VaultFails, ListStep, ListFails,
         SettingsFileStep, SettingsFail, SettingsMemoryStep, DaemonStep, DaemonFails
  <2>2. mem'.cache[id] = c.secret
    <3>1. mem.cache \in [Ids -> Nat] /\ mem'.cache = [mem.cache EXCEPT ![id] = c.secret]
      BY <1>5, StepMoves DEF Finish, CacheStep, VaultStep, VaultFails, ListStep, ListFails,
         SettingsFileStep, SettingsFail, SettingsMemoryStep, DaemonStep, DaemonFails, TypeInv, TypeOK
    <3> QED
      BY <3>1
  <2>3. PICK d : Moved(c, d, "vault")
    BY <2>1
  <2>4. d.id = id /\ d.op = c.op /\ d.favorite = c.favorite /\ d.at = "vault" /\ d \in pending'
        /\ \A b \in pending' : b.id = id => b = d
    BY <2>3, <1>2 DEF Moved
  <2>5. Agree(id)'
    BY <2>1, <2>4, <1>2 DEF Agree, SameEntry
  <2>6. Loaded(id)'
    BY <1>0, <1>2, <2>4 DEF Loaded
  <2>7. SecretKept(id)'
    BY <1>0, <1>2, <1>5, <2>2, <2>4 DEF SecretKept
  <2>8. Erased(id)'
    BY <1>0, <1>2, <1>4, <2>2, <2>4 DEF Erased, CommandOK
  <2> QED
    BY <1>0, <1>1, <2>5, <2>6, <2>7, <2>8 DEF ProfileOK
<1>6. CASE c.at = "vault"
  <2>1. VaultStep(c) /\ \E d : Moved(c, d, "list")
    BY <1>6, StepMoves DEF Finish, CacheStep, VaultFails, ListStep, ListFails, Fails,
         SettingsFileStep, SettingsFail, SettingsMemoryStep, DaemonStep, DaemonFails
  <2>2. /\ disk'.vault = mem.cache /\ mem' = mem /\ disk'.profiles = disk.profiles
        /\ "list" \in damaged' <=> "list" \in damaged
    BY <2>1 DEF VaultStep, Completes, TypeInv, TypeOK
  <2>3. PICK d : Moved(c, d, "list")
    BY <2>1
  <2>4. d.id = id /\ d.op = c.op /\ d.favorite = c.favorite /\ d.at = "list" /\ d \in pending'
        /\ \A b \in pending' : b.id = id => b = d
    BY <2>3, <1>2 DEF Moved
  <2>5. Agree(id)'
    BY <2>2, <1>2 DEF Agree, SameEntry
  <2>6. Loaded(id)'
    BY <1>0, <1>2, <2>4 DEF Loaded
  <2>7. SecretKept(id)'
    BY <1>0, <1>2, <1>6, <2>2, <2>4 DEF SecretKept
  <2>8. Erased(id)'
    BY <1>0, <1>2, <1>6, <2>2, <2>4 DEF Erased
  <2> QED
    BY <1>0, <1>1, <2>5, <2>6, <2>7, <2>8 DEF ProfileOK
<1>7. CASE c.at = "list"
  <2>1. mem'.list = NewList(c) /\ disk'.profiles = NewList(c) /\ pending' = pending \ {c}
    BY <1>7, StepLists DEF Finish
  <2>2. mem'.cache = mem.cache /\ disk'.vault = disk.vault /\ ("vault" \in damaged' <=> "vault" \in damaged)
    BY <1>7, StepSecrets
  <2>3. \A b \in pending' : b.id # id
    BY <2>1, <1>2
  <2>4. /\ c.op = "delete" => ~Listed(NewList(c), id)
        /\ c.op # "delete" => \A mark \in BOOLEAN : Marked(NewList(c), id, mark) <=> mark = c.favorite
    BY <1>0, NewListFacts
  <2>5. Agree(id)'
    <3>1. "vault" \notin damaged => mem.cache[id] = disk.vault[id]
      BY <1>2, <1>7 DEF Agree
    <3> QED
      BY <2>1, <2>2, <3>1 DEF Agree, SameEntry
  <2>6. Loaded(id)'
    <3>1. SameEntry(store.profiles, NewList(c), id)
      <4>1. CASE c.op = "save"
        BY <4>1, <1>2, <2>4 DEF Loaded, SameEntry
      <4>2. CASE c.op = "delete"
        BY <4>2, <1>2, <1>4, <2>4 DEF Erased, Listed, Marked, SameEntry
      <4> QED
        BY <4>1, <4>2, <1>3
    <3> QED
      BY <1>0, <2>1, <2>3, <3>1 DEF Loaded
  <2>7. SecretKept(id)'
    BY <1>0, <1>2, <1>7, <2>2, <2>3 DEF SecretKept
  <2>8. Erased(id)'
    BY <1>0, <1>2, <1>4, <1>7, <2>1, <2>2, <2>3, <2>4 DEF Erased
  <2> QED
    BY <1>0, <1>1, <2>5, <2>6, <2>7, <2>8 DEF ProfileOK
<1> QED
  BY <1>3, <1>5, <1>6, <1>7

\* An operation on profile x, seen from a profile that is not dirty after it.
LEMMA OpOfProfile ==
  ASSUME TypeInv, UniqueIds, NEW x \in Ids, NEW cmd \in CommandType, ProfileOp(x, cmd),
         NEW id \in Ids \ dirty', ProfileOK(id)
  PROVE  ProfileOK(id)'
<1>0. /\ UNCHANGED <<load, mem, disk, damaged>> /\ store'.loaded = store.loaded /\ cmd.id = x
      /\ OnlyEntry(store'.profiles, store.profiles, x)
      /\ pending' = pending \cup {cmd}
      /\ x \notin dirty' => store.loaded /\ \A c \in pending : c.id # x
  BY IssueFacts DEF ProfileOp
<1>1. CASE id # x
  <2>1. \A b : b.id = id => (b \in pending' <=> b \in pending)
    BY <1>0, <1>1
  <2>2. id \in deleted' <=> id \in deleted
    BY <1>1 DEF ProfileOp, SaveOp, DeleteOp
  <2>3. /\ SameEntry(store'.profiles, store.profiles, id)
        /\ Listed(store'.profiles, id) <=> Listed(store.profiles, id)
        /\ \A s : HasSecret(store'.profiles, id, s) <=> HasSecret(store.profiles, id, s)
    BY <1>0, <1>1 DEF OnlyEntry
  <2>4. Agree(id)'
    BY <1>0, <2>1 DEF ProfileOK, Agree, SameEntry
  <2>5. ~store.loaded => NotLoaded(id)'
    BY <1>0, <2>1, <2>2 DEF ProfileOK, NotLoaded, SameEntry
  <2>6. store.loaded => Loaded(id)'
    BY <1>0, <2>1, <2>3 DEF ProfileOK, Loaded, SameEntry
  <2>7. store.loaded => SecretKept(id)'
    BY <1>0, <2>1, <2>3 DEF ProfileOK, SecretKept, HasSecret
  <2>8. store.loaded => Erased(id)'
    BY <1>0, <2>1, <2>2, <2>3 DEF ProfileOK, Erased
  <2> QED
    BY <1>0, <2>4, <2>5, <2>6, <2>7, <2>8 DEF ProfileOK
<1>2. CASE id = x
  <2>1. store.loaded /\ (\A c \in pending : c.id # x) /\ \A c \in pending' : c.id = x <=> c = cmd
    BY <1>0, <1>2
  <2>2. Agree(x) /\ Loaded(x) /\ SecretKept(x) /\ Erased(x)
    BY <1>2, <2>1 DEF ProfileOK
  <2>3. "vault" \notin damaged => mem.cache[x] = disk.vault[x]
    BY <2>1, <2>2 DEF Agree
  <2>4. Agree(x)'
    BY <1>0, <2>2, <2>3 DEF Agree, SameEntry
  <2>5. cmd \in pending'
    BY <1>0
  <2>6. CASE cmd.op = "save"
    <3>1. SaveOp(x, cmd)
      BY <2>6 DEF ProfileOp
    <3>2. Loaded(x)'
      BY <1>0, <2>1, <2>5, <3>1 DEF Loaded, SaveOp
    <3>3. SecretKept(x)'
      <4> SUFFICES ASSUME NEW i \in DOMAIN store'.profiles, store'.profiles[i].id = x, store'.profiles[i].secret # 0
                   PROVE  /\ \A c \in pending' : c.id = x /\ c.at = "cache" => c.secret = store'.profiles[i].secret
                          /\ (\A c \in pending' : c.id = x => c.at # "cache") => mem'.cache[x] = store'.profiles[i].secret
        BY DEF SecretKept
      <4>1. HasSecret(store'.profiles, x, store'.profiles[i].secret)
        BY DEF HasSecret
      <4>2. CASE cmd.secret # 0
        BY <4>1, <4>2, <3>1, <2>1, <2>5, <1>0 DEF SaveOp
      <4>3. CASE cmd.secret = 0
        <5>1. cmd.at = "list" /\ HasSecret(store.profiles, x, store'.profiles[i].secret)
          BY <4>1, <4>3, <3>1 DEF SaveOp
        <5>2. mem.cache[x] = store'.profiles[i].secret
          BY <5>1, <2>1, <2>2 DEF HasSecret, SecretKept
        <5> QED
          BY <5>1, <5>2, <1>0, <2>1
      <4> QED
        BY <4>2, <4>3
    <3>4. x \notin deleted'
      <4>1. nextId \in Nat
        BY OpBasics
      <4>2. nextId \notin deleted
        BY <4>1 DEF UniqueIds
      <4> QED
        BY <3>1, <2>2, <4>2 DEF SaveOp, Erased
    <3>5. Erased(x)'
      BY <3>4 DEF Erased
    <3> QED
      BY <1>0, <1>2, <2>1, <2>4, <3>2, <3>3, <3>5 DEF ProfileOK
  <2>7. CASE cmd.op = "delete"
    <3>1. DeleteOp(x, cmd)
      BY <2>7 DEF ProfileOp
    <3>2. Loaded(x)'
      BY <1>0, <2>1, <2>5, <2>7 DEF Loaded
    <3>3. SecretKept(x)' /\ Erased(x)'
      BY <1>0, <2>1, <2>5, <3>1 DEF SecretKept, Erased, Listed, DeleteOp
    <3> QED
      BY <1>0, <1>2, <2>1, <2>4, <3>2, <3>3 DEF ProfileOK
  <2> QED
    BY <2>6, <2>7 DEF ProfileOp
<1> QED
  BY <1>1, <1>2

LEMMA ProfileInvStep ==
  ASSUME TypeInv, UniqueIds, Commands, ProfileInv, [Next]_vars
  PROVE  ProfileInv'
<1> SUFFICES ASSUME NEW id \in Ids, id \notin dirty'
             PROVE  ProfileOK(id)'
  BY DEF ProfileInv, ProfileOK
<1>0. id \notin dirty => ProfileOK(id)
  BY DEF ProfileInv, ProfileOK
<1>1. CASE TakeSnapshot
  BY <1>0, <1>1 DEF TakeSnapshot, ProfileOK, Agree, NotLoaded, SameEntry, backVars, daemonVars, ghostVars
<1>2. CASE LoadOp /\ load \in LoadType
  <2>1. ~store.loaded
    BY <1>2 DEF LoadOp, TypeInv, NoSnapshot
  <2>2. Agree(id) /\ NotLoaded(id)
    BY <1>0, <1>2, <2>1 DEF LoadOp, ProfileOK
  <2>3. UNCHANGED <<pending, mem, disk, damaged, deleted>> /\ store'.loaded
    BY <1>2 DEF LoadOp
  <2>4. Agree(id)' /\ Erased(id)'
    BY <2>2, <2>3 DEF Agree, SameEntry, NotLoaded, Erased
  <2>5. Loaded(id)'
    BY <1>2, <2>2, <2>3 DEF LoadOp, NotLoaded, Loaded, SameEntry
  <2>6. SecretKept(id)'
    BY <1>2, <2>2, <2>3 DEF LoadOp, NotLoaded, SecretKept, HasSecret
  <2> QED
    BY <2>3, <2>4, <2>5, <2>6 DEF ProfileOK
<1>3. ASSUME NEW x \in Ids, NEW cmd \in CommandType, ProfileOp(x, cmd)
      PROVE  ProfileOK(id)'
  <2>1. dirty \subseteq dirty'
    BY <1>3, IssueFacts DEF ProfileOp
  <2> QED
    BY <1>0, <1>3, <2>1, OpOfProfile
<1>4. ASSUME NEW s \in PolicyType, NEW cmds \in SUBSET CommandType, SettingsOp(s, cmds)
      PROVE  ProfileOK(id)'
  <2>1. id # Settings
    BY IdsFacts
  <2>2. pending' = pending \cup cmds /\ dirty \subseteq dirty'
    BY <1>4, IssueFacts DEF SettingsOp
  <2>3. /\ store'.loaded = store.loaded /\ store'.profiles = store.profiles
        /\ UNCHANGED <<load, mem, disk, damaged, deleted>> /\ \A c \in cmds : c.id = Settings
    BY <1>4 DEF SettingsOp
  <2>4. \A b : b.id = id => (b \in pending' <=> b \in pending)
    BY <2>1, <2>2, <2>3
  <2>5. ProfileOK(id)
    BY <1>0, <2>2
  <2>6. Agree(id)'
    BY <2>3, <2>4, <2>5 DEF ProfileOK, Agree, SameEntry
  <2>7. ~store.loaded => NotLoaded(id)'
    BY <2>3, <2>4, <2>5 DEF ProfileOK, NotLoaded, SameEntry
  <2>8. store.loaded => Loaded(id)'
    BY <2>3, <2>4, <2>5 DEF ProfileOK, Loaded, SameEntry
  <2>9. store.loaded => SecretKept(id)' /\ Erased(id)'
    BY <2>3, <2>4, <2>5 DEF ProfileOK, SecretKept, Erased
  <2> QED
    BY <2>3, <2>6, <2>7, <2>8, <2>9 DEF ProfileOK
<1>5. ASSUME NEW c \in pending, Step(c)
      PROVE  ProfileOK(id)'
  <2>1. dirty \subseteq dirty'
    BY <1>5 DEF Step, CacheStep, VaultStep, VaultFails, ListStep, ListFails, SettingsFileStep, SettingsFail,
         SettingsMemoryStep, DaemonStep, DaemonFails, Fails, ghostVars
  <2>2. ProfileOK(id)
    BY <1>0, <2>1
  <2>3. CASE c.id = id
    BY <1>5, <2>2, <2>3, StepOfOwn
  <2>4. CASE c.id # id
    BY <1>5, <2>2, <2>4, StepOfOther
  <2> QED
    BY <2>3, <2>4
<1>6. ASSUME NEW torn \in SUBSET {"list", "vault", "file"}, Crash(torn)
      PROVE  ProfileOK(id)'
  <2>1. /\ mem'.list = disk'.profiles /\ mem'.cache = disk'.vault /\ store'.loaded = FALSE
        /\ pending' = {} /\ deleted' = {} /\ load' = NoSnapshot
    BY <1>6 DEF Crash, LoadedFrom, EmptyStore
  <2> QED
    BY <2>1 DEF ProfileOK, Agree, NotLoaded, SameEntry, NoSnapshot
<1>7. CASE UNCHANGED vars
  BY <1>0, <1>7 DEF vars, uiVars, backVars, daemonVars, ghostVars, ProfileOK, Agree, NotLoaded, Loaded, SecretKept, Erased, SameEntry
<1>8. CASE Connect \/ TunnelUp \/ TunnelDown
  BY <1>8, <1>0, TunnelKeeps DEF ProfileOK, Agree, NotLoaded, Loaded, SecretKept, Erased, SameEntry
<1> QED
  BY <1>1, <1>2, <1>3, <1>4, <1>5, <1>6, <1>7, <1>8, NextCases

-----------------------------------------------------------------------------
(***************************************************************************)
(* Settings and the kill switch                                            *)
(***************************************************************************)
\* What the steps of the back end do to the settings.
LEMMA StepSettings ==
  ASSUME TypeInv, Commands, NEW c \in pending, Step(c)
  PROVE  /\ disk'.settings = disk.settings \/ c.at = "file"
         /\ mem'.settings = mem.settings \/ c.at = "memory"
         /\ daemonKill' = daemonKill \/ (c.at = "daemon" /\ daemonKill' = c.settings.kill)
         /\ captured' = captured
         /\ dirty' = dirty \/ dirty' = dirty \cup {c.id}
         /\ killStale => killStale'
         /\ c.at = "file" => disk'.settings = c.settings \/ c.id \in dirty'
         /\ c.at = "daemon" => {captured', daemonKill'} \subseteq {"none", c.settings.kill} \/ killStale'
         /\ \A b \in pending' : b \in pending \/ (b.op = c.op /\ b.id = c.id /\ b.settings = c.settings /\ b.at # "file")
         /\ \A b \in pending : b # c => b \in pending'
         /\ \A b \in pending' : c.at = "daemon" => b \in pending /\ b # c
<1>1. c \in CommandType
  BY KindOf
<1>2. /\ \A b \in pending' : b \in pending \/ (b.op = c.op /\ b.id = c.id /\ b.settings = c.settings /\ b.at # "file")
      /\ \A b \in pending : b # c => b \in pending'
      /\ \A b \in pending' : c.at = "daemon" => b \in pending /\ b # c
  BY StepMoves DEF Moved, Finish, CacheStep, VaultStep, VaultFails, SettingsFileStep
<1>3. /\ disk'.settings = disk.settings \/ c.at = "file"
      /\ mem'.settings = mem.settings \/ c.at = "memory"
      /\ c.at = "file" => disk'.settings = c.settings \/ c.id \in dirty'
  BY DEF Step, CacheStep, VaultStep, VaultFails, ListStep, ListFails, SettingsFileStep, SettingsFail,
       SettingsMemoryStep, DaemonStep, DaemonFails, Fails, TypeInv, TypeOK, backVars, daemonVars
<1>4. /\ daemonKill' = daemonKill \/ (c.at = "daemon" /\ daemonKill' = c.settings.kill)
      /\ captured' = captured
      /\ dirty' = dirty \/ dirty' = dirty \cup {c.id}
      /\ killStale => killStale'
      /\ c.at = "daemon" => {captured', daemonKill'} \subseteq {"none", c.settings.kill} \/ killStale'
  BY DEF Step, CacheStep, VaultStep, VaultFails, ListStep, ListFails, SettingsFileStep, SettingsFail,
       SettingsMemoryStep, DaemonStep, DaemonFails, Fails, TypeInv, TypeOK, backVars, daemonVars, ghostVars
<1> QED
  BY <1>2, <1>3, <1>4

LEMMA SettingsInvStep ==
  ASSUME TypeInv, UniqueIds, Commands, SettingsInv, [Next]_vars
  PROVE  SettingsInv'
<1> SUFFICES ASSUME Settings \notin dirty'
             PROVE  SettingsInv'
  BY DEF SettingsInv
<1>1. CASE TakeSnapshot
  BY <1>1 DEF TakeSnapshot, SettingsInv, backVars, daemonVars, ghostVars
<1>2. CASE LoadOp /\ load \in LoadType
  <2>1. ~store.loaded
    BY <1>2 DEF LoadOp, TypeInv, NoSnapshot
  <2>2. (\A c \in pending : c.id # Settings) /\ load.settings = disk.settings
    BY <1>2, <2>1 DEF LoadOp, SettingsInv
  <2>3. \A c \in pending : c.op # "settings"
    BY <2>2, KindOf
  <2> QED
    BY <1>2, <2>2, <2>3 DEF LoadOp, SettingsInv
<1>3. ASSUME NEW x \in Ids, NEW cmd \in CommandType, ProfileOp(x, cmd)
      PROVE  SettingsInv'
  <2>1. /\ x # Settings /\ pending' = pending \cup {cmd} /\ Settings \notin dirty
    BY <1>3, IssueFacts, IdsFacts DEF ProfileOp
  <2>2. /\ cmd.id = x /\ cmd.op # "settings" /\ cmd.at # "file"
    BY <1>3 DEF ProfileOp, SaveOp, DeleteOp
  <2>3. /\ store'.loaded = store.loaded /\ store'.settings = store.settings /\ UNCHANGED <<load, mem, disk>>
    BY <1>3 DEF ProfileOp
  <2> QED
    BY <2>1, <2>2, <2>3 DEF SettingsInv
<1>4. ASSUME NEW s \in PolicyType, NEW cmds \in SUBSET CommandType, SettingsOp(s, cmds)
      PROVE  SettingsInv'
  <2>1. store.loaded /\ (\A c \in pending : c.id # Settings) /\ pending' = pending \cup cmds
    BY <1>4, IssueFacts DEF SettingsOp
  <2>2. \A c \in pending : c.op # "settings"
    BY <2>1, KindOf
  <2>3. \E c \in cmds : c.at = "file"
    BY <1>4 DEF SettingsOp
  <2> QED
    BY <1>4, <2>1, <2>2, <2>3 DEF SettingsOp, SettingsInv
<1>5. ASSUME NEW c \in pending, Step(c)
      PROVE  SettingsInv'
  <2>0. UNCHANGED <<store, load>> /\ Settings \notin dirty
    BY <1>5, StepMoves, StepSettings
  <2>1. CASE ~store.loaded
    <3>1. c.id # Settings /\ c.at \notin {"file", "memory"}
      BY <2>0, <2>1, KindOf DEF SettingsInv
    <3>2. disk'.settings = disk.settings /\ mem'.settings = mem.settings /\ \A b \in pending' : b.id # Settings
      BY <1>5, <2>0, <2>1, <3>1, StepSettings DEF SettingsInv
    <3> QED
      BY <2>0, <2>1, <3>2 DEF SettingsInv
  <2>2. CASE store.loaded
    <3>1. \A b \in pending : b.op = "settings" => b.settings = store.settings
      BY <2>0, <2>2 DEF SettingsInv
    <3>2. \A b \in pending' : b.op = "settings" => b.settings = store.settings
      BY <1>5, <3>1, StepSettings
    <3>3. (\A b \in pending' : b.at # "file") => disk'.settings = store.settings
      <4>1. CASE c.at = "file"
        BY <1>5, <3>1, <4>1, StepSettings, KindOf
      <4>2. CASE c.at # "file"
        BY <1>5, <2>0, <2>2, <4>2, StepSettings DEF SettingsInv
      <4> QED
        BY <4>1, <4>2
    <3> QED
      BY <2>0, <2>2, <3>2, <3>3 DEF SettingsInv
  <2> QED
    BY <2>1, <2>2
<1>6. ASSUME NEW torn \in SUBSET {"list", "vault", "file"}, Crash(torn)
      PROVE  SettingsInv'
  BY <1>6 DEF Crash, LoadedFrom, EmptyStore, NoSnapshot, SettingsInv
<1>7. CASE UNCHANGED vars
  BY <1>7 DEF vars, uiVars, backVars, daemonVars, ghostVars, SettingsInv
<1>8. CASE Connect \/ TunnelUp \/ TunnelDown
  BY <1>8, TunnelKeeps DEF SettingsInv
<1> QED
  BY <1>1, <1>2, <1>3, <1>4, <1>5, <1>6, <1>7, <1>8, NextCases

LEMMA KillInvStep ==
  ASSUME TypeInv, UniqueIds, Commands, SettingsInv, KillInv, [Next]_vars
  PROVE  KillInv'
<1> SUFFICES ASSUME ~killStale'
             PROVE  KillInv'
  BY DEF KillInv
<1>1. CASE TakeSnapshot
  BY <1>1 DEF TakeSnapshot, KillInv, backVars, daemonVars, ghostVars
<1>2. CASE LoadOp /\ load \in LoadType
  <2>1. ~store.loaded
    BY <1>2 DEF LoadOp, TypeInv, NoSnapshot
  <2>2. /\ Settings \notin dirty /\ (\A c \in pending : c.id # Settings)
        /\ {captured, daemonKill} \subseteq {"none", disk.settings.kill}
    BY <1>2, <2>1 DEF LoadOp, KillInv
  <2>3. load.settings = disk.settings /\ \A c \in pending : c.op # "daemon"
    BY <1>2, <2>1, <2>2, KindOf DEF LoadOp, SettingsInv
  <2> QED
    BY <1>2, <2>2, <2>3 DEF LoadOp, KillInv
<1>3. ASSUME NEW x \in Ids, NEW cmd \in CommandType, ProfileOp(x, cmd)
      PROVE  KillInv'
  <2>1. /\ x # Settings /\ pending' = pending \cup {cmd} /\ (Settings \in dirty' <=> Settings \in dirty)
    BY <1>3, IssueFacts, IdsFacts DEF ProfileOp
  <2>2. /\ cmd.id = x /\ cmd.op # "daemon"
    BY <1>3 DEF ProfileOp
  <2>3. /\ store'.loaded = store.loaded /\ store'.settings = store.settings
        /\ UNCHANGED <<disk, captured, daemonKill, killStale>>
    BY <1>3 DEF ProfileOp
  <2> QED
    BY <2>1, <2>2, <2>3 DEF KillInv
<1>4. ASSUME NEW s \in PolicyType, NEW cmds \in SUBSET CommandType, SettingsOp(s, cmds)
      PROVE  KillInv'
  <2>1. ~killStale /\ store.loaded /\ pending' = pending \cup cmds
    BY <1>4, IssueFacts DEF SettingsOp
  <2>2. /\ store'.loaded = store.loaded /\ store'.settings = s /\ UNCHANGED <<captured, daemonKill>>
        /\ \A c \in cmds : c.settings = s
    BY <1>4 DEF SettingsOp
  <2>3. CASE s.kill = store.settings.kill /\ \A c \in cmds : c.op # "daemon"
    BY <2>1, <2>2, <2>3 DEF KillInv
  <2>4. CASE (\E c \in cmds : c.op = "daemon") /\ \A c \in pending : c.op # "daemon"
    BY <2>1, <2>2, <2>4 DEF KillInv
  <2> QED
    BY <1>4, <2>3, <2>4 DEF SettingsOp
<1>5. ASSUME NEW c \in pending, Step(c)
      PROVE  KillInv'
  <2>0. store' = store /\ ~killStale
    BY <1>5, StepMoves, StepSettings
  <2>1. CASE ~store.loaded
    <3>1. c.id # Settings /\ c.at \notin {"file", "daemon"}
      BY <2>0, <2>1, KindOf DEF KillInv
    <3>2. /\ disk'.settings = disk.settings /\ UNCHANGED <<captured, daemonKill>> /\ Settings \notin dirty'
          /\ \A b \in pending' : b.id # Settings
      BY <1>5, <2>0, <2>1, <3>1, StepSettings DEF KillInv
    <3> QED
      BY <2>0, <2>1, <3>2 DEF KillInv
  <2>2. CASE store.loaded
    <3>1. \A b \in pending : b.op = "daemon" => b.settings.kill = store.settings.kill
      BY <2>0, <2>2 DEF KillInv
    <3>2. \A b \in pending' : b.op = "daemon" => b.settings.kill = store.settings.kill
      BY <1>5, <3>1, StepSettings
    <3>3. (\A b \in pending' : b.op # "daemon") => {captured', daemonKill'} \subseteq {"none", store.settings.kill}
      <4>1. CASE c.at = "daemon"
        BY <1>5, <3>1, <4>1, StepSettings, KindOf
      <4>2. CASE c.at # "daemon"
        <5>1. c.op # "daemon"
          BY <4>2, KindOf DEF CommandOK
        <5> QED
          BY <1>5, <2>0, <2>2, <4>2, <5>1, StepSettings DEF KillInv
      <4> QED
        BY <4>1, <4>2
    <3> QED
      BY <2>0, <2>2, <3>2, <3>3 DEF KillInv
  <2> QED
    BY <2>1, <2>2
<1>6. ASSUME NEW torn \in SUBSET {"list", "vault", "file"}, Crash(torn)
      PROVE  KillInv'
  <2>1. ~killStale /\ dirty = {} /\ \A c \in pending : c.id # Settings
    BY <1>6 DEF Crash
  <2>2. \A c \in pending : c.at # "file" /\ c.op # "daemon"
    BY <2>1, KindOf
  <2>3. "file" \notin torn
    BY <1>6, <2>2 DEF Crash
  <2>4. /\ disk'.settings = disk.settings /\ store'.loaded = FALSE /\ UNCHANGED <<captured, daemonKill>>
        /\ dirty' = {} /\ pending' = {}
    BY <1>6, <2>3 DEF Crash, EmptyStore, daemonVars
  <2>5. {captured, daemonKill} \subseteq {"none", disk.settings.kill}
    BY <2>1, <2>2 DEF KillInv, SettingsInv
  <2> QED
    BY <2>4, <2>5 DEF KillInv
<1>7. CASE UNCHANGED vars
  BY <1>7 DEF vars, uiVars, backVars, daemonVars, ghostVars, KillInv
<1>8. CASE Connect \/ TunnelUp \/ TunnelDown
  <2>1. UNCHANGED <<store, pending, disk, dirty>>
    BY <1>8, TunnelKeeps
  <2>2. CASE Connect
    <3>1. store.loaded /\ (~killStale \/ \A c \in pending : c.op # "daemon")
      BY <2>2 DEF Connect, TypeInv, TypeOK
    <3>2. captured' = store.settings.kill /\ daemonKill' = "none"
      BY <2>2 DEF Connect
    <3> QED
      BY <2>1, <3>1, <3>2 DEF KillInv
  <2>3. CASE TunnelUp \/ TunnelDown
    <3>1. ~killStale /\ {captured', daemonKill'} \subseteq {"none", captured, daemonKill}
      BY <2>3 DEF TunnelUp, TunnelDown, ghostVars
    <3> QED
      BY <2>1, <3>1 DEF KillInv
  <2> QED
    BY <1>8, <2>2, <2>3
<1> QED
  BY <1>1, <1>2, <1>3, <1>4, <1>5, <1>6, <1>7, <1>8, NextCases

-----------------------------------------------------------------------------
(***************************************************************************)
(* The theorems                                                            *)
(***************************************************************************)
LEMMA InitIInv == Init => IInv
<1> SUFFICES ASSUME Init PROVE IInv
  OBVIOUS
<1>1. TypeInv
  BY TypeInit
<1>2. /\ disk.profiles = InitialProfiles /\ mem.list = InitialProfiles /\ mem.cache = disk.vault
      /\ mem.settings = disk.settings /\ store.profiles = <<>> /\ store.loaded = FALSE
      /\ load = NoSnapshot /\ pending = {} /\ dirty = {} /\ deleted = {} /\ captured = "none" /\ daemonKill = "none"
      /\ damaged = {}
      /\ nextId = Len(InitialProfiles) + 1
  BY DEF Init, InitialDisk, LoadedFrom, EmptyStore
<1>3. Commands /\ OnlyDeletedMissing /\ DamageInv /\ SettingsInv /\ KillInv
  BY <1>2 DEF Commands, OnlyDeletedMissing, DamageInv, SettingsInv, KillInv, NoSnapshot
<1>4. UniqueIds
  <2>1. Unique(InitialProfiles) /\ Below(InitialProfiles)
    BY <1>2, InitialFacts DEF Below
  <2>2. Unique(store.profiles) /\ Below(store.profiles)
    BY <1>2 DEF Unique, Below
  <2> QED
    BY <1>2, <2>1, <2>2 DEF UniqueIds, NoSnapshot
<1>5. ProfileInv
  BY <1>2 DEF ProfileInv, Agree, NotLoaded, SameEntry, NoSnapshot
<1> QED
  BY <1>1, <1>3, <1>4, <1>5 DEF IInv

LEMMA InductiveInvariant == Spec => []IInv
<1>1. IInv /\ [Next]_vars => IInv'
  BY TypeStep, CommandsStep, UniqueIdsStep, OnlyDeletedMissingStep, DamageInvStep, ProfileInvStep,
     SettingsInvStep, KillInvStep
     DEF IInv
<1> QED
  BY <1>1, InitIInv, PTL DEF Spec

\* Every command, list, vault and policy stays of its type, whatever the user
\* does and however often the application crashes (StorageManager, useVpnStore).
THEOREM StorageTypeCorrect == Spec => []TypeOK
<1>1. IInv => TypeOK
  BY DEF IInv, TypeInv
<1> QED
  BY <1>1, InductiveInvariant, PTL

\* A settled profile: nothing is wrong with it and it is as ProfileInv says.
LEMMA SettledProfile ==
  ASSUME IInv, NEW id \in Ids, Settled(id)
  PROVE  /\ SameEntry(store.profiles, mem.list, id)
         /\ "list" \notin damaged => SameEntry(mem.list, disk.profiles, id)
         /\ "vault" \notin damaged => mem.cache[id] = disk.vault[id]
         /\ \A i \in DOMAIN store.profiles :
               store.profiles[i].id = id /\ store.profiles[i].secret # 0 => mem.cache[id] = store.profiles[i].secret
         /\ id \in deleted => mem.cache[id] = 0 /\ ~Listed(mem.list, id)
<1>1. store.loaded /\ id \notin dirty /\ \A c \in pending : c.id # id
  BY DEF Settled
<1>2. Agree(id) /\ Loaded(id) /\ SecretKept(id) /\ Erased(id)
  BY <1>1 DEF IInv, ProfileInv
<1> QED
  BY <1>1, <1>2 DEF Agree, Loaded, SecretKept, Erased

\* The favourite marks of an id, as Shown and OnDisk collect them.
Marks(list, id) == {[favorite |-> p.favorite] : p \in {q \in {list[i] : i \in DOMAIN list} : q.id = id}}

LEMMA MarksOfEntry ==
  ASSUME NEW S, NEW T, NEW a \in Seq(S), NEW b \in Seq(T), NEW id, SameEntry(a, b, id),
         \A e \in S \cup T : e.favorite \in BOOLEAN
  PROVE  Marks(a, id) = Marks(b, id)
<1>1. (\A i \in DOMAIN a : a[i].favorite \in BOOLEAN) /\ (\A i \in DOMAIN b : b[i].favorite \in BOOLEAN)
  BY ElementOfSeq, LenProperties
<1>2. ASSUME NEW i \in DOMAIN a, a[i].id = id
      PROVE  \E j \in DOMAIN b : b[j].id = id /\ b[j].favorite = a[i].favorite
  BY <1>1, <1>2 DEF SameEntry, Marked
<1>3. ASSUME NEW j \in DOMAIN b, b[j].id = id
      PROVE  \E i \in DOMAIN a : a[i].id = id /\ a[i].favorite = b[j].favorite
  BY <1>1, <1>3 DEF SameEntry, Marked
<1> QED
  BY <1>2, <1>3 DEF Marks

LEMMA ShownProfiles ==
  ASSUME TypeInv, NEW p \in ShownSecrets
  PROVE  p.id \in Ids /\ p.secret # 0 /\ \E i \in DOMAIN store.profiles : store.profiles[i] = p
<1>1. p.secret # 0 /\ \E i \in DOMAIN store.profiles : store.profiles[i] = p
  BY DEF ShownSecrets
<1> QED
  BY <1>1, OpBasics DEF ProfileType

\* Whatever other saves, deletions, failures and crashes go on, a profile whose
\* own commands did not overlap or fail is on disk exactly as the library shows
\* it, and so are the settings, unless a write of that very file failed half-way
\* and none completed since (useVpnStore against StorageManager).
THEOREM SettledStateIsDurable == Spec => []SettledIsDurable
<1>1. IInv => SettledIsDurable
  <2> SUFFICES ASSUME IInv PROVE SettledIsDurable
    OBVIOUS
  <2>0. TypeInv
    BY DEF IInv
  <2>1. ASSUME "list" \notin damaged, NEW id \in 1..(nextId - 1), Settled(id)
        PROVE  Shown(id) = OnDisk(id)
    <3>1. id \in Ids
      <4>1. nextId \in 1..(MaxId + 1) /\ MaxId \in Nat
        BY <2>0, IdsFacts DEF TypeInv, TypeOK
      <4> QED
        BY <4>1 DEF Ids
    <3>2. SameEntry(store.profiles, disk.profiles, id)
      BY <3>1, <2>1, SettledProfile DEF SameEntry
    <3>3. /\ store.profiles \in Seq(ProfileType) /\ disk.profiles \in Seq(EntryType)
          /\ \A e \in ProfileType \cup EntryType : e.favorite \in BOOLEAN
      BY <2>0 DEF TypeInv, TypeOK, ProfileType, EntryType
    <3>4. Marks(store.profiles, id) = Marks(disk.profiles, id)
      BY <3>2, <3>3, MarksOfEntry
    <3> QED
      BY <3>4 DEF Shown, OnDisk, Marks
  <2>2. ASSUME "vault" \notin damaged, NEW p \in ShownSecrets, Settled(p.id)
        PROVE  disk.vault[p.id] = p.secret
    BY <2>0, <2>2, ShownProfiles, SettledProfile
  <2>3. Settled(Settings) => disk.settings = store.settings
    <3> SUFFICES ASSUME Settled(Settings) PROVE disk.settings = store.settings
      OBVIOUS
    <3>1. \A c \in pending : c.at # "file"
      BY <2>0, KindOf DEF IInv, Settled
    <3> QED
      BY <3>1 DEF IInv, Settled, SettingsInv
  <2> QED
    BY <2>1, <2>2, <2>3 DEF SettledIsDurable
<1> QED
  BY <1>1, InductiveInvariant, PTL

\* vpn_connect takes the secret the form of a settled profile shows.
THEOREM ConnectTakesShownSecret == Spec => []ConnectUsesShownSecret
<1>1. IInv => ConnectUsesShownSecret
  <2> SUFFICES ASSUME IInv, NEW p \in ShownSecrets, Settled(p.id)
               PROVE  mem.cache[p.id] = p.secret
    BY DEF ConnectUsesShownSecret
  <2>0. TypeInv
    BY DEF IInv
  <2> QED
    BY <2>0, ShownProfiles, SettledProfile
<1> QED
  BY <1>1, InductiveInvariant, PTL

\* delete_profile: nothing of a deleted profile stays, in memory or in a file.
THEOREM DeletionErases == Spec => []DeletedIsErased
<1>1. IInv => DeletedIsErased
  <2> SUFFICES ASSUME IInv, NEW id \in deleted, Settled(id)
               PROVE  /\ mem.cache[id] = 0 /\ disk.vault[id] = 0
                      /\ \A i \in DOMAIN mem.list : mem.list[i].id # id
                      /\ OnDisk(id) = {}
    BY DEF DeletedIsErased
  <2>0. id \in Ids
    BY DEF IInv, TypeInv, TypeOK
  <2>1. /\ mem.cache[id] = 0 /\ ~Listed(mem.list, id)
        /\ "list" \notin damaged => SameEntry(mem.list, disk.profiles, id)
        /\ "vault" \notin damaged => disk.vault[id] = 0
    BY <2>0, SettledProfile
  <2>4. /\ "list" \in damaged => DOMAIN disk.profiles = {}
        /\ "vault" \in damaged => disk.vault[id] = 0
    BY <2>0 DEF IInv, DamageInv, NoSecrets
  <2>2. \A i \in DOMAIN disk.profiles : disk.profiles[i].favorite \in BOOLEAN
    <3>1. disk.profiles \in Seq(EntryType) /\ \A e \in EntryType : e.favorite \in BOOLEAN
      BY DEF IInv, TypeInv, TypeOK, EntryType
    <3> QED
      BY <3>1, ElementOfSeq, LenProperties
  <2>3. \A i \in DOMAIN disk.profiles : disk.profiles[i].id # id
    BY <2>1, <2>2, <2>4 DEF SameEntry, Marked, Listed
  <2> QED
    BY <2>1, <2>3, <2>4 DEF Listed, OnDisk
<1> QED
  BY <1>1, InductiveInvariant, PTL

\* The policy in force with the tunnel is the one the security view shows, unless
\* two changes overlapped, a request failed, a crash cut a change in two, or the
\* policy changed while the connection was being made (setKillSwitch, connect,
\* setup_vpn_network and set_kill_switch of the daemon).
THEOREM DaemonPolicyAgrees == Spec => []KillSwitchAgrees
<1>1. IInv => KillSwitchAgrees
  BY DEF IInv, KillInv, KillSwitchAgrees
<1> QED
  BY <1>1, InductiveInvariant, PTL

\* save_to_disk writes the whole cache, and still neither a concurrent save nor a
\* write that fails half-way takes a secret from memory and file together: that
\* takes a deletion, or a crash with the vault file unwritten or damaged.
THEOREM ConcurrentSavesKeepSecrets == Spec => SecretsOnlyDeleted
<1> DEFINE AtRisk(id) == id \in dirty \/ "vault" \in damaged \/ \E c \in pending : c.at = "vault"
<1>1. ASSUME IInv, Next, NEW id \in Ids, Kept(id), ~Kept(id)'
      PROVE  id \in deleted \/ (crashes' # crashes /\ AtRisk(id))
  <2>0. TypeInv /\ UniqueIds /\ Commands
    BY <1>1 DEF IInv
  <2>1. mem'.cache[id] = 0 /\ disk'.vault[id] = 0 /\ (mem.cache[id] # 0 \/ disk.vault[id] # 0)
    BY <1>1 DEF Kept
  <2>2. ASSUME NEW c \in pending, Step(c)
        PROVE  id \in deleted
    <3>1. CASE mem'.cache = mem.cache
      BY <1>1, <2>1, <3>1 DEF IInv, OnlyDeletedMissing
    <3>2. CASE c.at = "cache" /\ disk'.vault = disk.vault /\ mem'.cache = [mem.cache EXCEPT ![c.id] = c.secret]
      <4>1. c.secret = 0 => c.id \in deleted
        BY <2>0, <3>2, KindOf DEF CommandOK
      <4>2. mem.cache \in [Ids -> Nat]
        BY <2>0 DEF TypeInv, TypeOK
      <4> QED
        BY <2>1, <3>2, <4>1, <4>2
    <3> QED
      BY <2>0, <2>2, <3>1, <3>2, StepSecrets
  <2>3. ASSUME NEW torn \in SUBSET {"list", "vault", "file"}, Crash(torn)
        PROVE  crashes' # crashes /\ AtRisk(id)
    <3>1. crashes' # crashes
      BY <2>0, <2>3 DEF Crash, TypeInv
    <3>2. ASSUME ~AtRisk(id)
          PROVE  FALSE
      <4>1. mem.cache[id] = disk.vault[id]
        BY <1>1, <3>2 DEF IInv, ProfileInv, Agree
      <4>2. "vault" \notin torn
        BY <2>3, <3>2 DEF Crash
      <4>3. disk'.vault = disk.vault
        BY <2>3, <4>2 DEF Crash
      <4> QED
        BY <2>1, <4>1, <4>3
    <3> QED
      BY <3>1, <3>2
  <2>4. CASE TakeSnapshot \/ LoadOp \/ (\E x \in Ids, cmd \in CommandType : ProfileOp(x, cmd))
               \/ (\E s \in PolicyType : \E cmds \in SUBSET CommandType : SettingsOp(s, cmds))
               \/ Connect \/ TunnelUp \/ TunnelDown
    <3>1. UNCHANGED <<mem, disk>>
      BY <2>0, <2>4, TunnelKeeps DEF TakeSnapshot, LoadOp, ProfileOp, SettingsOp, backVars
    <3> QED
      BY <2>1, <3>1
  <2>5. Next
    BY <1>1
  <2> QED
    BY <2>0, <2>2, <2>3, <2>4, <2>5, NextCases
<1>2. IInv /\ [Next]_vars =>
        [\A id \in Ids : Kept(id) /\ ~Kept(id)' =>
            \/ id \in deleted
            \/ /\ crashes' # crashes
               /\ id \in dirty \/ "vault" \in damaged \/ \E c \in pending : c.at = "vault"]_vars
  BY <1>1
<1> QED
  BY <1>2, InductiveInvariant, PTL DEF Spec, SecretsOnlyDeleted
=============================================================================
