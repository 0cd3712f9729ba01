----------------------------- MODULE Mcp_proofs -----------------------------
(* The parts of the MCP side: its keys, what the PDP decides of them, and    *)
(* what is counted of their use.                                             *)
(* The vector and the file of the keys implement the atomic set of KeySet,   *)
(* through kills, power losses and failed writes, and the file is never one  *)
(* that a start refuses for more than its size; for any sets of identifiers, *)
(* names, sizes and callers.  What a key                                     *)
(* is given or refused by the decisions of the PDP was true a short time     *)
(* ago, for any questions, numbers of requests and times, however the        *)
(* answers fall.  And for any number of processes of one name, entries,      *)
(* starts and kills, a start after a stop or a kill is never taken for a     *)
(* conflict, what would be lost by a kill is marked, and a save forgets no   *)
(* request of the file that it replaces.                                     *)
EXTENDS McpKeys, PolicyAccess, McpUsage, Totals

(* The keys.                                                                 *)
KeyWrites == [step : {"temp", "synced", "renamed", "settled"}, by : KeyCallers, next : KeyFiles]

KeyShape ==
  /\ mode \in {"static", "hybrid", "down"}
  /\ keys \in KeyFiles
  /\ disk \in [file : KeyFiles, survivors : SUBSET KeyFiles]
  /\ write = NoChange \/ write \in KeyWrites
  /\ reply \in [KeyCallers -> Refusals \cup {"none", "ok"}]

(* Where a change has got to: before its rename the file has the keys of the *)
(* vector, after it those of the change.  Only the hybrid mode writes.       *)
FileFollows ==
  /\ disk.file \in disk.survivors
  /\ mode # "hybrid" => write = NoChange
  /\ mode = "hybrid" /\ write.step \in {"idle", "temp", "synced"} => disk.file = keys
  /\ write.step \in {"renamed", "settled"} => disk.file = write.next

(* Every set of keys that is or may come to be in force is one in which the  *)
(* constructor finds no fault but its size.                                  *)
AllWellFormed ==
  /\ WellFormed(keys)
  /\ \A found \in disk.survivors \cup {disk.file} : WellFormed(found)
  /\ write # NoChange => WellFormed(write.next)

KeyInv == KeyShape /\ FileFollows /\ AllWellFormed
-----------------------------------------------------------------------------
(* What the three changes do to such a set of keys.                          *)
LEMMA NoKeysWellFormed == NoKeys \in KeyFiles /\ WellFormed(NoKeys)
<1>1. NoKeys \in KeyFiles /\ KeysIn(NoKeys) = {}
  BY DEF NoKeys, KeyFiles, KeysIn
<1>2. Cardinality(KeysIn(NoKeys)) = 0
  BY <1>1, FS_EmptySet
<1> QED BY <1>1, <1>2, KeyAssumption DEF WellFormed, NamesOf

LEMMA CreatedWellFormed ==
  ASSUME NEW c, WellFormed(c), NEW key \in PageKey, NEW i \in KeyIds \ KeysIn(c),
         Cardinality(KeysIn(c)) < MaxUiKeys, key.name \notin NamesOf(c) \cup ConfigNames
  PROVE  [c EXCEPT ![i] = key] \in KeyFiles /\ WellFormed([c EXCEPT ![i] = key])
<1> DEFINE d == [c EXCEPT ![i] = key]
<1>0. c \in KeyFiles /\ key # NoKey
  BY KeyAssumption DEF WellFormed, PageKey
<1>1. d \in KeyFiles /\ d[i] = key /\ \A j \in KeyIds \ {i} : d[j] = c[j]
  BY <1>0 DEF KeyFiles
<1> HIDE DEF d
<1>2. KeysIn(d) = KeysIn(c) \cup {i}
  BY <1>0, <1>1 DEF KeysIn
<1>3. IsFiniteSet(KeysIn(c)) /\ i \notin KeysIn(c)
  BY KeyAssumption, FS_Subset DEF KeysIn
<1>4. Cardinality(KeysIn(d)) = Cardinality(KeysIn(c)) + 1 /\ Cardinality(KeysIn(c)) \in Nat
  BY <1>2, <1>3, FS_AddElement, FS_CardinalityType
<1>5. Cardinality(KeysIn(d)) <= MaxUiKeys
  BY <1>4, KeyAssumption
<1>6. \A j \in KeysIn(c) : j \in KeyIds \ {i} /\ c[j].name \in NamesOf(c) /\ d[j] = c[j]
  BY <1>1, <1>3 DEF KeysIn, NamesOf
<1>7. NamesOf(d) \subseteq NamesOf(c) \cup {key.name}
  BY <1>1, <1>2, <1>6 DEF NamesOf
<1>8. NamesOf(d) \cap ConfigNames = {}
  BY <1>7 DEF WellFormed
<1>9. \A j, k \in KeysIn(d) : d[j].name = d[k].name => j = k
  BY <1>1, <1>2, <1>6 DEF WellFormed
<1> QED BY <1>1, <1>5, <1>8, <1>9 DEF WellFormed, d

LEMMA RemovedWellFormed ==
  ASSUME NEW c, WellFormed(c), NEW i \in KeysIn(c)
  PROVE  [c EXCEPT ![i] = NoKey] \in KeyFiles /\ WellFormed([c EXCEPT ![i] = NoKey])
<1> DEFINE d == [c EXCEPT ![i] = NoKey]
<1>1. d \in KeyFiles /\ d[i] = NoKey /\ \A j \in KeyIds \ {i} : d[j] = c[j]
  BY DEF KeyFiles, WellFormed, KeysIn
<1> HIDE DEF d
<1>2. KeysIn(d) \subseteq KeysIn(c) /\ \A j \in KeysIn(d) : d[j] = c[j]
  BY <1>1 DEF KeysIn
<1>3. IsFiniteSet(KeysIn(c))
  BY KeyAssumption, FS_Subset DEF KeysIn
<1>4. /\ Cardinality(KeysIn(d)) <= Cardinality(KeysIn(c))
      /\ Cardinality(KeysIn(c)) \in Nat /\ Cardinality(KeysIn(d)) \in Nat
  BY <1>2, <1>3, FS_Subset, FS_CardinalityType
<1>5. Cardinality(KeysIn(d)) <= MaxUiKeys
  BY <1>4, KeyAssumption DEF WellFormed
<1>6. NamesOf(d) \subseteq NamesOf(c)
  BY <1>2 DEF NamesOf
<1> QED BY <1>1, <1>2, <1>5, <1>6 DEF WellFormed, d

LEMMA AdoptedWellFormed ==
  ASSUME NEW c, WellFormed(c), NEW i \in KeysIn(c), NEW person \in Creators, NEW bytes \in KeySizes
  PROVE  /\ [c EXCEPT ![i].creator = person, ![i].bytes = bytes] \in KeyFiles
         /\ WellFormed([c EXCEPT ![i].creator = person, ![i].bytes = bytes])
<1> DEFINE d == [c EXCEPT ![i].creator = person, ![i].bytes = bytes]
           key == [c[i] EXCEPT !.creator = person, !.bytes = bytes]
<1>1. c \in KeyFiles /\ i \in KeyIds /\ c[i] \in PageKey
  BY DEF WellFormed, KeysIn, KeyFiles, PageKey
<1>2. key \in PageKey /\ key.name = c[i].name /\ d = [c EXCEPT ![i] = key]
  BY <1>1 DEF PageKey
<1>3. d \in KeyFiles
  BY <1>1, <1>2 DEF KeyFiles, PageKey
<1>4. d[i] \in PageKey /\ d[i].name = c[i].name /\ \A j \in KeyIds \ {i} : d[j] = c[j]
  BY <1>1, <1>2 DEF KeyFiles
<1> HIDE DEF d
<1>5. d[i] # NoKey
  BY <1>4, KeyAssumption DEF PageKey
<1>6. KeysIn(d) = KeysIn(c)
  BY <1>1, <1>4, <1>5 DEF KeysIn
<1>7. \A j \in KeysIn(c) : d[j].name = c[j].name
  BY <1>4 DEF KeysIn
<1>8. NamesOf(d) = NamesOf(c)
  BY <1>6, <1>7 DEF NamesOf
<1> QED BY <1>3, <1>6, <1>7, <1>8 DEF WellFormed, d
-----------------------------------------------------------------------------
LEMMA KeyInvStarts == KeysInit => KeyInv
<1> SUFFICES ASSUME KeysInit PROVE KeyInv
  OBVIOUS
<1>1. NoChange \notin KeyWrites /\ NoChange.step = "idle"
  BY DEF NoChange, KeyWrites
<1>2. KeyShape
  BY NoKeysWellFormed DEF KeysInit, KeyShape, Refusals
<1>3. FileFollows
  BY <1>1 DEF KeysInit, FileFollows
<1>4. AllWellFormed
  BY NoKeysWellFormed DEF KeysInit, AllWellFormed
<1> QED BY <1>2, <1>3, <1>4 DEF KeyInv

(* A change that is tried starts from the keys of the vector and the file.   *)
LEMMA TriesKeeps ==
  ASSUME KeyInv, NEW c \in KeyCallers, ChangesKeys(c), mode # "static",
         NEW next \in KeyFiles, WellFormed(next), Tries(c, next)
  PROVE  KeyInv' /\ mode = "hybrid"
<1>1. mode = "hybrid" /\ write = NoChange /\ NoChange.step = "idle" /\ UNCHANGED <<mode, keys, disk, reply>>
  BY DEF KeyInv, KeyShape, ChangesKeys, Tries, NoChange
<1>2. /\ write' = [step |-> "temp", by |-> c, next |-> next]
      /\ write'.step = "temp" /\ write'.next = next /\ write' \in KeyWrites
  BY DEF Tries, KeyWrites
<1>3. KeyShape'
  BY <1>1, <1>2 DEF KeyInv, KeyShape
<1>4. FileFollows'
  BY <1>1, <1>2 DEF KeyInv, FileFollows
<1>5. AllWellFormed'
  BY <1>1, <1>2 DEF KeyInv, AllWellFormed
<1> QED BY <1>1, <1>3, <1>4, <1>5 DEF KeyInv

LEMMA RefusesKeeps ==
  ASSUME KeyInv, NEW c \in KeyCallers, ChangesKeys(c), NEW why \in Refusals, Refuses(c, why)
  PROVE  KeyInv'
<1>1. /\ UNCHANGED <<mode, keys, disk, write>>
      /\ reply' = [reply EXCEPT ![c] = why]
  BY DEF ChangesKeys, Refuses
<1>2. KeyShape'
  BY <1>1 DEF KeyInv, KeyShape
<1> QED BY <1>1, <1>2 DEF KeyInv, FileFollows, AllWellFormed, WellFormed

(* Each of the three changes is refused, or tries a set of keys that the     *)
(* constructor accepts.                                                      *)
LEMMA ChangeTriesOrRefuses ==
  ASSUME KeyInv, NEW c \in KeyCallers,
         \/ \E key \in PageKey : Create(c, key)
         \/ \E i \in KeyIds \cup ConfigNames :
              Remove(c, i) \/ \E expected \in Creators, person \in Creators \ {Nobody} : Adopt(c, i, expected, person)
  PROVE  /\ ChangesKeys(c)
         /\ \/ \E why \in Refusals : Refuses(c, why)
            \/ mode # "static" /\ \E next \in KeyFiles : WellFormed(next) /\ Tries(c, next)
<1>0. WellFormed(keys)
  BY DEF KeyInv, AllWellFormed
<1>1. ASSUME NEW key \in PageKey, Create(c, key)
      PROVE  /\ ChangesKeys(c)
             /\ \/ \E why \in Refusals : Refuses(c, why)
                \/ mode # "static" /\ \E next \in KeyFiles : WellFormed(next) /\ Tries(c, next)
  <2>1. ChangesKeys(c)
    BY <1>1 DEF Create
  <2>2. CASE mode # "static" /\ Cardinality(KeysIn(keys)) < MaxUiKeys /\ ~NameTaken(key.name)
             /\ \E i \in KeyIds \ KeysIn(keys) : Tries(c, [keys EXCEPT ![i] = key])
    <3>1. PICK i \in KeyIds \ KeysIn(keys) : Tries(c, [keys EXCEPT ![i] = key])
      BY <2>2
    <3>2. [keys EXCEPT ![i] = key] \in KeyFiles /\ WellFormed([keys EXCEPT ![i] = key])
      BY <1>0, <2>2, CreatedWellFormed DEF NameTaken
    <3> QED BY <2>1, <2>2, <3>1, <3>2
  <2>3. CASE \E why \in Refusals : Refuses(c, why)
    BY <2>1, <2>3
  <2> QED BY <1>1, <2>2, <2>3 DEF Create, Refusals
<1>f. ASSUME NEW i, Finds(c, i) PROVE \E why \in Refusals : Refuses(c, why)
  BY <1>f DEF Finds, Refusals
<1>2. ASSUME NEW i \in KeyIds \cup ConfigNames, Remove(c, i)
      PROVE  /\ ChangesKeys(c)
             /\ \/ \E why \in Refusals : Refuses(c, why)
                \/ mode # "static" /\ \E next \in KeyFiles : WellFormed(next) /\ Tries(c, next)
  <2>1. CASE Finds(c, i)
    BY <1>2, <2>1, <1>f DEF Remove
  <2>2. CASE mode # "static" /\ i \in KeysIn(keys) /\ Tries(c, [keys EXCEPT ![i] = NoKey])
    <3>1. [keys EXCEPT ![i] = NoKey] \in KeyFiles /\ WellFormed([keys EXCEPT ![i] = NoKey])
      BY <1>0, <2>2, RemovedWellFormed
    <3> QED BY <1>2, <2>2, <3>1 DEF Remove
  <2> QED BY <1>2, <2>1, <2>2 DEF Remove
<1>3. ASSUME NEW i \in KeyIds \cup ConfigNames, NEW expected \in Creators, NEW person \in Creators \ {Nobody},
             Adopt(c, i, expected, person)
      PROVE  /\ ChangesKeys(c)
             /\ \/ \E why \in Refusals : Refuses(c, why)
                \/ mode # "static" /\ \E next \in KeyFiles : WellFormed(next) /\ Tries(c, next)
  <2>0. ChangesKeys(c)
    BY <1>3 DEF Adopt
  <2>1. CASE Finds(c, i)
    BY <2>0, <2>1, <1>f
  <2>2. CASE Refuses(c, "creator_changed")
    BY <2>0, <2>2 DEF Refusals
  <2>3. ASSUME mode # "static", i \in KeysIn(keys), NEW bytes \in KeySizes,
               Tries(c, [keys EXCEPT ![i].creator = person, ![i].bytes = bytes])
        PROVE  \E next \in KeyFiles : WellFormed(next) /\ Tries(c, next)
    <3>1. /\ [keys EXCEPT ![i].creator = person, ![i].bytes = bytes] \in KeyFiles
          /\ WellFormed([keys EXCEPT ![i].creator = person, ![i].bytes = bytes])
      BY <1>0, <2>3, AdoptedWellFormed
    <3> QED BY <2>3, <3>1
  <2> QED BY <1>3, <2>0, <2>1, <2>2, <2>3 DEF Adopt
<1> QED BY <1>1, <1>2, <1>3
-----------------------------------------------------------------------------
(* The steps of the write, which have a change with its sets.                *)
LEMMA WritingFacts ==
  ASSUME KeyInv, NEW step \in {"temp", "synced", "renamed", "settled"}, Writing(step)
  PROVE  /\ mode = "hybrid" /\ write \in KeyWrites /\ write # NoChange /\ write.step = step
         /\ write.next \in KeyFiles /\ write.by \in KeyCallers /\ WellFormed(write.next)
         /\ \A other \in {"temp", "synced", "renamed", "settled"} :
              LET next == [write EXCEPT !.step = other]
              IN  next \in KeyWrites /\ next # NoChange /\ next.step = other /\ next.next = write.next
<1>1. write # NoChange /\ write.step = step
  BY DEF Writing, NoChange
<1>2. mode = "hybrid" /\ write \in KeyWrites /\ WellFormed(write.next)
  BY <1>1 DEF KeyInv, KeyShape, FileFollows, AllWellFormed
<1>3. ASSUME NEW other \in {"temp", "synced", "renamed", "settled"}
      PROVE  LET next == [write EXCEPT !.step = other]
             IN  next \in KeyWrites /\ next.step = other /\ next.next = write.next
  BY <1>2 DEF KeyWrites
<1>4. \A w \in KeyWrites : w.step \in {"temp", "synced", "renamed", "settled"} => w # NoChange
  BY DEF NoChange
<1> QED BY <1>1, <1>2, <1>3, <1>4 DEF KeyWrites

LEMMA SyncTempKeeps == ASSUME KeyInv, SyncTemp PROVE KeyInv'
<1>1. Writing("temp") /\ UNCHANGED <<mode, keys, disk, reply>> /\ write' = [write EXCEPT !.step = "synced"]
  BY DEF SyncTemp, Moves
<1>2. /\ write.step = "temp" /\ write' \in KeyWrites /\ write'.step = "synced" /\ write'.next = write.next
      /\ mode = "hybrid" /\ WellFormed(write.next)
  BY <1>1, WritingFacts
<1> QED BY <1>1, <1>2 DEF KeyInv, KeyShape, FileFollows, AllWellFormed, WellFormed

LEMMA RenameKeeps == ASSUME KeyInv, Rename PROVE KeyInv'
<1>1. /\ Writing("synced") /\ UNCHANGED <<mode, keys, reply>> /\ write' = [write EXCEPT !.step = "renamed"]
      /\ disk' = [file |-> write.next, survivors |-> disk.survivors \cup {write.next}]
  BY DEF Rename, Moves
<1>2. /\ write.step = "synced" /\ write' \in KeyWrites /\ write'.step = "renamed" /\ write'.next = write.next
      /\ mode = "hybrid" /\ WellFormed(write.next) /\ write.next \in KeyFiles
  BY <1>1, WritingFacts
<1>3. disk'.file = write.next /\ disk'.survivors = disk.survivors \cup {write.next}
      /\ disk' \in [file : KeyFiles, survivors : SUBSET KeyFiles]
  BY <1>1, <1>2 DEF KeyInv, KeyShape
<1>4. KeyShape'
  BY <1>1, <1>2, <1>3 DEF KeyInv, KeyShape
<1>5. FileFollows'
  BY <1>1, <1>2, <1>3 DEF FileFollows
<1>6. AllWellFormed'
  BY <1>1, <1>2, <1>3 DEF KeyInv, AllWellFormed
<1> QED BY <1>4, <1>5, <1>6 DEF KeyInv

LEMMA SyncDirectoryKeeps == ASSUME KeyInv, SyncDirectory PROVE KeyInv'
<1>1. /\ Writing("renamed") /\ UNCHANGED <<mode, keys, reply>> /\ write' = [write EXCEPT !.step = "settled"]
      /\ disk' = [disk EXCEPT !.survivors = {disk.file}] \/ disk' = disk
  BY DEF SyncDirectory, Moves
<1>2. /\ write.step = "renamed" /\ write' \in KeyWrites /\ write'.step = "settled" /\ write'.next = write.next
      /\ mode = "hybrid" /\ WellFormed(write.next)
  BY <1>1, WritingFacts
<1>3. /\ disk'.file = disk.file /\ disk'.survivors \subseteq disk.survivors /\ disk'.file \in disk'.survivors
      /\ disk' \in [file : KeyFiles, survivors : SUBSET KeyFiles]
  BY <1>1 DEF KeyInv, KeyShape, FileFollows
<1>4. KeyShape'
  BY <1>1, <1>2, <1>3 DEF KeyInv, KeyShape
<1>5. FileFollows'
  BY <1>1, <1>2, <1>3 DEF KeyInv, FileFollows
<1>6. AllWellFormed'
  BY <1>1, <1>2, <1>3 DEF KeyInv, AllWellFormed
<1> QED BY <1>4, <1>5, <1>6 DEF KeyInv

LEMMA NoChangeIsIdle == NoChange.step = "idle" /\ NoChange \notin KeyWrites
BY DEF NoChange, KeyWrites

LEMMA WriteFailsKeeps ==
  ASSUME KeyInv, WriteFails
  PROVE  KeyInv' /\ mode = "hybrid" /\ write \in KeyWrites /\ write # NoChange /\ write.by \in KeyCallers
<1>1. /\ UNCHANGED <<mode, keys, disk>> /\ write' = NoChange
      /\ reply' = [reply EXCEPT ![write.by] = "storage_error"]
  BY DEF WriteFails
<1>2. PICK step \in {"temp", "synced"} : Writing(step)
  BY DEF WriteFails
<1>3. mode = "hybrid" /\ write \in KeyWrites /\ write # NoChange /\ write.step \in {"temp", "synced"} /\ write.by \in KeyCallers
  BY <1>2, WritingFacts
<1>4. reply' \in [KeyCallers -> Refusals \cup {"none", "ok"}]
  BY <1>1, <1>3 DEF KeyInv, KeyShape, Refusals
<1>5. KeyShape' /\ FileFollows'
  BY <1>1, <1>3, <1>4, NoChangeIsIdle DEF KeyInv, KeyShape, FileFollows
<1>6. AllWellFormed'
  BY <1>1 DEF KeyInv, AllWellFormed
<1> QED BY <1>3, <1>5, <1>6 DEF KeyInv

LEMMA PublishKeeps == ASSUME KeyInv, Publish PROVE KeyInv'
<1>1. /\ Writing("settled") /\ UNCHANGED <<mode, disk>> /\ write' = NoChange /\ keys' = write.next
      /\ reply' = [reply EXCEPT ![write.by] = "ok"]
  BY DEF Publish
<1>2. /\ mode = "hybrid" /\ write.by \in KeyCallers /\ write.next \in KeyFiles /\ WellFormed(write.next)
      /\ write.step = "settled"
  BY <1>1, WritingFacts
<1>3. disk.file = write.next
  BY <1>2 DEF KeyInv, FileFollows
<1>4. reply' \in [KeyCallers -> Refusals \cup {"none", "ok"}]
  BY <1>1, <1>2 DEF KeyInv, KeyShape
<1>5. KeyShape' /\ FileFollows'
  BY <1>1, <1>2, <1>3, <1>4, NoChangeIsIdle DEF KeyInv, KeyShape, FileFollows
<1>6. AllWellFormed'
  BY <1>1, <1>2 DEF KeyInv, AllWellFormed
<1> QED BY <1>5, <1>6 DEF KeyInv

LEMMA GoesDownKeeps ==
  ASSUME KeyInv, GoesDown,
         disk' = disk \/ \E found \in disk.survivors : disk' = [file |-> found, survivors |-> {found}]
  PROVE  KeyInv'
<1>1. mode' = "down" /\ keys' = NoKeys /\ write' = NoChange /\ reply' = [c \in KeyCallers |-> "none"]
  BY DEF GoesDown
<1>2. /\ disk' \in [file : KeyFiles, survivors : SUBSET KeyFiles]
      /\ disk'.file \in disk'.survivors /\ disk'.survivors \subseteq disk.survivors
  BY DEF KeyInv, KeyShape, FileFollows
<1>3. KeyShape'
  BY <1>1, <1>2, NoKeysWellFormed DEF KeyShape
<1>4. FileFollows'
  BY <1>1, <1>2, NoChangeIsIdle DEF FileFollows
<1>5. AllWellFormed'
  BY <1>1, <1>2, NoKeysWellFormed DEF KeyInv, AllWellFormed
<1> QED BY <1>3, <1>4, <1>5 DEF KeyInv

LEMMA StartStoreKeeps == ASSUME KeyInv, StartStore PROVE KeyInv' /\ write = NoChange
<1>1. mode = "down" /\ UNCHANGED <<disk, write, reply>> /\ write = NoChange
  BY DEF StartStore, KeyInv, FileFollows
<1>2. CASE mode' = "static" /\ keys' = NoKeys
  BY <1>1, <1>2, NoKeysWellFormed, NoChangeIsIdle DEF KeyInv, KeyShape, FileFollows, AllWellFormed
<1>3. CASE mode' = "hybrid" /\ Loads(disk.file) /\ keys' = disk.file
  BY <1>1, <1>3, NoChangeIsIdle DEF KeyInv, KeyShape, FileFollows, AllWellFormed
<1> QED BY <1>1, <1>2, <1>3 DEF StartStore
-----------------------------------------------------------------------------
LEMMA KeyInvSteps == KeyInv /\ [KeysNext]_keyVars => KeyInv'
<1> SUFFICES ASSUME KeyInv, [KeysNext]_keyVars PROVE KeyInv'
  OBVIOUS
<1>1. ASSUME NEW c \in KeyCallers,
             \/ \E key \in PageKey : Create(c, key)
             \/ \E i \in KeyIds \cup ConfigNames :
                  Remove(c, i) \/ \E expected \in Creators, person \in Creators \ {Nobody} : Adopt(c, i, expected, person)
      PROVE  KeyInv'
  BY <1>1, ChangeTriesOrRefuses, TriesKeeps, RefusesKeeps
<1>2. CASE KillStore \/ PowerLossStore
  BY <1>2, GoesDownKeeps DEF KillStore, PowerLossStore
<1>3. CASE UNCHANGED keyVars
  BY <1>3 DEF keyVars, KeyInv, KeyShape, FileFollows, AllWellFormed, WellFormed
<1> QED
  BY <1>1, <1>2, <1>3, SyncTempKeeps, RenameKeeps, SyncDirectoryKeeps, WriteFailsKeeps, PublishKeeps, StartStoreKeeps
  DEF KeysNext

(* OnlySizeIsRefused: whatever the path can name after a crash is a whole    *)
(* file with not too many keys and no name twice, so that the constructor    *)
(* refuses it for its size or not at all.                                    *)
THEOREM OnlySizeIsRefusedAlways == KeysSpec => []OnlySizeIsRefused
<1>1. KeyInv => OnlySizeIsRefused
  BY DEF KeyInv, AllWellFormed, OnlySizeIsRefused
<1> QED BY <1>1, KeyInvStarts, KeyInvSteps, PTL DEF KeysSpec
-----------------------------------------------------------------------------
(* The refinement.  The change of the set that a state tries.                *)
Tried == IF write = NoChange THEN InForce ELSE write.next

LEMMA KeySetStarts == KeysInit => KeySets!Init
<1> SUFFICES ASSUME KeysInit PROVE KeySets!Init
  OBVIOUS
<1>1. InForce = NoKeys /\ disk.survivors = {NoKeys} /\ Tried = NoKeys
  BY DEF KeysInit, InForce, Tried
<1>2. reply \in [KeyCallers -> {"none"}]
  BY DEF KeysInit
<1> QED BY <1>1, <1>2, NoKeysWellFormed DEF KeySets!Init, Tried

(* A step of the abstract set, in the words of the store.                    *)
LEMMA SetSteps ==
  ASSUME \/ UNCHANGED <<InForce, Tried, disk, reply>>
         \/ /\ Tried = InForce /\ Tried' \in KeyFiles
            /\ UNCHANGED <<InForce, disk, reply>>
         \/ /\ disk'.survivors \in SUBSET (disk.survivors \cup {Tried}) /\ disk'.survivors # {}
            /\ UNCHANGED <<InForce, Tried, reply>>
         \/ \E c \in KeyCallers : /\ Tried \in disk.survivors /\ InForce' = Tried
                                  /\ reply' = [reply EXCEPT ![c] = "ok"]
                                  /\ UNCHANGED <<Tried, disk>>
         \/ \E c \in KeyCallers, why \in Refusals : /\ Tried' = InForce
                                                    /\ reply' = [reply EXCEPT ![c] = why]
                                                    /\ UNCHANGED <<InForce, disk>>
         \/ /\ InForce' \in {InForce, Tried} /\ Tried' = InForce'
            /\ reply' = [c \in KeyCallers |-> "none"] /\ UNCHANGED disk
         \/ /\ InForce' \in disk.survivors /\ Tried' = InForce' /\ disk'.survivors = {InForce'}
            /\ reply' = [c \in KeyCallers |-> "none"]
  PROVE  [KeySets!Next]_(KeySets!setVars)
BY DEF KeySets!setVars, KeySets!Next, KeySets!Try, KeySets!Settle, KeySets!Do, KeySets!Refuse,
       KeySets!Kill, KeySets!PowerLoss, Tried

LEMMA KeySetSteps == KeyInv /\ [KeysNext]_keyVars => [KeySets!Next]_(KeySets!setVars)
<1> SUFFICES ASSUME KeyInv, [KeysNext]_keyVars PROVE [KeySets!Next]_(KeySets!setVars)
  OBVIOUS
<1>1. ASSUME NEW c \in KeyCallers,
             \/ \E key \in PageKey : Create(c, key)
             \/ \E i \in KeyIds \cup ConfigNames :
                  Remove(c, i) \/ \E expected \in Creators, person \in Creators \ {Nobody} : Adopt(c, i, expected, person)
      PROVE  [KeySets!Next]_(KeySets!setVars)
  <2>0. ChangesKeys(c)
    BY <1>1, ChangeTriesOrRefuses
  <2>1. CASE mode # "static" /\ \E next \in KeyFiles : WellFormed(next) /\ Tries(c, next)
    <3>1. PICK next \in KeyFiles : WellFormed(next) /\ Tries(c, next)
      BY <2>1
    <3>2. write = NoChange /\ write'.step = "temp" /\ write'.next = next /\ UNCHANGED <<mode, keys, disk, reply>>
      BY <2>0, <3>1 DEF ChangesKeys, Tries
    <3>3. write' # NoChange
      BY <3>2, NoChangeIsIdle
    <3> QED BY <3>2, <3>3, SetSteps DEF InForce, Tried
  <2>2. ASSUME NEW why \in Refusals, Refuses(c, why) PROVE [KeySets!Next]_(KeySets!setVars)
    <3>1. write = NoChange /\ UNCHANGED <<mode, keys, disk, write>> /\ reply' = [reply EXCEPT ![c] = why]
      BY <2>0, <2>2 DEF ChangesKeys, Refuses
    <3>2. Tried' = InForce /\ UNCHANGED <<InForce, disk>>
      BY <3>1 DEF InForce, Tried
    <3> QED BY <3>1, <3>2, <2>2, SetSteps
  <2> QED BY <1>1, <2>1, <2>2, ChangeTriesOrRefuses
<1>2. CASE SyncTemp
  <2>1. Writing("temp") /\ UNCHANGED <<mode, keys, disk, reply>> /\ write' = [write EXCEPT !.step = "synced"]
    BY <1>2 DEF SyncTemp, Moves
  <2>2. write # NoChange /\ write' # NoChange /\ write'.next = write.next
    BY <2>1, WritingFacts
  <2> QED BY <2>1, <2>2, SetSteps DEF InForce, Tried
<1>3. CASE Rename
  <2>1. /\ Writing("synced") /\ UNCHANGED <<mode, keys, reply>> /\ write' = [write EXCEPT !.step = "renamed"]
        /\ disk'.survivors = disk.survivors \cup {write.next}
    BY <1>3 DEF Rename, Moves
  <2>2. write # NoChange /\ write' # NoChange /\ write'.next = write.next /\ mode = "hybrid"
    BY <2>1, WritingFacts
  <2>3. UNCHANGED <<InForce, Tried>> /\ Tried = write.next
    BY <2>1, <2>2 DEF InForce, Tried
  <2> QED BY <2>1, <2>3, SetSteps
<1>4. CASE SyncDirectory
  <2>1. /\ Writing("renamed") /\ UNCHANGED <<mode, keys, reply>> /\ write' = [write EXCEPT !.step = "settled"]
        /\ disk' = [disk EXCEPT !.survivors = {disk.file}] \/ disk' = disk
    BY <1>4 DEF SyncDirectory, Moves
  <2>2. write # NoChange /\ write' # NoChange /\ write'.next = write.next /\ mode = "hybrid"
    BY <2>1, WritingFacts
  <2>3. UNCHANGED <<InForce, Tried>>
    BY <2>1, <2>2 DEF InForce, Tried
  <2>4. disk'.survivors \in SUBSET disk.survivors /\ disk'.survivors # {}
    BY <2>1 DEF KeyInv, KeyShape, FileFollows
  <2> QED BY <2>1, <2>3, <2>4, SetSteps
<1>5. CASE WriteFails
  <2>1. UNCHANGED <<mode, keys, disk>> /\ write' = NoChange /\ reply' = [reply EXCEPT ![write.by] = "storage_error"]
    BY <1>5 DEF WriteFails
  <2>2. Tried' = InForce /\ UNCHANGED <<InForce, disk>> /\ write.by \in KeyCallers /\ "storage_error" \in Refusals
    BY <1>5, <2>1, WriteFailsKeeps DEF InForce, Tried, Refusals
  <2> QED BY <2>1, <2>2, SetSteps
<1>6. CASE Publish
  <2>1. /\ Writing("settled") /\ UNCHANGED <<mode, disk>> /\ write' = NoChange /\ keys' = write.next
        /\ reply' = [reply EXCEPT ![write.by] = "ok"]
    BY <1>6 DEF Publish
  <2>2. mode = "hybrid" /\ write # NoChange /\ write.by \in KeyCallers /\ write.step = "settled"
    BY <2>1, WritingFacts
  <2>3. write.next \in disk.survivors
    BY <2>2 DEF KeyInv, FileFollows
  <2>4. Tried = write.next /\ InForce' = write.next /\ Tried' = write.next
    BY <2>1, <2>2 DEF InForce, Tried
  <2> QED BY <2>1, <2>2, <2>3, <2>4, SetSteps
<1>7. CASE GoesDown /\ (disk' = disk \/ \E found \in disk.survivors : disk' = [file |-> found, survivors |-> {found}])
  <2>1. mode' = "down" /\ write' = NoChange /\ reply' = [c \in KeyCallers |-> "none"]
    BY <1>7 DEF GoesDown
  <2>2. InForce' = disk'.file /\ Tried' = InForce'
    BY <2>1 DEF InForce, Tried
  <2>3. disk.file \in {InForce, Tried}
    <3>1. CASE mode # "hybrid"
      BY <3>1 DEF InForce
    <3>2. CASE mode = "hybrid" /\ write = NoChange
      BY <3>2, NoChangeIsIdle DEF KeyInv, FileFollows, InForce
    <3>3. CASE mode = "hybrid" /\ write \in KeyWrites /\ write # NoChange
      BY <3>3 DEF KeyInv, FileFollows, InForce, Tried, KeyWrites
    <3> QED BY <3>1, <3>2, <3>3 DEF KeyInv, KeyShape
  <2>4. CASE disk' = disk
    BY <2>1, <2>2, <2>3, <2>4, SetSteps
  <2>5. ASSUME NEW found \in disk.survivors, disk' = [file |-> found, survivors |-> {found}]
        PROVE  [KeySets!Next]_(KeySets!setVars)
    BY <2>1, <2>2, <2>5, SetSteps
  <2> QED BY <1>7, <2>4, <2>5
<1>8. CASE StartStore
  <2>1. UNCHANGED <<disk, write, reply>> /\ write = NoChange /\ InForce' = disk.file /\ InForce = disk.file
    BY <1>8, StartStoreKeeps DEF StartStore, InForce
  <2> QED BY <2>1, SetSteps DEF Tried
<1>9. CASE UNCHANGED keyVars
  BY <1>9, SetSteps DEF keyVars, InForce, Tried
<1> QED
  BY <1>1, <1>2, <1>3, <1>4, <1>5, <1>6, <1>7, <1>8, <1>9 DEF KeysNext, KillStore, PowerLossStore

(* KeySetIsAtomic: the vector and the file implement the atomic set, for any *)
(* sets of keys and callers and any number of crashes.                       *)
THEOREM StoreImplementsKeySet == KeysSpec => KeySetIsAtomic
BY KeyInvStarts, KeyInvSteps, KeySetStarts, KeySetSteps, PTL DEF KeysSpec, KeySetIsAtomic, KeySets!Spec
-----------------------------------------------------------------------------
(* How old what the server has of the PDP can be.                            *)
Words   == {"allow", "deny", "gone", "failed"}
AskedMoments == Asked \cup {"gone"}

(* An answer that grants or that does not know the creator was true n ticks  *)
(* ago at most.                                                              *)
Recent(q, a, n, s) == (a = "allow" => s[q] <= n) /\ (a = "gone" => s["gone"] <= n)

CacheOK(c, s) ==
  /\ \A q \in Asked : c[q].left > 0 => c[q].answer \in {"allow", "deny", "gone"} /\ Recent(q, c[q].answer, Timeout + TTL - c[q].left, s)
  /\ c[Use].left > 0 => c[Use].answer \in {"free", "spent"} /\ (c[Use].answer = "free" => s[UseQuestion] <= UseTimeout + TTL - c[Use].left)

KeptOK(k, s) == k.left > 0 /\ k.gone => s["gone"] <= AnswerAge + TTL - k.left

(* A decision: what waits or is on the way has failed so far, and the way of *)
(* all its requests ends with the deadline, which counts from the metadata.  *)
OnTheWay(t) ==
  /\ t.chunk # {} /\ t.chunk \cap t.todo = {} /\ \A q \in t.chunk \cup t.todo : t.out[q] = "failed"
  /\ IF t.split THEN Asking(t) + t.limit <= BatchTimeout + t.waited ELSE Asking(t) = t.waited /\ t.todo = {}

ForMetadata(t) == t.total = t.waited /\ t.waited <= MetadataTime

Decided(t, s) == \A q \in QuestionsOf(t.goal) : Recent(q, t.out[q], Timeout + TTL + t.total, s)

UseIs(t, s) ==
  /\ t.use # "none" /\ t.units = IF t.use \in {"paid", "unmetered"} THEN 1 ELSE 0
  /\ t.use \in {"paid", "free"} => s[UseQuestion] <= t.waited

ForUse(t) == t.pc \in {"use", "useMetadata", "useSent", "useAnswered"}

ThreadOK(t, s) ==
  \/ t.pc = "idle"
  \/ /\ t \in Running
     /\ IF t.pc = "useAnswered" THEN UseIs(t, s) ELSE t.units = 0
     /\ t.pc \notin {"useSent", "useAnswered"} => t.limit <= Timeout
     /\ t.pc \in {"state", "decide", "use"} => t.total = 0 /\ t.waited = 0
     /\ t.pc \in {"metadata", "useMetadata"} => ForMetadata(t)
     /\ t.pc = "metadata" => t.todo # {} /\ \A q \in t.todo : t.out[q] = "failed"
     /\ t.pc \in {"sent", "answered"} => OnTheWay(t)
     /\ t.pc = "answered" => \A q \in t.chunk : t.got[q] # "failed" /\ Recent(q, t.got[q], t.waited, s)
     /\ t.pc \in {"metadata", "sent", "answered", "conclude"} => Decided(t, s)
     /\ t.pc = "conclude" => t.total <= MetadataTime + BatchTimeout \/ \E q \in Asked : t.out[q] = "failed"
     /\ ForUse(t) => \A q \in Asked \ {UseQuestion} : s[q] <= AnswerAge + t.total
     /\ t.pc \in {"useSent", "useAnswered"} => t.total = t.meta + t.waited

PolicyInv ==
  /\ PolicyTypeOK
  /\ thread = [r \in Requests |-> thread[r]]
  /\ \A x \in AskedMoments : True(policy, x) => since[x] = 0
  /\ CacheOK(cache, since)
  /\ KeptOK(kept, since)
  /\ \A r \in Requests : ThreadOK(thread[r], since)
-----------------------------------------------------------------------------
LEMMA LowerOfTwo ==
  ASSUME NEW a \in Int, NEW b \in Int
  PROVE  Min({a, b}) \in {a, b} /\ Min({a, b}) <= a /\ Min({a, b}) <= b
<1>1. \E x \in {a, b} : \A y \in {a, b} : x <= y
  <2>1. CASE a <= b
    BY <2>1
  <2>2. CASE b <= a
    BY <2>2
  <2> QED BY <2>1, <2>2
<1> QED BY <1>1 DEF Min

LEMMA PartOfSize ==
  ASSUME NEW S, IsFiniteSet(S), NEW k \in Nat, k <= Cardinality(S)
  PROVE  \E T \in SUBSET S : Cardinality(T) = k
<1>1. PICK n \in Nat : n = Cardinality(S)
  BY FS_CardinalityType
<1>2. PICK f : f \in Bijection(1..n, S)
  BY <1>1, FS_CardinalityType DEF ExistsBijection
<1>3. f \in [1..n -> S] /\ \A i, j \in 1..n : f[i] = f[j] => i = j
  BY <1>2 DEF Bijection, Injection, IsInjective
<1> DEFINE T == {f[i] : i \in 1..k}
           g == [i \in 1..k |-> f[i]]
<1>4. 1..k \subseteq 1..n /\ T \in SUBSET S
  BY <1>1, <1>3
<1>5. g \in [1..k -> T] /\ (\A i, j \in 1..k : g[i] = g[j] => i = j) /\ \A t \in T : \E i \in 1..k : g[i] = t
  BY <1>3, <1>4
<1> HIDE DEF g, T
<1>6. g \in Bijection(1..k, T)
  BY <1>5 DEF Bijection, Injection, Surjection, IsInjective
<1>7. Cardinality(T) = k
  BY <1>6, FS_CountingElements DEF ExistsBijection
<1> QED BY <1>4, <1>7

(* The questions of the next request: some, or all when that many may go.    *)
LEMMA ChunkIsPart ==
  ASSUME NEW todo \in SUBSET Asked, todo # {}, NEW c, c = CHOOSE s \in SUBSET todo : Cardinality(s) = Min({MaxItems, Cardinality(todo)})
  PROVE  c \in SUBSET todo /\ c # {} /\ (Cardinality(todo) <= MaxItems => c = todo)
<1>1. IsFiniteSet(todo)
  BY PolicyAssumption, FS_Subset
<1>2. PICK n \in Nat : n = Cardinality(todo)
  BY <1>1, FS_CardinalityType
<1>3. n # 0 /\ MaxItems \in Nat /\ MaxItems # 0
  BY <1>1, <1>2, FS_EmptySet, PolicyAssumption
<1>4. PICK k : k = Min({MaxItems, n})
  OBVIOUS
<1>5. k \in {MaxItems, n} /\ k <= MaxItems /\ k <= n /\ k \in Nat /\ k # 0
  <2>1. MaxItems \in Int /\ n \in Int
    BY <1>3
  <2>2. k \in {MaxItems, n} /\ k <= MaxItems /\ k <= n
    BY <1>4, <2>1, LowerOfTwo
  <2> QED BY <1>3, <2>2
<1>6. \E s \in SUBSET todo : Cardinality(s) = k
  <2>1. k <= Cardinality(todo)
    BY <1>2, <1>5
  <2> QED BY <1>1, <1>5, <2>1, PartOfSize
<1>7. c \in SUBSET todo /\ Cardinality(c) = k
  BY <1>2, <1>4, <1>6
<1>8. c # {}
  BY <1>5, <1>7, FS_EmptySet
<1>9. ASSUME n <= MaxItems PROVE c = todo
  <2>1. Cardinality(c) = Cardinality(todo)
    BY <1>2, <1>3, <1>5, <1>7, <1>9
  <2> QED BY <1>1, <1>7, <2>1, FS_Subset
<1> QED BY <1>2, <1>7, <1>8, <1>9
-----------------------------------------------------------------------------
(* The next request of a decision, or its end.                               *)
LEMMA AsksGoesOn ==
  ASSUME NEW t \in Running, NEW s \in [AskedMoments -> Nat], t.units = 0, Decided(t, s), \A q \in t.todo : t.out[q] = "failed",
         t.limit <= Timeout, t.todo = {} => t.total <= MetadataTime + BatchTimeout \/ \E q \in Asked : t.out[q] = "failed",
         t.todo # {} /\ ~t.split => Asking(t) = 0 /\ Cardinality(t.todo) <= MaxItems
  PROVE  ThreadOK(Asks(t), s) /\ Asks(t).pc # "idle"
<1>0. /\ t.todo \in SUBSET Asked /\ t.total \in Nat /\ Timeout \in Nat /\ BatchTimeout \in Nat /\ Fails \in [Asked -> Words]
      /\ UseQuestion \in Asked /\ t.meta \in Nat /\ UseTimeout \in Nat /\ Timeout <= UseTimeout
  BY PolicyAssumption DEF Running, Fails, Words
<1> DEFINE a == t.total - t.meta
<1>a. a \in Int /\ Asking(t) = a
  BY <1>0 DEF Asking
<1>1. CASE t.todo = {}
  <2> DEFINE x == [t EXCEPT !.pc = "conclude"]
  <2>1. /\ x \in Running /\ x.pc = "conclude" /\ x.units = 0 /\ x.goal = t.goal /\ x.out = t.out /\ x.total = t.total
        /\ x.limit = t.limit
    BY DEF Running
  <2>2. Asks(t) = x
    BY <1>1 DEF Asks
  <2> HIDE DEF x
  <2>3. Decided(x, s)
    BY <2>1 DEF Decided
  <2> QED BY <1>1, <2>1, <2>2, <2>3 DEF ThreadOK, ForUse
<1>2. CASE t.todo # {} /\ t.split /\ a >= BatchTimeout
  <2> DEFINE x == [t EXCEPT !.pc = "conclude", !.out = Fails, !.todo = {}]
  <2>1. x \in Running /\ x.pc = "conclude" /\ x.units = 0 /\ x.out = Fails /\ x.limit = t.limit
    BY <1>0 DEF Running, Words
  <2>2. Asks(t) = x
    BY <1>2, <1>a DEF Asks, DeadlinePassed
  <2> HIDE DEF x
  <2>3. Decided(x, s) /\ x.out[UseQuestion] = "failed"
    BY <1>0, <2>1 DEF Decided, Fails, Recent, QuestionsOf
  <2> QED BY <1>0, <2>1, <2>2, <2>3 DEF ThreadOK, ForUse
<1>3. CASE t.todo # {} /\ ~(t.split /\ a >= BatchTimeout)
  <2> DEFINE c == CHOOSE z \in SUBSET t.todo : Cardinality(z) = Min({MaxItems, Cardinality(t.todo)})
             lim == IF t.split THEN Min({Timeout, BatchTimeout - a}) ELSE Timeout
             x == [t EXCEPT !.pc = "sent", !.chunk = c, !.todo = @ \ c, !.waited = 0, !.limit = lim]
  <2>1. c \in SUBSET t.todo /\ c # {} /\ (Cardinality(t.todo) <= MaxItems => c = t.todo)
    BY <1>0, <1>3, ChunkIsPart
  <2>2. lim \in 0..Timeout /\ (t.split => a + lim <= BatchTimeout)
    <3>1. CASE t.split
      <4>1. PICK d \in Nat : d = BatchTimeout - a
        BY <1>0, <1>a, <1>3, <3>1
      <4>2. lim = Min({Timeout, d})
        BY <3>1, <4>1
      <4>3. Timeout \in Int /\ d \in Int
        BY <1>0
      <4>4. lim \in {Timeout, d} /\ lim <= Timeout /\ lim <= d
        BY <4>2, <4>3, LowerOfTwo
      <4> HIDE DEF lim
      <4> QED BY <1>0, <1>a, <4>1, <4>4
    <3> QED BY <1>0, <3>1
  <2>3. Asks(t) = x
    BY <1>3, <1>a DEF Asks, DeadlinePassed
  <2> HIDE DEF c, lim, a
  <2>4. /\ x.pc = "sent" /\ x.chunk = c /\ x.todo = t.todo \ c /\ x.waited = 0 /\ x.limit = lim /\ x.units = 0
        /\ x.out = t.out /\ x.goal = t.goal /\ x.total = t.total /\ x.split = t.split /\ x.meta = t.meta
    BY DEF Running
  <2>5. x \in Running
    <3>1. c \in SUBSET Asked /\ t.todo \ c \in SUBSET Asked /\ 0 \in 0..(UseTimeout + 1) /\ lim \in 0..UseTimeout
      BY <1>0, <2>1, <2>2
    <3> QED BY <3>1 DEF Running
  <2>a. Asking(x) = a
    BY <1>a, <2>4 DEF Asking
  <2> HIDE DEF x
  <2>6. Decided(x, s)
    BY <2>4 DEF Decided
  <2>7. OnTheWay(x)
    <3>1. x.chunk # {} /\ x.chunk \cap x.todo = {} /\ \A q \in x.chunk \cup x.todo : x.out[q] = "failed"
      BY <2>1, <2>4
    <3>2. CASE x.split
      <4>1. a + x.limit <= BatchTimeout + x.waited
        BY <1>0, <1>a, <2>2, <2>4, <3>2
      <4> QED BY <2>a, <3>1, <3>2, <4>1 DEF OnTheWay
    <3>3. CASE ~x.split
      BY <1>3, <1>a, <2>1, <2>4, <2>a, <3>1, <3>3 DEF OnTheWay
    <3> QED BY <3>2, <3>3
  <2>8. x.limit <= Timeout
    BY <1>0, <2>2, <2>4
  <2> QED BY <2>3, <2>4, <2>5, <2>6, <2>7, <2>8 DEF ThreadOK, ForUse
<1> QED BY <1>1, <1>2, <1>3
-----------------------------------------------------------------------------
(* What the PDP answers by its policy, and what the cache keeps of it.       *)
Answered(r, w) ==
  /\ w = "ran" => /\ \A q \in Asked : since[q] <= AnswerAge + MetadataTime + UseTimeout
                  /\ thread[r].units = 1 \/ "free" \in {thread[r].use, cache[Use].answer}
  /\ w \in {"401", "adoptable"} => since["gone"] <= AnswerAge + TTL
  /\ w = "denied" => thread[r].units = 0

RightAnswers == \A r \in Requests : ~At(r, "idle") /\ thread'[r].pc = "idle" => Answered(r, thread'[r].reply)

Caches == [CacheKeys -> [answer : {"none", "allow", "deny", "gone", "free", "spent"}, left : 0..TTL]]
States == [gone : BOOLEAN, left : 0..TTL]

LEMMA PolicyTypes ==
  ASSUME PolicyInv
  PROVE  /\ since \in [AskedMoments -> Nat] /\ cache \in Caches /\ kept \in States
         /\ TTL \in Nat /\ Timeout \in Nat /\ BatchTimeout \in Nat /\ Timeout <= BatchTimeout /\ UseQuestion \in Asked
         /\ UseTimeout \in Nat /\ Timeout <= UseTimeout /\ MetadataTime = Timeout + 1
         /\ AnswerAge = Timeout + TTL + MetadataTime + BatchTimeout
         /\ "gone" \notin Asked /\ Use \notin Asked /\ CacheKeys = Asked \cup {Use}
<1>1. since \in [AskedMoments -> 0..Horizon] /\ 0..Horizon \subseteq Nat
  BY PolicyAssumption DEF PolicyInv, PolicyTypeOK, AskedMoments
<1>2. "gone" \notin Asked /\ Use \notin Asked
  BY PolicyAssumption DEF Use
<1> QED BY <1>1, <1>2, PolicyAssumption DEF PolicyInv, PolicyTypeOK, Caches, States, AnswerAge, MetadataTime, CacheKeys

(* A step of one request.                                                    *)
LEMMA RequestSteps ==
  ASSUME PolicyInv, NEW r \in Requests, NEW t, Goto(r, t), ThreadOK(t, since), t.pc = "idle" => Answered(r, t.reply),
         UNCHANGED <<policy, since>>, count' \in [requests : 0..MaxRequests, changes : 0..MaxChanges],
         NEW c \in Caches, cache' = c, CacheOK(c, since), NEW k \in States, kept' = k, KeptOK(k, since)
  PROVE  PolicyInv' /\ RightAnswers
<1>1. thread' = [thread EXCEPT ![r] = t] /\ thread = [q \in Requests |-> thread[q]]
  BY DEF Goto, PolicyInv
<1>2. PICK th : th = thread'
  OBVIOUS
<1>3. th = [q \in Requests |-> th[q]] /\ th[r] = t /\ \A q \in Requests \ {r} : th[q] = thread[q]
  BY <1>1, <1>2
<1>4. \A q \in Requests : ThreadOK(th[q], since) /\ (th[q].pc = "idle" \/ th[q] \in Running)
  BY <1>3 DEF PolicyInv, ThreadOK
<1>5. PolicyTypeOK'
  BY <1>2, <1>4 DEF PolicyInv, PolicyTypeOK, Caches, States
<1>6. PolicyInv'
  BY <1>2, <1>3, <1>4, <1>5 DEF PolicyInv
<1>7. RightAnswers
  BY <1>2, <1>3 DEF RightAnswers, At
<1> QED BY <1>6, <1>7

LEMMA RequestGoesOn ==
  ASSUME PolicyInv, NEW r \in Requests, NEW t, Goto(r, t), ThreadOK(t, since), t.pc = "idle" => Answered(r, t.reply),
         UNCHANGED <<policy, since, cache, kept, count>>
  PROVE  PolicyInv' /\ RightAnswers
<1>1. cache \in Caches /\ CacheOK(cache, since) /\ kept \in States /\ KeptOK(kept, since)
      /\ count' \in [requests : 0..MaxRequests, changes : 0..MaxChanges]
  BY PolicyTypes DEF PolicyInv, PolicyTypeOK
<1> QED BY <1>1, RequestSteps

LEMMA BeginIsOK ==
  ASSUME NEW pc \in {"state", "decide", "use"}, NEW goal \in {"state", "others", "adopt"}, NEW s,
         pc = "use" => \A q \in Asked \ {UseQuestion} : s[q] <= AnswerAge + 0
  PROVE  ThreadOK(Begin(pc, goal), s) /\ Begin(pc, goal).pc # "idle"
<1>1. Fails \in [Asked -> Words] /\ Timeout \in 0..UseTimeout /\ 0 \in 0..(UseTimeout + 1) /\ 0 \in 0..(Timeout + 1) /\ Timeout <= Timeout
  BY PolicyAssumption DEF Fails, Words
<1> DEFINE x == Begin(pc, goal)
<1>2. x \in Running
  BY <1>1 DEF Begin, Running, Words
<1>3. x.pc = pc /\ x.units = 0 /\ x.total = 0 /\ x.waited = 0 /\ x.limit = Timeout
  BY DEF Begin
<1> HIDE DEF x
<1>4. ThreadOK(x, s) /\ x.pc # "idle"
  BY <1>1, <1>2, <1>3 DEF ThreadOK, ForUse
<1> QED BY <1>4 DEF x

LEMMA ActsRight ==
  ASSUME PolicyInv, NEW r \in Requests, NEW goal, NEW status, ActsOn(r, goal, status),
         status = "gone" => since["gone"] <= AnswerAge + TTL
  PROVE  \E t : Goto(r, t) /\ ThreadOK(t, since) /\ (t.pc = "idle" => Answered(r, t.reply))
<1>1. \A w : Idle(w).pc = "idle" /\ Idle(w).reply = w /\ ThreadOK(Idle(w), since)
  BY DEF Idle, ThreadOK
<1>2. ASSUME NEW w, Goto(r, Idle(w)), w \in {"401", "adoptable"} => since["gone"] <= AnswerAge + TTL, w \notin {"ran", "denied"}
      PROVE  \E t : Goto(r, t) /\ ThreadOK(t, since) /\ (t.pc = "idle" => Answered(r, t.reply))
  BY <1>1, <1>2 DEF Answered
<1>3. CASE status = "gone" /\ (Goto(r, Idle("401")) \/ Goto(r, Idle("adoptable")))
  BY <1>2, <1>3
<1>4. CASE Goto(r, Idle("503")) \/ Goto(r, Idle("not_adoptable"))
  BY <1>2, <1>4
<1>5. CASE Goto(r, Begin("decide", "others"))
  <2>1. ThreadOK(Begin("decide", "others"), since) /\ Begin("decide", "others").pc # "idle"
    BY BeginIsOK
  <2> QED BY <1>5, <2>1
<1> QED BY <1>3, <1>4, <1>5 DEF ActsOn
-----------------------------------------------------------------------------
(* The steps of a request.                                                   *)
LEMMA ComesRight ==
  ASSUME PolicyInv, NEW r \in Requests, CallTool(r) \/ Forget(r)
  PROVE  PolicyInv' /\ RightAnswers
<1>1. count' \in [requests : 0..MaxRequests, changes : 0..MaxChanges]
  <2>1. PICK n \in 0..MaxRequests, m \in 0..MaxChanges : count = [requests |-> n, changes |-> m] /\ n < MaxRequests
    BY DEF PolicyInv, PolicyTypeOK, CallTool, Forget, Comes
  <2>2. count' = [requests |-> n + 1, changes |-> m]
    BY <2>1 DEF CallTool, Forget, Comes
  <2>3. n + 1 \in 0..MaxRequests
    BY <2>1, PolicyAssumption
  <2> QED BY <2>2, <2>3
<1>2. NoState \in States /\ KeptOK(NoState, since)
  BY PolicyTypes DEF NoState, States, KeptOK
<1>3. /\ UNCHANGED <<policy, since>> /\ cache' = cache /\ kept' \in {kept, NoState}
      /\ \E goal \in {"state", "adopt"} : Goto(r, Begin("state", goal))
  BY DEF CallTool, Forget
<1>4. PICK goal \in {"state", "adopt"} : Goto(r, Begin("state", goal))
  BY <1>3
<1>5. ThreadOK(Begin("state", goal), since) /\ Begin("state", goal).pc # "idle"
  BY BeginIsOK
<1>6. cache \in Caches /\ CacheOK(cache, since) /\ kept \in States /\ KeptOK(kept, since)
  BY PolicyTypes DEF PolicyInv
<1> QED BY <1>1, <1>2, <1>3, <1>4, <1>5, <1>6, RequestSteps

LEMMA LookUpRight == ASSUME PolicyInv, NEW r \in Requests, LookUp(r) PROVE PolicyInv' /\ RightAnswers
<1>1. UNCHANGED <<policy, since, cache, kept, count>>
  BY DEF LookUp
<1>2. CASE kept.left > 0 /\ ActsOn(r, thread[r].goal, IF kept.gone THEN "gone" ELSE "active")
  <2>1. kept.gone => since["gone"] <= AnswerAge + TTL
    <3>1. kept.left \in Nat /\ since["gone"] \in Nat
      BY PolicyTypes DEF States, AskedMoments
    <3> QED BY <1>2, <3>1, PolicyTypes DEF PolicyInv, KeptOK
  <2>2. PICK t : Goto(r, t) /\ ThreadOK(t, since) /\ (t.pc = "idle" => Answered(r, t.reply))
    BY <1>2, <2>1, ActsRight
  <2> QED BY <1>1, <2>2, RequestGoesOn
<1>3. CASE Goto(r, Begin("decide", thread[r].goal))
  <2>1. thread[r].goal \in {"state", "others", "adopt"}
    BY DEF LookUp, At, PolicyInv, ThreadOK, Running
  <2>2. ThreadOK(Begin("decide", thread[r].goal), since) /\ Begin("decide", thread[r].goal).pc # "idle"
    BY <2>1, BeginIsOK
  <2> QED BY <1>1, <1>3, <2>2, RequestGoesOn
<1> QED BY <1>2, <1>3 DEF LookUp

LEMMA GoneIsSaid ==
  ASSUME NEW out, Status(out) = "gone"
  PROVE  (\A q \in Asked : out[q] # "failed") /\ \E q \in Asked : out[q] = "gone"
<1> DEFINE a == \E q \in Asked : out[q] = "failed"
           b == (\A q \in Asked : out[q] \notin {"allow", "failed"}) /\ \E q \in Asked : out[q] = "gone"
<1>1. Status(out) = CASE a -> "failed" [] b -> "gone" [] OTHER -> "active"
  BY DEF Status
<1>2. a => ~b
  OBVIOUS
<1> HIDE DEF a, b
<1>3. ~a /\ b
  BY <1>1, <1>2
<1> QED BY <1>3 DEF a, b

LEMMA ConcludesRight == ASSUME PolicyInv, NEW r \in Requests, Concludes(r) PROVE PolicyInv' /\ RightAnswers
<1> DEFINE t == thread[r]
<1>1. /\ UNCHANGED <<policy, since, cache, count>> /\ t.pc = "conclude" /\ t.goal \in {"state", "adopt"}
      /\ ActsOn(r, t.goal, Status(t.out))
  BY DEF Concludes, At
<1>2. /\ t \in Running /\ Decided(t, since) /\ QuestionsOf(t.goal) = Asked
      /\ t.total <= MetadataTime + BatchTimeout \/ \E q \in Asked : t.out[q] = "failed"
  BY <1>1 DEF PolicyInv, ThreadOK, QuestionsOf
<1>3. t.total \in Nat /\ since["gone"] \in Nat
  BY <1>2, PolicyTypes DEF Running, AskedMoments
<1>4. ASSUME Status(t.out) = "gone" PROVE since["gone"] <= Timeout + TTL + t.total /\ t.total <= MetadataTime + BatchTimeout
  <2> DEFINE o == t.out
  <2>1. (\A q \in Asked : o[q] # "failed") /\ \E q \in Asked : o[q] = "gone"
    BY <1>4, GoneIsSaid
  <2>2. PICK q \in Asked : t.out[q] = "gone"
    BY <2>1
  <2>3. Recent(q, t.out[q], Timeout + TTL + t.total, since)
    BY <1>2 DEF Decided
  <2>4. since["gone"] <= Timeout + TTL + t.total
    BY <2>2, <2>3 DEF Recent
  <2>5. t.total <= MetadataTime + BatchTimeout
    BY <1>2, <2>1
  <2> QED BY <2>4, <2>5
<1> DEFINE x == IF t.total < TTL THEN [gone |-> Status(t.out) = "gone", left |-> TTL - t.total] ELSE NoState
<1>5. x \in States /\ KeptOK(x, since)
  <2>1. CASE t.total < TTL
    <3>1. TTL - t.total \in 0..TTL
      BY <1>3, <2>1, PolicyTypes
    <3>2. PICK g \in BOOLEAN : g = (Status(t.out) = "gone")
      OBVIOUS
    <3>3. x = [gone |-> g, left |-> TTL - t.total]
      BY <2>1, <3>2
    <3>4. x.gone = g /\ x.left = TTL - t.total /\ x \in States
      BY <3>1, <3>3 DEF States
    <3>5. g => since["gone"] <= Timeout + TTL + t.total /\ t.total <= MetadataTime + BatchTimeout
      BY <1>4, <3>2
    <3> HIDE DEF x
    <3>6. x.gone => since["gone"] <= AnswerAge + TTL - x.left
      <4>1. g => since["gone"] <= AnswerAge + TTL - (TTL - t.total)
        BY <1>3, <3>5, PolicyTypes
      <4> QED BY <3>4, <4>1
    <3>7. KeptOK(x, since)
      BY <3>6 DEF KeptOK
    <3> QED BY <3>4, <3>7
  <2>2. CASE ~(t.total < TTL)
    BY <2>2, PolicyTypes DEF NoState, States, KeptOK
  <2> QED BY <2>1, <2>2
<1>6. Status(t.out) = "gone" => since["gone"] <= AnswerAge + TTL
  BY <1>3, <1>4, PolicyTypes
<1>7. PICK v : Goto(r, v) /\ ThreadOK(v, since) /\ (v.pc = "idle" => Answered(r, v.reply))
  BY <1>1, <1>6, ActsRight
<1>8. kept' \in {kept, x}
  BY DEF Concludes
<1> HIDE DEF x
<1>9. PICK k \in States : kept' = k /\ KeptOK(k, since)
  BY <1>5, <1>8, PolicyTypes DEF PolicyInv
<1>10. cache \in Caches /\ CacheOK(cache, since) /\ cache' = cache
       /\ count' \in [requests : 0..MaxRequests, changes : 0..MaxChanges]
  BY <1>1, PolicyTypes DEF PolicyInv, PolicyTypeOK
<1> QED BY <1>1, <1>7, <1>9, <1>10, RequestSteps

LEMMA DecideRight == ASSUME PolicyInv, NEW r \in Requests, Decide(r) PROVE PolicyInv' /\ RightAnswers
<1> DEFINE t    == thread[r]
           hits == {q \in QuestionsOf(t.goal) : cache[q].left > 0}
           rest == QuestionsOf(t.goal) \ hits
           out  == BeforeAnswers(hits, rest)
           pc   == IF rest = {} THEN "conclude" ELSE "metadata"
           x    == [t EXCEPT !.pc = pc, !.out = out, !.todo = rest]
<1>1. UNCHANGED <<policy, since, cache, kept, count>> /\ t.pc = "decide" /\ Goto(r, x)
  BY DEF Decide, At
<1>2. t \in Running /\ t.total = 0 /\ t.waited = 0 /\ t.units = 0 /\ t.limit <= Timeout
  BY <1>1 DEF PolicyInv, ThreadOK
<1>3. hits \subseteq Asked /\ rest \subseteq Asked
  BY DEF QuestionsOf
<1>4. /\ \A q \in hits : out[q] = cache[q].answer /\ out[q] \in Words
      /\ \A q \in rest : out[q] = "failed"
      /\ out \in [Asked -> Words]
  <2>1. \A q \in hits : cache[q].answer \in Words
    BY <1>3 DEF PolicyInv, CacheOK, Words
  <2>2. out = [q \in Asked |-> IF q \in hits THEN cache[q].answer ELSE IF q \in rest THEN "failed" ELSE "allow"]
    BY DEF BeforeAnswers
  <2>3. hits \cap rest = {}
    OBVIOUS
  <2> HIDE DEF out, hits, rest
  <2> QED BY <1>3, <2>1, <2>2, <2>3 DEF Words
<1>5. ASSUME NEW q \in QuestionsOf(t.goal) PROVE Recent(q, out[q], Timeout + TTL + 0, since)
  <2>1. CASE q \in hits
    <3>1. q \in Asked /\ cache[q].left > 0 /\ out[q] = cache[q].answer
      BY <1>3, <1>4, <2>1
    <3>2. cache[q].left \in Nat /\ since[q] \in Nat /\ since["gone"] \in Nat
      BY <3>1, PolicyTypes DEF Caches, CacheKeys, AskedMoments
    <3>3. Recent(q, out[q], Timeout + TTL - cache[q].left, since)
      BY <3>1 DEF PolicyInv, CacheOK
    <3> QED BY <3>1, <3>2, <3>3, PolicyTypes DEF Recent
  <2>2. CASE q \in rest
    BY <1>4, <2>2 DEF Recent
  <2> QED BY <2>1, <2>2
<1>6. 0 <= MetadataTime /\ 0 <= MetadataTime + BatchTimeout
  BY PolicyTypes
<1>7. /\ x \in Running /\ x.units = 0 /\ x.total = 0 /\ x.waited = 0 /\ x.limit = t.limit /\ x.out = out /\ x.todo = rest
      /\ x.goal = t.goal /\ x.pc \in {"conclude", "metadata"} /\ (x.pc = "metadata" => rest # {})
  <2> HIDE DEF rest, out
  <2> QED BY <1>2, <1>3, <1>4 DEF Running, Words
<1> HIDE DEF x, rest, out
<1>8. Decided(x, since) /\ ForMetadata(x)
  BY <1>5, <1>6, <1>7 DEF Decided, ForMetadata
<1>9. ThreadOK(x, since)
  BY <1>2, <1>4, <1>6, <1>7, <1>8 DEF ThreadOK, ForUse
<1> QED BY <1>1, <1>7, <1>9, RequestGoesOn

(* A request that waits for the metadata.                                    *)
LEMMA PlansRight == ASSUME PolicyInv, NEW r \in Requests, PlansRequests(r) PROVE PolicyInv' /\ RightAnswers
<1> DEFINE t == thread[r]
           x == [t EXCEPT !.meta = t.total, !.split = Cardinality(t.todo) > MaxItems]
           y == [t EXCEPT !.pc = "conclude", !.todo = {}]
<1>1. /\ UNCHANGED <<policy, since, cache, kept, count>> /\ t.pc = "metadata"
      /\ Goto(r, Asks(x)) \/ Goto(r, y)
  BY DEF PlansRequests, At
<1>2. /\ t \in Running /\ t.units = 0 /\ ForMetadata(t) /\ Decided(t, since) /\ t.limit <= Timeout
      /\ t.todo # {} /\ \A q \in t.todo : t.out[q] = "failed"
  BY <1>1 DEF PolicyInv, ThreadOK
<1>3. t.todo \subseteq Asked /\ t.total \in Nat /\ t.total <= MetadataTime /\ t.total \in 0..(Timeout + 1)
  BY <1>2, PolicyTypes DEF Running, ForMetadata
<1>4. IsFiniteSet(t.todo) /\ Cardinality(t.todo) \in Nat /\ MaxItems \in Nat
  BY <1>3, PolicyAssumption, FS_Subset, FS_CardinalityType
<1>5. CASE Goto(r, Asks(x))
  <2>1. /\ x \in Running /\ x.units = 0 /\ x.total = t.total /\ x.meta = t.total /\ x.out = t.out /\ x.todo = t.todo
        /\ x.goal = t.goal /\ x.limit = t.limit /\ x.split = (Cardinality(t.todo) > MaxItems)
    <3>0. (Cardinality(t.todo) > MaxItems) \in BOOLEAN
      OBVIOUS
    <3>1. PICK split \in BOOLEAN : split = (Cardinality(t.todo) > MaxItems)
      BY <3>0, Zenon
    <3>2. x = [t EXCEPT !.meta = t.total, !.split = split]
      BY <3>1
    <3>3. x \in Running
      BY <1>2, <1>3, <3>2 DEF Running
    <3> QED BY <1>2, <3>1, <3>2, <3>3 DEF Running
  <2> HIDE DEF x
  <2>2. Decided(x, since) /\ Asking(x) = 0
    BY <1>2, <1>3, <2>1 DEF Decided, Asking
  <2>3. x.todo # {} /\ ~x.split => Cardinality(x.todo) <= MaxItems
    <3>1. Cardinality(t.todo) <= MaxItems \/ Cardinality(t.todo) > MaxItems
      BY <1>4
    <3> QED BY <2>1, <3>1, Zenon
  <2>4. since \in [AskedMoments -> Nat] /\ x.limit <= Timeout
    BY <1>2, <2>1, PolicyTypes
  <2>5. ThreadOK(Asks(x), since) /\ Asks(x).pc # "idle"
    BY <1>2, <2>1, <2>2, <2>3, <2>4, AsksGoesOn
  <2> QED BY <1>1, <1>5, <2>5, RequestGoesOn
<1>6. CASE Goto(r, y)
  <2>1. /\ y \in Running /\ y.units = 0 /\ y.total = t.total /\ y.out = t.out /\ y.goal = t.goal /\ y.limit = t.limit
        /\ y.pc = "conclude"
    BY <1>2 DEF Running
  <2> HIDE DEF y
  <2>2. Decided(y, since) /\ y.total <= MetadataTime + BatchTimeout
    BY <1>2, <1>3, <2>1, PolicyTypes DEF Decided
  <2>3. ThreadOK(y, since)
    BY <1>2, <2>1, <2>2 DEF ThreadOK, ForUse
  <2> QED BY <1>1, <1>6, <2>1, <2>3, RequestGoesOn
<1> QED BY <1>1, <1>5, <1>6
-----------------------------------------------------------------------------
LEMMA StoredIsOK ==
  ASSUME PolicyInv, NEW answers, DOMAIN answers \subseteq CacheKeys, NEW life \in 0..TTL, NEW c \in Stored(answers, life),
         \A k \in DOMAIN answers : answers[k] \in {"allow", "deny", "gone", "free", "spent"},
         \A q \in Asked \cap DOMAIN answers :
           answers[q] \in {"allow", "deny", "gone"} /\ Recent(q, answers[q], Timeout + TTL - life, since),
         Use \in DOMAIN answers =>
           answers[Use] \in {"free", "spent"} /\ (answers[Use] = "free" => since[UseQuestion] <= UseTimeout + TTL - life)
  PROVE  c \in Caches /\ CacheOK(c, since)
<1>1. PICK full \in BOOLEAN :
        c = [k \in CacheKeys |-> IF k \in DOMAIN answers THEN [answer |-> answers[k], left |-> life]
                                ELSE IF full THEN NoAnswer ELSE cache[k]]
  BY DEF Stored
<1>2. cache \in Caches /\ CacheOK(cache, since) /\ 0 \in 0..TTL
  BY PolicyTypes DEF PolicyInv
<1>3. NoAnswer.left = 0 /\ NoAnswer \in [answer : {"none", "allow", "deny", "gone", "free", "spent"}, left : 0..TTL]
  BY <1>2 DEF NoAnswer
<1>4. c \in Caches
  BY <1>1, <1>2, <1>3 DEF Caches
<1>5. \A k \in CacheKeys :
        \/ k \in DOMAIN answers /\ c[k].answer = answers[k] /\ c[k].left = life
        \/ c[k].left = 0
        \/ c[k] = cache[k]
  BY <1>1, <1>3
<1>6. ASSUME NEW q \in Asked, c[q].left > 0
      PROVE  c[q].answer \in {"allow", "deny", "gone"} /\ Recent(q, c[q].answer, Timeout + TTL - c[q].left, since)
  <2>1. q \in CacheKeys
    BY DEF CacheKeys
  <2>2. CASE q \in DOMAIN answers /\ c[q].answer = answers[q] /\ c[q].left = life
    BY <2>2
  <2>3. CASE c[q].left = 0
    BY <1>6, <2>3
  <2>4. CASE c[q] = cache[q]
    BY <1>2, <1>6, <2>4 DEF CacheOK
  <2> QED BY <1>5, <2>1, <2>2, <2>3, <2>4
<1>7. ASSUME c[Use].left > 0
      PROVE  c[Use].answer \in {"free", "spent"} /\ (c[Use].answer = "free" => since[UseQuestion] <= UseTimeout + TTL - c[Use].left)
  <2>1. Use \in CacheKeys
    BY DEF CacheKeys
  <2>2. CASE Use \in DOMAIN answers /\ c[Use].answer = answers[Use] /\ c[Use].left = life
    BY <2>2
  <2>3. CASE c[Use].left = 0
    BY <1>7, <2>3
  <2>4. CASE c[Use] = cache[Use]
    BY <1>2, <1>7, <2>4 DEF CacheOK
  <2> QED BY <1>5, <2>1, <2>2, <2>3, <2>4
<1>8. CacheOK(c, since)
  BY <1>6, <1>7 DEF CacheOK
<1> QED BY <1>4, <1>8

(* A request whose answer is on its way.                                     *)
LEMMA WayEnds ==
  ASSUME PolicyInv, NEW r \in Requests, thread[r].pc \in {"sent", "answered"}
  PROVE  /\ thread[r] \in Running /\ thread[r].units = 0 /\ OnTheWay(thread[r]) /\ Decided(thread[r], since)
         /\ thread[r].limit <= Timeout
         /\ thread[r].waited <= thread[r].limit =>
              /\ thread[r].waited <= Timeout /\ thread[r].total <= MetadataTime + BatchTimeout
              /\ ~thread[r].split => thread[r].todo = {}
<1> DEFINE t == thread[r]
<1>1. t \in Running /\ t.units = 0 /\ OnTheWay(t) /\ Decided(t, since) /\ t.limit <= Timeout
  BY DEF PolicyInv, ThreadOK
<1>2. t.waited \in Nat /\ t.limit \in Nat /\ t.total \in Nat /\ t.meta \in Nat /\ t.meta <= MetadataTime
  BY <1>1, PolicyTypes DEF Running
<1>3. ASSUME t.waited <= t.limit PROVE t.waited <= Timeout /\ t.total <= MetadataTime + BatchTimeout /\ (~t.split => t.todo = {})
  <2>1. CASE t.split
    <3>1. t.total - t.meta + t.limit <= BatchTimeout + t.waited
      BY <1>1, <2>1 DEF OnTheWay, Asking
    <3> QED BY <1>1, <1>2, <1>3, <2>1, <3>1, PolicyTypes
  <2>2. CASE ~t.split
    <3>1. t.total - t.meta = t.waited /\ t.todo = {}
      BY <1>1, <2>2 DEF OnTheWay, Asking
    <3> QED BY <1>1, <1>2, <1>3, <3>1, PolicyTypes
  <2> QED BY <2>1, <2>2
<1> QED BY <1>1, <1>3

LEMMA ArrivesRight == ASSUME PolicyInv, NEW r \in Requests, Arrives(r) PROVE PolicyInv' /\ RightAnswers
<1> DEFINE t   == thread[r]
           out == [q \in Asked |-> IF q \in t.chunk THEN t.got[q] ELSE t.out[q]]
           x   == [t EXCEPT !.out = out, !.chunk = {}, !.got = Fails]
           ans == [q \in t.chunk |-> t.got[q]]
<1>0. t \in Running /\ t.pc = "answered"
  BY DEF Arrives, At, PolicyInv, ThreadOK
<1>1. /\ UNCHANGED <<policy, since, kept, count>> /\ t.waited <= t.limit
      /\ cache' \in Stored(ans, TTL) /\ Goto(r, Asks(x))
  BY DEF Arrives, At
<1>2. /\ t.units = 0 /\ OnTheWay(t) /\ Decided(t, since)
      /\ t.waited <= Timeout /\ t.limit <= Timeout /\ t.total <= MetadataTime + BatchTimeout /\ (~t.split => t.todo = {})
  BY <1>0, <1>1, WayEnds
<1>3. \A q \in t.chunk : t.got[q] \in {"allow", "deny", "gone"} /\ Recent(q, t.got[q], t.waited, since)
  BY <1>0 DEF PolicyInv, ThreadOK, Running
<1>4. t.chunk \subseteq Asked /\ t.waited \in Nat /\ t.total \in Nat
  BY <1>0, PolicyTypes DEF Running
<1>5. ASSUME NEW q \in t.chunk, NEW n \in Nat, Timeout <= n PROVE Recent(q, t.got[q], n, since)
  <2>1. since[q] \in Nat /\ since["gone"] \in Nat
    BY <1>4, PolicyTypes DEF AskedMoments
  <2> QED BY <1>2, <1>3, <1>4, <1>5, <2>1, PolicyTypes DEF Recent
<1>6. PICK c \in Caches : cache' = c /\ CacheOK(c, since)
  <2>1. DOMAIN ans = t.chunk /\ \A q \in t.chunk : ans[q] = t.got[q]
    OBVIOUS
  <2>2. Timeout + TTL - TTL = Timeout /\ TTL \in 0..TTL
    BY PolicyTypes
  <2>3. DOMAIN ans \subseteq CacheKeys /\ Use \notin DOMAIN ans
    BY <1>4, <2>1, PolicyTypes
  <2>4. \A k \in DOMAIN ans : ans[k] \in {"allow", "deny", "gone", "free", "spent"}
    BY <1>3, <2>1
  <2>5. \A q \in Asked \cap DOMAIN ans : ans[q] \in {"allow", "deny", "gone"} /\ Recent(q, ans[q], Timeout + TTL - TTL, since)
    BY <1>3, <1>5, <2>1, <2>2, PolicyTypes
  <2> HIDE DEF ans
  <2> QED BY <1>1, <2>2, <2>3, <2>4, <2>5, StoredIsOK
<1>7. /\ x \in Running /\ x.units = 0 /\ x.todo = t.todo /\ x.out = out /\ x.goal = t.goal /\ x.total = t.total
      /\ x.split = t.split /\ x.limit = t.limit
  <2>1. out \in [Asked -> Words] /\ Fails \in [Asked -> Words]
    BY <1>0, <1>3 DEF Running, Words, Fails
  <2> HIDE DEF out
  <2>2. x \in Running
    BY <1>0, <2>1 DEF Running, Words
  <2> QED BY <1>0, <1>2, <2>2 DEF Running
<1>8. /\ \A q \in Asked \ t.chunk : out[q] = t.out[q]
      /\ \A q \in t.chunk : out[q] = t.got[q]
  BY <1>4
<1> HIDE DEF x, out, ans
<1>9. Decided(x, since)
  <2> SUFFICES ASSUME NEW q \in QuestionsOf(t.goal) PROVE Recent(q, out[q], Timeout + TTL + t.total, since)
    BY <1>7 DEF Decided
  <2>1. q \in Asked
    BY DEF QuestionsOf
  <2>2. CASE q \in t.chunk
    <3>1. Timeout + TTL + t.total \in Nat /\ Timeout <= Timeout + TTL + t.total
      BY <1>4, PolicyTypes
    <3>2. Recent(q, t.got[q], Timeout + TTL + t.total, since)
      BY <1>5, <2>2, <3>1
    <3> QED BY <1>8, <2>2, <3>2
  <2>3. CASE q \notin t.chunk
    BY <1>2, <1>8, <2>1, <2>3 DEF Decided
  <2> QED BY <2>2, <2>3
<1>10. \A q \in x.todo : x.out[q] = "failed"
  BY <1>0, <1>2, <1>7, <1>8 DEF OnTheWay, Running
<1>11. since \in [AskedMoments -> Nat] /\ x.limit <= Timeout /\ x.total <= MetadataTime + BatchTimeout /\ (x.todo # {} => x.split)
  BY <1>2, <1>7, PolicyTypes
<1>12. ThreadOK(Asks(x), since) /\ Asks(x).pc # "idle"
  BY <1>7, <1>9, <1>10, <1>11, AsksGoesOn
<1>13. kept \in States /\ KeptOK(kept, since) /\ kept' = kept /\ count' \in [requests : 0..MaxRequests, changes : 0..MaxChanges]
  BY <1>1, PolicyTypes DEF PolicyInv, PolicyTypeOK
<1> QED BY <1>1, <1>6, <1>12, <1>13, RequestSteps

LEMMA ArrivesInvalidRight == ASSUME PolicyInv, NEW r \in Requests, ArrivesInvalid(r) PROVE PolicyInv' /\ RightAnswers
<1> DEFINE t == thread[r]
           x == [t EXCEPT !.chunk = {}, !.got = Fails]
<1>1. UNCHANGED <<policy, since, cache, kept, count>> /\ t.waited <= t.limit /\ t.pc = "answered" /\ Goto(r, Asks(x))
  BY DEF ArrivesInvalid, At
<1>2. /\ t \in Running /\ t.units = 0 /\ OnTheWay(t) /\ Decided(t, since)
      /\ t.limit <= Timeout /\ t.total <= MetadataTime + BatchTimeout /\ (~t.split => t.todo = {})
  BY <1>1, WayEnds
<1>3. /\ x \in Running /\ x.units = 0 /\ x.todo = t.todo /\ x.out = t.out /\ x.goal = t.goal /\ x.total = t.total
      /\ x.split = t.split /\ x.limit = t.limit
  <2>1. Fails \in [Asked -> Words]
    BY DEF Fails, Words
  <2>2. x \in Running
    BY <1>2, <2>1 DEF Running, Words
  <2> QED BY <1>2, <2>2 DEF Running
<1> HIDE DEF x
<1>4. Decided(x, since) /\ \A q \in x.todo : x.out[q] = "failed"
  BY <1>2, <1>3 DEF Decided, OnTheWay
<1>5. since \in [AskedMoments -> Nat] /\ x.limit <= Timeout /\ x.total <= MetadataTime + BatchTimeout /\ (x.todo # {} => x.split)
  BY <1>2, <1>3, PolicyTypes
<1>6. ThreadOK(Asks(x), since) /\ Asks(x).pc # "idle"
  BY <1>3, <1>4, <1>5, AsksGoesOn
<1> QED BY <1>1, <1>6, RequestGoesOn

LEMMA NoneComesRight == ASSUME PolicyInv, NEW r \in Requests, NoneComes(r) PROVE PolicyInv' /\ RightAnswers
<1> DEFINE t   == thread[r]
           out == IF DeadlinePassed(t) THEN Fails ELSE t.out
           x   == [t EXCEPT !.pc = "conclude", !.chunk = {}, !.todo = {}, !.got = Fails, !.out = out]
<1>1. t.pc \in {"sent", "answered"}
  BY DEF NoneComes, At
<1>2. t \in Running /\ t.units = 0 /\ OnTheWay(t) /\ Decided(t, since) /\ t.limit <= Timeout
  BY <1>1, WayEnds
<1>3. UNCHANGED <<policy, since, cache, kept, count>> /\ Goto(r, x)
  BY DEF NoneComes
<1>4. Fails \in [Asked -> Words] /\ \A q \in Asked : Fails[q] = "failed"
  BY DEF Fails, Words
<1>5. /\ out \in [Asked -> Words]
      /\ \E q \in Asked : out[q] = "failed"
      /\ \A q \in QuestionsOf(t.goal) : Recent(q, out[q], Timeout + TTL + t.total, since)
  <2>1. t.out \in [Asked -> Words] /\ \E q \in Asked : t.out[q] = "failed"
    BY <1>2 DEF Running, Words, OnTheWay
  <2>2. \A q \in QuestionsOf(t.goal) : q \in Asked /\ Recent(q, t.out[q], Timeout + TTL + t.total, since)
    BY <1>2 DEF Decided, QuestionsOf
  <2>3. \A q \in Asked : Recent(q, Fails[q], Timeout + TTL + t.total, since)
    BY <1>4 DEF Recent
  <2>4. \E q \in Asked : Fails[q] = "failed"
    BY <1>4, PolicyTypes
  <2>5. out = t.out \/ out = Fails
    OBVIOUS
  <2> HIDE DEF out
  <2> QED BY <1>4, <2>1, <2>2, <2>3, <2>4, <2>5
<1> HIDE DEF out
<1>6. x \in Running /\ x.units = 0 /\ x.pc = "conclude" /\ x.out = out /\ x.goal = t.goal /\ x.total = t.total /\ x.limit = t.limit
  <2>1. x \in Running
    BY <1>2, <1>4, <1>5 DEF Running, Words
  <2> QED BY <1>2, <2>1 DEF Running
<1> HIDE DEF x
<1>7. Decided(x, since)
  BY <1>5, <1>6 DEF Decided
<1>8. ThreadOK(x, since)
  BY <1>2, <1>5, <1>6, <1>7 DEF ThreadOK, ForUse
<1> QED BY <1>3, <1>6, <1>8, RequestGoesOn
-----------------------------------------------------------------------------
(* The use, which is sent when all other permissions were given.             *)
LEMMA RepliesRight ==
  ASSUME PolicyInv, NEW r \in Requests, NEW w, Replies(r, w), Answered(r, w), UNCHANGED <<policy, since, cache, kept, count>>
  PROVE  PolicyInv' /\ RightAnswers
<1>1. Goto(r, Idle(w)) /\ Idle(w).pc = "idle" /\ Idle(w).reply = w /\ ThreadOK(Idle(w), since)
  BY DEF Replies, Idle, ThreadOK
<1> QED BY <1>1, RequestGoesOn

LEMMA OthersDecidedRight == ASSUME PolicyInv, NEW r \in Requests, OthersDecided(r) PROVE PolicyInv' /\ RightAnswers
<1> DEFINE t == thread[r]
<1>1. UNCHANGED <<policy, since, cache, kept, count>> /\ t.pc = "conclude" /\ t.goal = "others"
  BY DEF OthersDecided, At
<1>2. /\ t \in Running /\ t.units = 0 /\ Decided(t, since)
      /\ t.total <= MetadataTime + BatchTimeout \/ \E q \in Asked : t.out[q] = "failed"
  BY <1>1 DEF PolicyInv, ThreadOK
<1>3. CASE Replies(r, "503") \/ Replies(r, "denied")
  <2>1. Answered(r, "503") /\ Answered(r, "denied")
    BY <1>2 DEF Answered
  <2> QED BY <1>1, <1>3, <2>1, RepliesRight
<1>4. CASE (\A q \in Asked : t.out[q] = "allow") /\ Goto(r, Begin("use", "others"))
  <2>1. t.total <= MetadataTime + BatchTimeout /\ t.total \in Nat
    BY <1>2, <1>4, PolicyTypes DEF Running
  <2>2. ASSUME NEW q \in Asked \ {UseQuestion} PROVE since[q] <= AnswerAge + 0
    <3>1. Recent(q, t.out[q], Timeout + TTL + t.total, since)
      BY <1>1, <1>2 DEF Decided, QuestionsOf
    <3>2. since[q] \in Nat
      BY PolicyTypes DEF AskedMoments
    <3> QED BY <1>4, <2>1, <3>1, <3>2, PolicyTypes DEF Recent
  <2>3. ThreadOK(Begin("use", "others"), since) /\ Begin("use", "others").pc # "idle"
    BY <2>2, BeginIsOK
  <2> QED BY <1>1, <1>4, <2>3, RequestGoesOn
<1> QED BY <1>3, <1>4 DEF OthersDecided

(* A request that waits for its use.                                         *)
LEMMA UseWaits ==
  ASSUME PolicyInv, NEW r \in Requests, ForUse(thread[r])
  PROVE  /\ thread[r] \in Running /\ thread[r].waited \in Nat /\ thread[r].total \in Nat /\ thread[r].meta \in Nat
         /\ thread[r].meta <= MetadataTime
         /\ \A q \in Asked \ {UseQuestion} : since[q] <= AnswerAge + thread[r].total
         /\ thread[r].pc = "use" => thread[r].total = 0 /\ thread[r].waited = 0 /\ thread[r].limit <= Timeout
         /\ thread[r].pc = "useMetadata" => ForMetadata(thread[r])
         /\ thread[r].pc \in {"useSent", "useAnswered"} =>
              thread[r].total = thread[r].meta + thread[r].waited /\ thread[r].limit \in Nat /\ thread[r].limit <= UseTimeout
         /\ thread[r].pc # "useAnswered" => thread[r].units = 0
         /\ thread[r].pc = "useAnswered" => UseIs(thread[r], since)
<1>1. thread[r] \in Running /\ ThreadOK(thread[r], since) /\ thread[r].pc # "idle"
  BY DEF PolicyInv, ThreadOK, ForUse
<1>2. /\ thread[r].waited \in Nat /\ thread[r].total \in Nat /\ thread[r].meta \in Nat /\ thread[r].meta <= MetadataTime
      /\ thread[r].limit \in Nat /\ thread[r].limit <= UseTimeout
  BY <1>1, PolicyTypes DEF Running
<1> QED BY <1>1, <1>2 DEF ThreadOK

LEMMA LooksUpUseRight == ASSUME PolicyInv, NEW r \in Requests, LooksUpUse(r) PROVE PolicyInv' /\ RightAnswers
<1> DEFINE t == thread[r]
<1>1. UNCHANGED <<policy, since, cache, kept, count>> /\ t.pc = "use"
  BY DEF LooksUpUse, At
<1>2. /\ t \in Running /\ t.waited = 0 /\ t.total = 0 /\ t.limit <= Timeout /\ t.units = 0
      /\ \A q \in Asked \ {UseQuestion} : since[q] <= AnswerAge + t.total
  BY <1>1, UseWaits DEF ForUse
<1>3. CASE Replies(r, "spent")
  BY <1>1, <1>3, RepliesRight DEF Answered
<1>4. CASE cache[Use].left > 0 /\ cache[Use].answer # "spent" /\ Replies(r, "ran")
  <2>1. cache[Use].left \in Nat /\ since \in [AskedMoments -> Nat]
    BY PolicyTypes DEF Caches
  <2>2. cache[Use].answer = "free" /\ since[UseQuestion] <= UseTimeout + TTL - cache[Use].left
    BY <1>4 DEF PolicyInv, CacheOK
  <2>3. since[UseQuestion] \in Nat
    BY <2>1, PolicyTypes DEF AskedMoments
  <2>4. since[UseQuestion] <= AnswerAge + MetadataTime + UseTimeout
    BY <2>1, <2>2, <2>3, PolicyTypes
  <2>5. ASSUME NEW q \in Asked \ {UseQuestion} PROVE since[q] <= AnswerAge + MetadataTime + UseTimeout
    <3>1. since[q] \in Nat /\ since[q] <= AnswerAge + 0
      BY <1>2, <2>1 DEF AskedMoments
    <3> QED BY <3>1, PolicyTypes
  <2>6. Answered(r, "ran")
    BY <2>2, <2>4, <2>5 DEF Answered
  <2> QED BY <1>1, <1>4, <2>6, RepliesRight
<1>5. CASE Goto(r, [t EXCEPT !.pc = "useMetadata"])
  <2> DEFINE x == [t EXCEPT !.pc = "useMetadata"]
  <2>1. /\ x \in Running /\ x.pc = "useMetadata" /\ x.units = 0 /\ x.waited = 0 /\ x.total = 0 /\ x.limit <= Timeout
    BY <1>2 DEF Running
  <2> HIDE DEF x
  <2>2. ForMetadata(x)
    BY <2>1, PolicyTypes DEF ForMetadata
  <2>3. ThreadOK(x, since)
    BY <1>2, <2>1, <2>2 DEF ThreadOK
  <2> QED BY <1>1, <1>5, <2>1, <2>3, RequestGoesOn DEF x
<1> QED BY <1>3, <1>4, <1>5 DEF LooksUpUse

LEMMA SendsUseRight == ASSUME PolicyInv, NEW r \in Requests, SendsUse(r) PROVE PolicyInv' /\ RightAnswers
<1> DEFINE t == thread[r]
<1>1. UNCHANGED <<policy, since, cache, kept, count>> /\ t.pc = "useMetadata"
  BY DEF SendsUse, At
<1>2. /\ t \in Running /\ t.units = 0 /\ t.total \in Nat /\ ForMetadata(t)
      /\ \A q \in Asked \ {UseQuestion} : since[q] <= AnswerAge + t.total
  BY <1>1, UseWaits DEF ForUse
<1>3. CASE Replies(r, "503")
  BY <1>1, <1>3, RepliesRight DEF Answered
<1>4. ASSUME NEW limit \in Timeout..UseTimeout,
             Goto(r, [t EXCEPT !.pc = "useSent", !.waited = 0, !.meta = t.total, !.limit = limit])
      PROVE  PolicyInv' /\ RightAnswers
  <2> DEFINE x == [t EXCEPT !.pc = "useSent", !.waited = 0, !.meta = t.total, !.limit = limit]
  <2>1. t.total \in 0..(Timeout + 1) /\ limit \in 0..UseTimeout /\ 0 \in 0..(UseTimeout + 1)
    BY <1>2, PolicyTypes DEF ForMetadata
  <2>2. x \in Running /\ x.pc = "useSent" /\ x.units = 0 /\ x.waited = 0 /\ x.total = t.total /\ x.meta = t.total
    <3> DEFINE m == t.total
    <3>0. m \in 0..(Timeout + 1)
      BY <2>1
    <3> HIDE DEF m
    <3>1. [t EXCEPT !.pc = "useSent", !.waited = 0, !.meta = m, !.limit = limit] \in Running
      BY <1>2, <2>1, <3>0 DEF Running
    <3>2. x \in Running
      BY <3>1 DEF m
    <3> QED BY <1>2, <2>1, <3>2 DEF Running
  <2> HIDE DEF x
  <2>3. x.total = x.meta + x.waited
    BY <1>2, <2>2
  <2>4. ThreadOK(x, since)
    BY <1>2, <2>2, <2>3 DEF ThreadOK
  <2> QED BY <1>1, <1>4, <2>2, <2>4, RequestGoesOn DEF x
<1> QED BY <1>3, <1>4 DEF SendsUse

(* The PDP says what is true at its moment.                                  *)
LEMMA SaysIsTrue ==
  ASSUME PolicyInv, NEW q \in Asked, NEW n \in Nat
  PROVE  Says(q) \in {"allow", "deny", "gone"} /\ Recent(q, Says(q), n, since)
<1>1. Says(q) = "allow" => True(policy, q)
  BY PolicyTypes DEF Says, True
<1>2. Says(q) = "gone" => True(policy, "gone")
  BY DEF Says, True
<1>3. q \in AskedMoments /\ "gone" \in AskedMoments
  BY DEF AskedMoments
<1>4. Says(q) = "allow" => since[q] = 0
  BY <1>1, <1>3 DEF PolicyInv
<1>5. Says(q) = "gone" => since["gone"] = 0
  BY <1>2, <1>3 DEF PolicyInv
<1>6. Recent(q, Says(q), n, since)
  BY <1>4, <1>5 DEF Recent
<1> QED BY <1>6 DEF Says

LEMMA PdpDecidesRight == ASSUME PolicyInv, NEW r \in Requests, PdpDecides(r) PROVE PolicyInv' /\ RightAnswers
<1> DEFINE t   == thread[r]
           got == [q \in Asked |-> IF q \in t.chunk THEN Says(q) ELSE "failed"]
           x   == [t EXCEPT !.pc = "answered", !.got = got]
<1>1. UNCHANGED <<policy, since, cache, kept, count>> /\ t.pc = "sent" /\ Goto(r, x)
  BY DEF PdpDecides, At
<1>2. t \in Running /\ t.units = 0 /\ OnTheWay(t) /\ Decided(t, since) /\ t.limit <= Timeout
  BY <1>1, WayEnds
<1>3. t.waited \in Nat /\ t.chunk \subseteq Asked
  BY <1>2, PolicyTypes DEF Running
<1>4. \A q \in Asked : Says(q) \in {"allow", "deny", "gone"} /\ Recent(q, Says(q), t.waited, since)
  BY <1>3, SaysIsTrue
<1>5. got \in [Asked -> Words] /\ \A q \in t.chunk : got[q] # "failed" /\ Recent(q, got[q], t.waited, since)
  BY <1>3, <1>4 DEF Words
<1> HIDE DEF got
<1>6. /\ x \in Running /\ x.pc = "answered" /\ x.units = t.units /\ x.chunk = t.chunk /\ x.todo = t.todo /\ x.out = t.out
      /\ x.split = t.split /\ x.total = t.total /\ x.limit = t.limit /\ x.waited = t.waited /\ x.goal = t.goal /\ x.got = got
      /\ x.meta = t.meta
  <2>1. x \in Running
    BY <1>2, <1>5 DEF Running, Words
  <2> QED BY <1>2, <2>1 DEF Running
<1> HIDE DEF x
<1>7. OnTheWay(x) /\ Decided(x, since)
  BY <1>2, <1>6 DEF OnTheWay, Decided, Asking
<1>8. ThreadOK(x, since)
  BY <1>2, <1>5, <1>6, <1>7 DEF ThreadOK, ForUse
<1> QED BY <1>1, <1>6, <1>8, RequestGoesOn

LEMMA PdpTakesRight == ASSUME PolicyInv, NEW r \in Requests, PdpTakes(r) PROVE PolicyInv' /\ RightAnswers
<1> DEFINE t == thread[r]
<1>1. UNCHANGED <<policy, since, cache, kept, count>> /\ t.pc = "useSent"
  BY DEF PdpTakes, At
<1>2. /\ t \in Running /\ t.units = 0 /\ t.waited \in Nat /\ t.total = t.meta + t.waited
      /\ \A q \in Asked \ {UseQuestion} : since[q] <= AnswerAge + t.total
  BY <1>1, UseWaits DEF ForUse
<1>3. Min({2, t.units + 1}) = 1
  <2>1. 2 \in Int /\ 1 \in Int /\ t.units + 1 = 1
    BY <1>2
  <2>2. Min({2, 1}) \in {2, 1} /\ Min({2, 1}) <= 1
    BY <2>1, LowerOfTwo
  <2> QED BY <2>1, <2>2
<1>4. UseQuestion \in policy.allowed => since[UseQuestion] = 0
  <2>1. UseQuestion \in AskedMoments /\ (UseQuestion \in policy.allowed => True(policy, UseQuestion))
    BY PolicyTypes DEF AskedMoments, True
  <2> QED BY <2>1 DEF PolicyInv
<1>5. ASSUME NEW use \in {"paid", "free", "spent", "refused", "unmetered"}, NEW n \in {0, 1},
             n = IF use \in {"paid", "unmetered"} THEN 1 ELSE 0, use \in {"paid", "free"} => UseQuestion \in policy.allowed,
             NEW x, x = [t EXCEPT !.pc = "useAnswered", !.use = use, !.units = n], Goto(r, x)
      PROVE  PolicyInv' /\ RightAnswers
  <2>0. PICK m \in 0..2 : m = n
    BY <1>5
  <2>1. x \in Running /\ x.pc = "useAnswered" /\ x.use = use /\ x.units = n /\ x.waited = t.waited
       /\ x.total = t.total /\ x.meta = t.meta
    <3> DEFINE y == [t EXCEPT !.pc = "useAnswered", !.use = use, !.units = m]
    <3>0. y \in Running
      BY <1>2 DEF Running
    <3>1. y \in Running /\ y.pc = "useAnswered" /\ y.use = use /\ y.units = m /\ y.waited = t.waited
         /\ y.total = t.total /\ y.meta = t.meta
      BY <1>2, <3>0 DEF Running
    <3> HIDE DEF y
    <3>2. x = y
      BY <1>5, <2>0 DEF y
    <3> QED BY <2>0, <3>1, <3>2
  <2>2. UseIs(x, since)
    BY <1>2, <1>4, <1>5, <2>1 DEF UseIs
  <2>3. ThreadOK(x, since)
    BY <1>2, <2>1, <2>2 DEF ThreadOK
  <2> QED BY <1>1, <1>5, <2>1, <2>3, RequestGoesOn
<1>6. CASE /\ UseQuestion \in policy.allowed
           /\ \E use \in {"paid", "unmetered"} : Goto(r, [t EXCEPT !.pc = "useAnswered", !.use = use, !.units = Min({2, @ + 1})])
  <2>1. PICK use \in {"paid", "unmetered"} : Goto(r, [t EXCEPT !.pc = "useAnswered", !.use = use, !.units = Min({2, @ + 1})])
    BY <1>6
  <2>2. [t EXCEPT !.pc = "useAnswered", !.use = use, !.units = Min({2, @ + 1})]
        = [t EXCEPT !.pc = "useAnswered", !.use = use, !.units = 1]
    BY <1>2, <1>3
  <2>3. Goto(r, [t EXCEPT !.pc = "useAnswered", !.use = use, !.units = 1])
    BY <2>1, <2>2
  <2> QED BY <1>5, <1>6, <2>3
<1>7. ASSUME NEW use \in {"free", "spent", "refused"}, Goto(r, [t EXCEPT !.pc = "useAnswered", !.use = use]),
             use # "refused" => UseQuestion \in policy.allowed
      PROVE  PolicyInv' /\ RightAnswers
  <2>1. [t EXCEPT !.pc = "useAnswered", !.use = use] = [t EXCEPT !.pc = "useAnswered", !.use = use, !.units = 0]
    BY <1>2 DEF Running
  <2>2. Goto(r, [t EXCEPT !.pc = "useAnswered", !.use = use, !.units = 0])
    BY <1>7, <2>1
  <2> QED BY <1>5, <1>7, <2>2
<1> QED BY <1>6, <1>7 DEF PdpTakes

LEMMA UseArrivesRight == ASSUME PolicyInv, NEW r \in Requests, UseArrives(r) PROVE PolicyInv' /\ RightAnswers
<1> DEFINE t == thread[r]
           w == CASE t.use = "spent" -> "spent" [] t.use \in {"refused", "unmetered"} -> "refused" [] OTHER -> "ran"
<1>1. /\ UNCHANGED <<policy, since, kept, count>> /\ t.pc = "useAnswered" /\ t.waited <= t.limit
      /\ cache' \in KeepsUse(t.use) /\ Replies(r, w)
  BY DEF UseArrives, At
<1>2. /\ t \in Running /\ t.waited \in Nat /\ UseIs(t, since) /\ t.waited <= UseTimeout
      /\ t.total \in Nat /\ t.total <= MetadataTime + UseTimeout
      /\ \A q \in Asked \ {UseQuestion} : since[q] <= AnswerAge + t.total
  <2>1. ForUse(t)
    BY <1>1 DEF ForUse
  <2> QED BY <1>1, <2>1, UseWaits, PolicyTypes
<1>3. since \in [AskedMoments -> Nat] /\ UseQuestion \in AskedMoments
  BY PolicyTypes DEF AskedMoments
<1>4. ASSUME NEW use \in {"free", "spent"}, NEW life \in 0..TTL, cache' \in Stored([k \in {Use} |-> use], life),
             use = "free" => life = TTL /\ t.use = "free"
      PROVE  \E c \in Caches : cache' = c /\ CacheOK(c, since)
  <2> DEFINE ans == [k \in {Use} |-> use]
  <2>1. DOMAIN ans = {Use} /\ ans[Use] = use
    OBVIOUS
  <2> HIDE DEF ans
  <2>2. DOMAIN ans \subseteq CacheKeys /\ Asked \cap DOMAIN ans = {}
    BY <2>1, PolicyTypes
  <2>3. use = "free" => since[UseQuestion] <= UseTimeout + TTL - life
    BY <1>1, <1>2, <1>3, <1>4, PolicyTypes DEF UseIs
  <2>4. \A k \in DOMAIN ans : ans[k] \in {"allow", "deny", "gone", "free", "spent"}
    BY <2>1
  <2>5. cache' \in Stored(ans, life)
    BY <1>4 DEF ans
  <2>6. PICK c : c = cache'
    OBVIOUS
  <2>7. c \in Caches /\ CacheOK(c, since)
    BY <2>1, <2>2, <2>3, <2>4, <2>5, <2>6, StoredIsOK
  <2> QED BY <2>6, <2>7
<1>5. PICK c \in Caches : cache' = c /\ CacheOK(c, since)
  <2>1. CASE t.use = "free"
    <3>1. cache' \in Stored([k \in {Use} |-> "free"], TTL) /\ TTL \in 0..TTL
      BY <1>1, <2>1, PolicyTypes DEF KeepsUse
    <3> QED BY <1>4, <2>1, <3>1
  <2>2. CASE t.use = "spent"
    <3>1. PICK life \in 1..TTL : cache' \in Stored([k \in {Use} |-> "spent"], life)
      BY <1>1, <2>2 DEF KeepsUse
    <3>2. life \in 0..TTL
      BY PolicyTypes
    <3> QED BY <1>4, <3>1, <3>2
  <2>3. CASE t.use \notin {"free", "spent"}
    <3>1. cache' = cache
      BY <1>1, <2>3 DEF KeepsUse
    <3> QED BY <3>1, PolicyTypes DEF PolicyInv
  <2> QED BY <2>1, <2>2, <2>3
<1>6. Answered(r, w)
  <2>1. CASE t.use \in {"spent", "refused", "unmetered"}
    <3>1. w \in {"spent", "refused"}
      BY <2>1
    <3> QED BY <3>1 DEF Answered
  <2>2. CASE t.use \notin {"spent", "refused", "unmetered"}
    <3>1. w = "ran" /\ t.use \in {"paid", "free"}
      BY <1>2, <2>2 DEF UseIs, Running
    <3>2. since[UseQuestion] <= t.waited /\ (t.units = 1 \/ "free" \in {t.use, cache[Use].answer})
      BY <1>2, <3>1 DEF UseIs
    <3>3. ASSUME NEW q \in Asked PROVE since[q] <= AnswerAge + MetadataTime + UseTimeout
      <4>1. since[q] \in Nat
        BY <1>3 DEF AskedMoments
      <4>2. CASE q = UseQuestion
        BY <1>1, <1>2, <3>2, <4>1, <4>2, PolicyTypes
      <4>3. CASE q # UseQuestion
        <5>1. since[q] <= AnswerAge + t.total
          BY <1>2, <4>3
        <5> QED BY <1>1, <1>2, <4>1, <5>1, PolicyTypes
      <4> QED BY <4>2, <4>3
    <3> HIDE DEF w
    <3> QED BY <3>1, <3>2, <3>3 DEF Answered
  <2> QED BY <2>1, <2>2
<1> HIDE DEF w
<1>7. Goto(r, Idle(w)) /\ Idle(w).pc = "idle" /\ Idle(w).reply = w /\ ThreadOK(Idle(w), since)
  BY <1>1 DEF Replies, Idle, ThreadOK
<1>8. kept \in States /\ KeptOK(kept, since) /\ kept' = kept /\ count' \in [requests : 0..MaxRequests, changes : 0..MaxChanges]
  BY <1>1, PolicyTypes DEF PolicyInv, PolicyTypeOK
<1> QED BY <1>1, <1>5, <1>6, <1>7, <1>8, RequestSteps

LEMMA UseFailsRight == ASSUME PolicyInv, NEW r \in Requests, UseFails(r) PROVE PolicyInv' /\ RightAnswers
<1>1. Replies(r, "503") /\ UNCHANGED <<policy, since, cache, kept, count>> /\ Answered(r, "503")
  BY DEF UseFails, Answered
<1> QED BY <1>1, RepliesRight
-----------------------------------------------------------------------------
(* Time and changes of the policy: what was true n ticks ago was true n + d  *)
(* ticks ago d ticks later.                                                  *)
LEMMA RecentAges ==
  ASSUME NEW s \in [AskedMoments -> Nat], NEW z \in [AskedMoments -> Nat], NEW d \in Nat, \A x \in AskedMoments : z[x] <= s[x] + d,
         NEW q \in Asked, NEW a, NEW n \in Int, NEW m \in Int, n + d <= m, Recent(q, a, n, s)
  PROVE  Recent(q, a, m, z)
<1>1. q \in AskedMoments /\ "gone" \in AskedMoments
  BY DEF AskedMoments
<1>2. s[q] \in Nat /\ z[q] \in Nat /\ z[q] <= s[q] + d /\ s["gone"] \in Nat /\ z["gone"] \in Nat /\ z["gone"] <= s["gone"] + d
  BY <1>1
<1> QED BY <1>2 DEF Recent

LEMMA CacheAges ==
  ASSUME PolicyInv, NEW z \in [AskedMoments -> Nat], NEW d \in Nat, \A x \in AskedMoments : z[x] <= since[x] + d, NEW c \in Caches,
         \A k \in CacheKeys : c[k].left > 0 => c[k].answer = cache[k].answer /\ c[k].left = cache[k].left - d
  PROVE  CacheOK(c, z)
<1>1. /\ since \in [AskedMoments -> Nat] /\ CacheOK(cache, since) /\ Timeout \in Nat /\ UseTimeout \in Nat /\ TTL \in Nat
      /\ \A k \in CacheKeys : c[k].left \in Nat /\ cache[k].left \in Nat
  BY PolicyTypes DEF PolicyInv, Caches
<1>2. ASSUME NEW q \in Asked, c[q].left > 0
      PROVE  c[q].answer \in {"allow", "deny", "gone"} /\ Recent(q, c[q].answer, Timeout + TTL - c[q].left, z)
  <2>1. q \in CacheKeys
    BY DEF CacheKeys
  <2>2. c[q].answer = cache[q].answer /\ c[q].left = cache[q].left - d /\ cache[q].left \in Nat /\ c[q].left \in Nat
    BY <1>1, <1>2, <2>1
  <2>3. cache[q].left > 0
    BY <1>2, <2>2
  <2>4. c[q].answer \in {"allow", "deny", "gone"} /\ Recent(q, c[q].answer, Timeout + TTL - cache[q].left, since)
    BY <1>1, <2>2, <2>3 DEF CacheOK
  <2>5. PICK n \in Int, m \in Int : n = Timeout + TTL - cache[q].left /\ m = Timeout + TTL - c[q].left
    <3>1. Timeout + TTL - cache[q].left \in Int
      BY <1>1, <2>2
    <3>2. Timeout + TTL - c[q].left \in Int
      BY <1>1, <2>2
    <3> QED BY <3>1, <3>2
  <2>6. n + d <= m
    BY <1>1, <2>2, <2>5
  <2>7. Recent(q, c[q].answer, m, z)
    BY <1>1, <2>4, <2>5, <2>6, RecentAges
  <2> QED BY <2>4, <2>5, <2>7
<1>3. ASSUME c[Use].left > 0
      PROVE  c[Use].answer \in {"free", "spent"} /\ (c[Use].answer = "free" => z[UseQuestion] <= UseTimeout + TTL - c[Use].left)
  <2>1. Use \in CacheKeys
    BY DEF CacheKeys
  <2>2. c[Use].answer = cache[Use].answer /\ c[Use].left = cache[Use].left - d /\ cache[Use].left \in Nat /\ c[Use].left \in Nat
    BY <1>1, <1>3, <2>1
  <2>3. cache[Use].left > 0
    BY <1>3, <2>2
  <2>4. c[Use].answer \in {"free", "spent"} /\ (c[Use].answer = "free" => since[UseQuestion] <= UseTimeout + TTL - cache[Use].left)
    BY <1>1, <2>2, <2>3 DEF CacheOK
  <2>5. UseQuestion \in AskedMoments
    BY PolicyTypes DEF AskedMoments
  <2>6. since[UseQuestion] \in Nat /\ z[UseQuestion] \in Nat /\ z[UseQuestion] <= since[UseQuestion] + d
    BY <1>1, <2>5
  <2> QED BY <1>1, <2>2, <2>4, <2>6
<1> QED BY <1>2, <1>3 DEF CacheOK

LEMMA KeptAges ==
  ASSUME PolicyInv, NEW z \in [AskedMoments -> Nat], NEW d \in Nat, \A x \in AskedMoments : z[x] <= since[x] + d, NEW k \in States,
         k.left > 0 => k.gone = kept.gone /\ k.left = kept.left - d
  PROVE  KeptOK(k, z)
<1>1. since \in [AskedMoments -> Nat] /\ "gone" \in AskedMoments /\ kept.left \in Nat /\ k.left \in Nat /\ AnswerAge \in Nat /\ TTL \in Nat
  BY PolicyTypes DEF States, AskedMoments
<1>2. since["gone"] \in Nat /\ z["gone"] \in Nat /\ z["gone"] <= since["gone"] + d
  BY <1>1
<1>3. ASSUME k.left > 0, k.gone PROVE z["gone"] <= AnswerAge + TTL - k.left
  <2>0. kept.gone
    BY <1>3, Zenon
  <2>1. k.left = kept.left - d
    BY <1>3, Zenon
  <2>2. kept.left > 0
    BY <1>1, <1>3, <2>1
  <2>3. since["gone"] <= AnswerAge + TTL - kept.left
    BY <2>0, <2>2 DEF PolicyInv, KeptOK
  <2> QED BY <1>1, <1>2, <2>1, <2>3
<1> QED BY <1>3 DEF KeptOK

(* A request that waits d ticks longer.                                      *)
LEMMA ThreadAges ==
  ASSUME NEW s \in [AskedMoments -> Nat], NEW z \in [AskedMoments -> Nat], NEW d \in {0, 1}, \A x \in AskedMoments : z[x] <= s[x] + d,
         NEW t \in Running, ThreadOK(t, s), t.pc # "idle", d = 1 => InFlight(t) /\ t.waited <= t.limit,
         NEW u, u = [t EXCEPT !.waited = @ + d, !.total = @ + d]
  PROVE  ThreadOK(u, z) /\ u \in Running
<1>0. /\ t.waited \in 0..(UseTimeout + 1) /\ t.total \in Nat /\ t.limit \in 0..UseTimeout /\ Timeout \in Nat /\ TTL \in Nat
      /\ BatchTimeout \in Nat /\ UseTimeout \in Nat /\ MetadataTime = Timeout + 1 /\ t.meta \in Nat
      /\ UseQuestion \in Asked /\ AnswerAge \in Nat /\ d \in Nat /\ t.out \in [Asked -> Words]
  BY PolicyAssumption DEF Running, AnswerAge, MetadataTime, Words
<1>1. t.waited + d \in 0..(UseTimeout + 1) /\ t.total + d \in Nat
  BY <1>0
<1>2. /\ u \in Running /\ u.pc = t.pc /\ u.goal = t.goal /\ u.out = t.out /\ u.todo = t.todo /\ u.chunk = t.chunk
      /\ u.split = t.split /\ u.limit = t.limit /\ u.got = t.got /\ u.use = t.use /\ u.units = t.units
      /\ u.waited = t.waited + d /\ u.total = t.total + d /\ u.meta = t.meta
  <2>1. u \in Running
    BY <1>1 DEF Running
  <2> QED BY <2>1 DEF Running
<1>3. ASSUME t.pc = "useAnswered" PROVE UseIs(u, z)
  <2>1. UseIs(t, s)
    BY <1>3 DEF ThreadOK
  <2>2. UseQuestion \in AskedMoments
    BY <1>0 DEF AskedMoments
  <2>3. s[UseQuestion] \in Nat /\ z[UseQuestion] \in Nat /\ z[UseQuestion] <= s[UseQuestion] + d
    BY <2>2
  <2> QED BY <1>0, <1>2, <2>1, <2>3 DEF UseIs
<1>4. t.pc # "useAnswered" => u.units = 0
  BY <1>2 DEF ThreadOK
<1>5. u.pc \in {"state", "decide", "use"} => u.total = 0 /\ u.waited = 0
  <2>1. u.pc \in {"state", "decide", "use"} => d = 0 /\ t.total = 0 /\ t.waited = 0
    BY <1>2 DEF ThreadOK, InFlight
  <2> QED BY <1>2, <2>1
<1>6. ASSUME t.pc \in {"sent", "answered"} PROVE OnTheWay(u)
  <2>1. OnTheWay(t)
    BY <1>6 DEF ThreadOK
  <2>2. u.chunk # {} /\ u.chunk \cap u.todo = {} /\ \A q \in u.chunk \cup u.todo : u.out[q] = "failed"
    BY <1>2, <2>1 DEF OnTheWay
  <2>3. CASE t.split
    <3>1. Asking(u) + u.limit <= BatchTimeout + u.waited
      BY <1>0, <1>2, <2>1, <2>3 DEF OnTheWay, Asking
    <3> QED BY <1>2, <2>2, <2>3, <3>1 DEF OnTheWay
  <2>4. CASE ~t.split
    <3>1. Asking(u) = u.waited /\ u.todo = {}
      BY <1>0, <1>2, <2>1, <2>4 DEF OnTheWay, Asking
    <3> QED BY <1>2, <2>2, <2>4, <3>1 DEF OnTheWay
  <2> QED BY <2>3, <2>4
<1>7. ASSUME t.pc = "answered", NEW q \in t.chunk PROVE t.got[q] # "failed" /\ Recent(q, t.got[q], u.waited, z)
  <2>1. t.got[q] # "failed" /\ Recent(q, t.got[q], t.waited, s) /\ q \in Asked
    BY <1>7 DEF ThreadOK, Running
  <2>a. t.waited \in Int /\ u.waited \in Int
    BY <1>0, <1>1, <1>2
  <2>2. PICK n \in Int, m \in Int : n = t.waited /\ m = u.waited
    BY <2>a
  <2>3. n + d <= m
    BY <1>0, <1>2, <2>2
  <2>4. Recent(q, t.got[q], m, z)
    BY <1>0, <2>1, <2>2, <2>3, RecentAges
  <2> QED BY <2>1, <2>2, <2>4
<1>8. ASSUME t.pc \in {"metadata", "sent", "answered", "conclude"} PROVE Decided(u, z)
  <2> SUFFICES ASSUME NEW q \in QuestionsOf(t.goal) PROVE Recent(q, t.out[q], Timeout + TTL + u.total, z)
    BY <1>2 DEF Decided
  <2>1. Recent(q, t.out[q], Timeout + TTL + t.total, s) /\ q \in Asked
    BY <1>8 DEF ThreadOK, Decided, QuestionsOf
  <2>2. PICK n \in Int, m \in Int : n = Timeout + TTL + t.total /\ m = Timeout + TTL + u.total
    BY <1>0, <1>2
  <2>3. n + d <= m
    BY <1>0, <1>2, <2>2
  <2>4. Recent(q, t.out[q], m, z)
    BY <1>0, <2>1, <2>2, <2>3, RecentAges
  <2> QED BY <2>2, <2>4
<1>9. t.pc = "conclude" => u.total <= MetadataTime + BatchTimeout \/ \E q \in Asked : u.out[q] = "failed"
  <2>1. t.pc = "conclude" => d = 0 /\ (t.total <= MetadataTime + BatchTimeout \/ \E q \in Asked : t.out[q] = "failed")
    BY DEF ThreadOK, InFlight
  <2>2. d = 0 => u.total = t.total
    BY <1>0, <1>2
  <2> QED BY <1>2, <2>1, <2>2
<1>10. ASSUME ForUse(t), NEW q \in Asked \ {UseQuestion} PROVE z[q] <= AnswerAge + u.total
  <2>1. s[q] <= AnswerAge + t.total /\ q \in AskedMoments
    BY <1>10 DEF ThreadOK, AskedMoments
  <2>2. s[q] \in Nat /\ z[q] \in Nat /\ z[q] <= s[q] + d
    BY <2>1
  <2> QED BY <1>0, <1>2, <2>1, <2>2
<1>11. IF u.pc = "useAnswered" THEN UseIs(u, z) ELSE u.units = 0
  BY <1>2, <1>3, <1>4
<1>12. u.pc \in {"metadata", "useMetadata"} => ForMetadata(u)
  <2>1. ASSUME t.pc \in {"metadata", "useMetadata"} PROVE u.total = u.waited /\ u.waited <= MetadataTime
    <3>1. ForMetadata(t) /\ t.limit <= Timeout
      BY <2>1 DEF ThreadOK
    <3> QED BY <1>0, <1>2, <3>1 DEF ForMetadata
  <2> QED BY <1>2, <2>1 DEF ForMetadata
<1>13. /\ u.pc \notin {"useSent", "useAnswered"} => u.limit <= Timeout
       /\ u.pc \in {"useSent", "useAnswered"} => u.total = u.meta + u.waited
       /\ u.pc = "metadata" => u.todo # {} /\ \A q \in u.todo : u.out[q] = "failed"
  BY <1>0, <1>2 DEF ThreadOK
<1>14. ForUse(u) => ForUse(t)
  BY <1>2 DEF ForUse
<1> QED BY <1>2, <1>5, <1>6, <1>7, <1>8, <1>9, <1>10, <1>11, <1>12, <1>13, <1>14 DEF ThreadOK
LEMMA SpansAreNumbers ==
  ASSUME NEW d \in {0, 1}, NEW z \in [AskedMoments -> 0..Horizon]
  PROVE  z \in [AskedMoments -> Nat] /\ d \in Nat
<1>1. 0..Horizon \subseteq Nat
  BY PolicyAssumption
<1> QED BY <1>1

LEMMA TimeAges ==
  ASSUME PolicyInv, NEW d \in {0, 1}, NEW z \in [AskedMoments -> 0..Horizon], since' = z, \A x \in AskedMoments : z[x] <= since[x] + d,
         NEW p \in Policies, policy' = p, \A x \in AskedMoments : True(p, x) => z[x] = 0,
         count' \in [requests : 0..MaxRequests, changes : 0..MaxChanges],
         NEW c \in Caches, cache' = c,
         \A k \in CacheKeys : c[k].left > 0 => c[k].answer = cache[k].answer /\ c[k].left = cache[k].left - d,
         NEW k \in States, kept' = k, k.left > 0 => k.gone = kept.gone /\ k.left = kept.left - d,
         thread' = [r \in Requests |-> IF At(r, "idle") THEN thread[r]
                                       ELSE [thread[r] EXCEPT !.waited = @ + d, !.total = @ + d]],
         d = 1 => \A r \in Requests : At(r, "idle") \/ (InFlight(thread[r]) /\ thread[r].waited <= thread[r].limit)
  PROVE  PolicyInv' /\ RightAnswers
<1>1. z \in [AskedMoments -> Nat] /\ since \in [AskedMoments -> Nat] /\ d \in Nat
  <2>1. z \in [AskedMoments -> Nat] /\ d \in Nat
    BY SpansAreNumbers, Zenon
  <2> QED BY <2>1, PolicyTypes, Zenon
<1>2. PICK th : th = thread'
  OBVIOUS
<1>3. /\ th = [r \in Requests |-> th[r]]
      /\ \A r \in Requests : th[r] = IF At(r, "idle") THEN thread[r]
                                     ELSE [thread[r] EXCEPT !.waited = @ + d, !.total = @ + d]
  BY <1>2
<1>4. ASSUME NEW r \in Requests PROVE ThreadOK(th[r], z) /\ (th[r].pc = "idle" \/ th[r] \in Running) /\ th[r].pc = thread[r].pc
  <2>1. CASE At(r, "idle")
    BY <1>3, <2>1 DEF At, ThreadOK
  <2>2. CASE ~At(r, "idle")
    <3>1. ThreadOK(thread[r], since) /\ thread[r] \in Running /\ thread[r].pc # "idle"
      BY <2>2 DEF PolicyInv, ThreadOK, At
    <3>2. th[r] = [thread[r] EXCEPT !.waited = @ + d, !.total = @ + d]
      BY <1>3, <2>2
    <3>3. d = 1 => InFlight(thread[r]) /\ thread[r].waited <= thread[r].limit
      BY <2>2
    <3>4. ThreadOK(th[r], z) /\ th[r] \in Running
      BY <1>1, <3>1, <3>2, <3>3, ThreadAges
    <3>5. th[r].pc = thread[r].pc
      BY <3>1, <3>2 DEF Running
    <3> QED BY <3>4, <3>5
  <2> QED BY <2>1, <2>2
<1>5. CacheOK(c, z)
  BY <1>1, CacheAges
<1>6. KeptOK(k, z)
  BY <1>1, KeptAges
<1>7. PolicyTypeOK'
  BY <1>2, <1>4 DEF PolicyTypeOK, Caches, States, AskedMoments
<1>8. PolicyInv'
  BY <1>2, <1>3, <1>4, <1>5, <1>6, <1>7 DEF PolicyInv
<1>9. RightAnswers
  BY <1>2, <1>4 DEF RightAnswers, At
<1> QED BY <1>8, <1>9

LEMMA ChangeRight == ASSUME PolicyInv, ChangePolicy PROVE PolicyInv' /\ RightAnswers
<1>1. PICK p \in Policies : policy' = p
  BY DEF ChangePolicy
<1>2. since \in [AskedMoments -> 0..Horizon] /\ cache \in Caches /\ kept \in States
  BY PolicyTypes DEF PolicyInv, PolicyTypeOK, AskedMoments
<1> DEFINE z == [x \in AskedMoments |-> IF True(p, x) THEN 0 ELSE since[x]]
<1>3. since' = z
  BY <1>1 DEF ChangePolicy, AskedMoments
<1>4. z \in [AskedMoments -> 0..Horizon] /\ \A x \in AskedMoments : z[x] <= since[x] + 0 /\ (True(p, x) => z[x] = 0)
  <2>1. 0 \in 0..Horizon
    BY PolicyAssumption
  <2>2. \A x \in AskedMoments : since[x] \in Nat
    BY PolicyTypes
  <2> QED BY <1>2, <2>1, <2>2
<1> HIDE DEF z
<1>5. count' \in [requests : 0..MaxRequests, changes : 0..MaxChanges]
  <2>1. PICK n \in 0..MaxRequests, m \in 0..MaxChanges : count = [requests |-> n, changes |-> m] /\ m < MaxChanges
    BY DEF PolicyInv, PolicyTypeOK, ChangePolicy
  <2>2. count' = [requests |-> n, changes |-> m + 1]
    BY <2>1 DEF ChangePolicy
  <2>3. m + 1 \in 0..MaxChanges
    BY <2>1, PolicyAssumption
  <2> QED BY <2>2, <2>3
<1>6. cache' = cache /\ kept' = kept /\ thread' = thread
  BY DEF ChangePolicy
<1>7. \A k \in CacheKeys : cache[k].left > 0 => cache[k].answer = cache[k].answer /\ cache[k].left = cache[k].left - 0
  BY <1>2 DEF Caches
<1>8. kept.left > 0 => kept.gone = kept.gone /\ kept.left = kept.left - 0
  BY <1>2 DEF States
<1>9. thread' = [r \in Requests |-> IF At(r, "idle") THEN thread[r] ELSE [thread[r] EXCEPT !.waited = @ + 0, !.total = @ + 0]]
  <2>1. ASSUME NEW r \in Requests, ~At(r, "idle") PROVE thread[r] = [thread[r] EXCEPT !.waited = @ + 0, !.total = @ + 0]
    <3>1. thread[r] \in Running
      BY <2>1 DEF PolicyInv, ThreadOK, At
    <3>2. thread[r].waited + 0 = thread[r].waited /\ thread[r].total + 0 = thread[r].total
      BY <3>1 DEF Running
    <3> QED BY <3>1, <3>2 DEF Running
  <2> DEFINE u(r) == IF At(r, "idle") THEN thread[r] ELSE [thread[r] EXCEPT !.waited = @ + 0, !.total = @ + 0]
  <2>2. \A r \in Requests : u(r) = thread[r]
    BY <2>1
  <2>3. thread = [r \in Requests |-> thread[r]]
    BY DEF PolicyInv
  <2> HIDE DEF u
  <2>4. thread' = [r \in Requests |-> u(r)]
    BY <1>6, <2>2, <2>3
  <2> QED BY <2>4 DEF u
<1>10. 0 \in {0, 1} /\ 0 # 1 /\ (\A x \in AskedMoments : z[x] <= since[x] + 0) /\ \A x \in AskedMoments : True(p, x) => z[x] = 0
  BY <1>4
<1> QED BY <1>1, <1>2, <1>3, <1>4, <1>5, <1>6, <1>7, <1>8, <1>9, <1>10, TimeAges

LEMMA TickRight == ASSUME PolicyInv, Tick PROVE PolicyInv' /\ RightAnswers
<1>1. PICK p \in Policies : policy' = p /\ p = policy
  BY DEF Tick, PolicyInv, PolicyTypeOK
<1>2. since \in [AskedMoments -> 0..Horizon] /\ since \in [AskedMoments -> Nat] /\ cache \in Caches /\ kept \in States
  BY PolicyTypes DEF PolicyInv, PolicyTypeOK, AskedMoments
<1> DEFINE z == [x \in AskedMoments |-> IF True(p, x) THEN 0 ELSE Min({Horizon, since[x] + 1})]
           c == [k \in CacheKeys |-> GetsOlder(cache[k])]
           k1 == IF kept.left <= 1 THEN NoState ELSE [kept EXCEPT !.left = @ - 1]
<1>3. since' = z /\ cache' = c /\ kept' = k1
  BY <1>1 DEF Tick, AskedMoments
<1>4. z \in [AskedMoments -> 0..Horizon] /\ \A x \in AskedMoments : z[x] <= since[x] + 1 /\ (True(p, x) => z[x] = 0)
  <2>1. ASSUME NEW x \in AskedMoments
        PROVE  z[x] \in 0..Horizon /\ z[x] <= since[x] + 1 /\ (True(p, x) => z[x] = 0)
    <3>1. since[x] \in Nat /\ Horizon \in Nat
      BY <1>2, PolicyAssumption
    <3>2. PICK n \in Int : n = since[x] + 1
      BY <3>1
    <3>3. Horizon \in Int /\ n \in Int
      BY <3>1, <3>2
    <3>4. Min({Horizon, n}) \in {Horizon, n} /\ Min({Horizon, n}) <= Horizon /\ Min({Horizon, n}) <= n
      BY <3>3, LowerOfTwo
    <3>5. z[x] = IF True(p, x) THEN 0 ELSE Min({Horizon, n})
      BY <3>2
    <3> HIDE DEF z
    <3> QED BY <3>1, <3>2, <3>4, <3>5
  <2>2. z = [x \in AskedMoments |-> z[x]]
    OBVIOUS
  <2> HIDE DEF z
  <2> QED BY <2>1, <2>2
<1>5. c \in Caches /\ \A k \in CacheKeys : c[k].left > 0 => c[k].answer = cache[k].answer /\ c[k].left = cache[k].left - 1
  <2>1. ASSUME NEW k \in CacheKeys
        PROVE  /\ c[k] \in [answer : {"none", "allow", "deny", "gone", "free", "spent"}, left : 0..TTL]
               /\ c[k].left > 0 => c[k].answer = cache[k].answer /\ c[k].left = cache[k].left - 1
    <3>1. PICK a \in {"none", "allow", "deny", "gone", "free", "spent"}, n \in 0..TTL : cache[k] = [answer |-> a, left |-> n]
      BY <1>2 DEF Caches
    <3>2. n \in Nat /\ TTL \in Nat /\ 0 \in 0..TTL
      BY PolicyTypes
    <3>3. CASE n <= 1
      <4>1. c[k] = [answer |-> "none", left |-> 0]
        BY <3>1, <3>3 DEF GetsOlder, NoAnswer
      <4> HIDE DEF c
      <4> QED BY <3>2, <4>1
    <3>4. CASE ~(n <= 1)
      <4>1. c[k] = [answer |-> a, left |-> n - 1] /\ n - 1 \in 0..TTL
        BY <3>1, <3>2, <3>4 DEF GetsOlder
      <4> HIDE DEF c
      <4> QED BY <3>1, <4>1
    <3> QED BY <3>3, <3>4
  <2>2. c = [k \in CacheKeys |-> c[k]]
    OBVIOUS
  <2> HIDE DEF c
  <2> QED BY <2>1, <2>2 DEF Caches
<1>6. k1 \in States /\ (k1.left > 0 => k1.gone = kept.gone /\ k1.left = kept.left - 1)
  <2>1. PICK g \in BOOLEAN, n \in 0..TTL : kept = [gone |-> g, left |-> n]
    BY <1>2 DEF States
  <2>2. n \in Nat /\ TTL \in Nat /\ 0 \in 0..TTL
    BY PolicyTypes
  <2>3. CASE n <= 1
    <3>1. k1 = [gone |-> FALSE, left |-> 0]
      BY <2>1, <2>3 DEF NoState
    <3> HIDE DEF k1
    <3> QED BY <2>2, <3>1 DEF States
  <2>4. CASE ~(n <= 1)
    <3>1. k1 = [gone |-> g, left |-> n - 1] /\ n - 1 \in 0..TTL
      BY <2>1, <2>2, <2>4
    <3> HIDE DEF k1
    <3> QED BY <2>1, <3>1 DEF States
  <2> QED BY <2>3, <2>4
<1>7. count' \in [requests : 0..MaxRequests, changes : 0..MaxChanges]
  BY DEF Tick, PolicyInv, PolicyTypeOK
<1>8. thread' = [r \in Requests |-> IF At(r, "idle") THEN thread[r] ELSE [thread[r] EXCEPT !.waited = @ + 1, !.total = @ + 1]]
  BY DEF Tick
<1>9. \A r \in Requests : At(r, "idle") \/ (InFlight(thread[r]) /\ thread[r].waited <= thread[r].limit)
  BY DEF Tick
<1> HIDE DEF z, c, k1
<1> QED BY <1>1, <1>3, <1>4, <1>5, <1>6, <1>7, <1>8, <1>9, TimeAges
-----------------------------------------------------------------------------
LEMMA PolicyInvStarts == PolicyInit => PolicyInv
<1> SUFFICES ASSUME PolicyInit PROVE PolicyInv
  OBVIOUS
<1>1. policy \in Policies
  <2>1. CASE policy = [allowed |-> Asked, known |-> TRUE]
    <3>1. Asked \in SUBSET Asked /\ TRUE \in {TRUE}
      OBVIOUS
    <3>2. policy \in [allowed : SUBSET Asked, known : {TRUE}]
      BY <2>1, <3>1, Zenon
    <3> QED BY <3>2 DEF Policies
  <2>2. CASE policy = [allowed |-> {}, known |-> FALSE]
    BY <2>2 DEF Policies
  <2> QED BY <2>1, <2>2 DEF PolicyInit
<1>2. TTL \in Nat /\ 0 \in 0..Horizon /\ Horizon \in 0..Horizon /\ MaxRequests \in Nat /\ MaxChanges \in Nat
  BY PolicyAssumption
<1>3. since \in [AskedMoments -> 0..Horizon] /\ \A x \in AskedMoments : True(policy, x) => since[x] = 0
  BY <1>2 DEF PolicyInit, AskedMoments
<1>4. NoAnswer.left = 0 /\ NoAnswer \in [answer : {"none", "allow", "deny", "gone", "free", "spent"}, left : 0..TTL]
  BY <1>2 DEF NoAnswer
<1>5. cache \in Caches /\ \A k \in CacheKeys : cache[k].left = 0
  BY <1>4 DEF PolicyInit, Caches
<1>6. CacheOK(cache, since)
  BY <1>5 DEF CacheOK, CacheKeys
<1>7. kept \in States /\ KeptOK(kept, since)
  BY <1>2 DEF PolicyInit, NoState, States, KeptOK
<1>8. thread = [r \in Requests |-> thread[r]] /\ \A r \in Requests : thread[r].pc = "idle"
  BY DEF PolicyInit, Idle
<1>9. \A r \in Requests : ThreadOK(thread[r], since)
  BY <1>8 DEF ThreadOK
<1>10. count \in [requests : 0..MaxRequests, changes : 0..MaxChanges]
  BY <1>2 DEF PolicyInit
<1>11. PolicyTypeOK
  BY <1>1, <1>3, <1>5, <1>7, <1>8, <1>10 DEF PolicyTypeOK, Caches, States, AskedMoments
<1> QED BY <1>3, <1>6, <1>7, <1>8, <1>9, <1>11 DEF PolicyInv

LEMMA PolicySteps == PolicyInv /\ [PolicyNext]_policyVars => PolicyInv' /\ RightAnswers
<1> SUFFICES ASSUME PolicyInv, [PolicyNext]_policyVars PROVE PolicyInv' /\ RightAnswers
  OBVIOUS
<1>1. ASSUME NEW r \in Requests, CallTool(r) \/ Forget(r) PROVE PolicyInv' /\ RightAnswers
  BY <1>1, ComesRight
<1>2. ASSUME NEW r \in Requests, LookUp(r) \/ Concludes(r) PROVE PolicyInv' /\ RightAnswers
  BY <1>2, LookUpRight, ConcludesRight
<1>3. ASSUME NEW r \in Requests, Decide(r) \/ PlansRequests(r) \/ Arrives(r) \/ ArrivesInvalid(r) \/ NoneComes(r) \/ PdpDecides(r)
      PROVE  PolicyInv' /\ RightAnswers
  BY <1>3, DecideRight, PlansRight, ArrivesRight, ArrivesInvalidRight, NoneComesRight, PdpDecidesRight
<1>4. ASSUME NEW r \in Requests, OthersDecided(r) \/ LooksUpUse(r) \/ SendsUse(r) \/ UseArrives(r) \/ UseFails(r) \/ PdpTakes(r)
      PROVE  PolicyInv' /\ RightAnswers
  BY <1>4, OthersDecidedRight, LooksUpUseRight, SendsUseRight, UseArrivesRight, UseFailsRight, PdpTakesRight
<1>5. CASE ChangePolicy \/ Tick
  BY <1>5, ChangeRight, TickRight
<1>6. CASE UNCHANGED policyVars
  <2>1. UNCHANGED <<policy, since, cache, kept, thread, count>>
    BY <1>6 DEF policyVars
  <2>2. PolicyInv'
    BY <2>1 DEF PolicyInv, PolicyTypeOK
  <2> QED BY <2>1, <2>2 DEF RightAnswers, At
<1> QED BY <1>1, <1>2, <1>3, <1>4, <1>5, <1>6 DEF PolicyNext

LEMMA AnswersToldAreRight ==
  ASSUME PolicyInv, RightAnswers, NEW r \in Requests, NEW w, Told(r, w)
  PROVE  Answered(r, w)
  BY DEF RightAnswers, Told

(* The type invariant of the policy decisions.                               *)
THEOREM PolicyTypeCorrect == PolicySpec => []PolicyTypeOK
<1>1. PolicyInv => PolicyTypeOK
  BY DEF PolicyInv
<1> QED BY <1>1, PolicyInvStarts, PolicySteps, PTL DEF PolicySpec

(* A tool runs only when each of its permissions, the use too, was given     *)
(* within the time that an answer can take, be kept and wait, the reads of   *)
(* the metadata and the longer wait for the use included: for any number of  *)
(* requests that fill the caches with answers out of order                   *)
(* (PdpClient::cache_store, ensure_metadata, usage_timeout,                  *)
(* McpCreatorAccess::call).                                                  *)
THEOREM GrantsStayRecent == PolicySpec => GrantsAreRecent
<1>1. ASSUME PolicyInv, RightAnswers, NEW r \in Requests, Told(r, "ran")
      PROVE  \A q \in Asked : since[q] <= AnswerAge + MetadataTime + UseTimeout
  BY <1>1, AnswersToldAreRight DEF Answered
<1>2. PolicyInv /\ RightAnswers =>
        \A r \in Requests : Told(r, "ran") => \A q \in Asked : since[q] <= AnswerAge + MetadataTime + UseTimeout
  BY <1>1
<1> QED BY <1>2, PolicyInvStarts, PolicySteps, PTL DEF PolicySpec, GrantsAreRecent

(* Failures, timeouts and plain refusals never make an orphan of a key: the  *)
(* PDP did not know its creator a short time ago (McpCreatorAccess::state).  *)
THEOREM OrphansAreTrulyGone == PolicySpec => OrphansAreGone
<1>1. ASSUME PolicyInv, RightAnswers, NEW r \in Requests, Told(r, "401") \/ Told(r, "adoptable")
      PROVE  since["gone"] <= AnswerAge + TTL
  BY <1>1, AnswersToldAreRight DEF Answered
<1>2. PolicyInv /\ RightAnswers =>
        \A r \in Requests : Told(r, "401") \/ Told(r, "adoptable") => since["gone"] <= AnswerAge + TTL
  BY <1>1
<1> QED BY <1>2, PolicyInvStarts, PolicySteps, PTL DEF PolicySpec, OrphansAreGone

(* A call that ran was paid with one unit or was free, a call that is denied *)
(* took none, and no call takes two (decide_use, McpCreatorAccess::call).    *)
THEOREM UsesStayCounted == PolicySpec => UsesAreCounted
<1>1. ASSUME PolicyInv, NEW r \in Requests PROVE At(r, "idle") \/ thread[r].units <= 1
  <2>1. CASE ~At(r, "idle")
    <3>0. ThreadOK(thread[r], since) /\ thread[r].pc # "idle"
      <4>1. thread[r].pc # "idle"
        BY <2>1, Zenon DEF At
      <4>2. ThreadOK(thread[r], since)
        BY <1>1, Zenon DEF PolicyInv
      <4> QED BY <4>1, <4>2
    <3>1. (thread[r].pc = "useAnswered" /\ UseIs(thread[r], since)) \/ thread[r].units = 0
      BY <3>0 DEF ThreadOK
    <3>2. UseIs(thread[r], since) => thread[r].units \in {0, 1}
      BY DEF UseIs
    <3>3. thread[r].units \in {0, 1}
      BY <3>1, <3>2
    <3> QED BY <3>3
  <2> QED BY <2>1
<1> DEFINE Fair(r) == /\ Told(r, "ran") => thread[r].units = 1 \/ "free" \in {thread[r].use, cache[Use].answer}
                      /\ Told(r, "denied") => thread[r].units = 0
                      /\ At(r, "idle") \/ thread[r].units <= 1
<1>2. ASSUME PolicyInv, RightAnswers, NEW r \in Requests PROVE Fair(r)
  BY <1>1, <1>2, AnswersToldAreRight DEF Answered
<1>3. PolicyInv /\ RightAnswers => \A r \in Requests : Fair(r)
  BY <1>2
<1> QED BY <1>3, PolicyInvStarts, PolicySteps, PTL DEF PolicySpec, UsesAreCounted
-----------------------------------------------------------------------------
(* A process goes down no more often than the bound of the model lets it.    *)
LEMMA CrashesSteps == crashes \in 0..MaxCrashes /\ [KeysNext]_keyVars => crashes' \in 0..MaxCrashes
<1> SUFFICES ASSUME crashes \in 0..MaxCrashes, [KeysNext]_keyVars
             PROVE  crashes' \in 0..MaxCrashes
  OBVIOUS
<1>1. CASE GoesDown
  BY <1>1, KeyAssumption DEF GoesDown
<1>2. CASE UNCHANGED crashes
  BY <1>2
<1>3. ASSUME NEW c \in KeyCallers, NEW i \in KeyIds \cup ConfigNames,
             \/ \E key \in PageKey : Create(c, key)
             \/ Remove(c, i)
             \/ \E expected \in Creators, person \in Creators \ {Nobody} : Adopt(c, i, expected, person)
      PROVE  UNCHANGED crashes
  BY <1>3 DEF Create, Remove, Adopt, ChangesKeys
<1>4. ASSUME NEW c \in KeyCallers, NEW key \in PageKey, Create(c, key)
      PROVE  UNCHANGED crashes
  BY <1>4 DEF Create, ChangesKeys
<1>5. CASE SyncTemp \/ Rename \/ SyncDirectory \/ WriteFails \/ Publish \/ StartStore \/ UNCHANGED keyVars
  BY <1>5 DEF SyncTemp, Rename, SyncDirectory, WriteFails, Publish, StartStore, keyVars
<1>6. KillStore \/ PowerLossStore => GoesDown
  BY DEF KillStore, PowerLossStore
<1> QED BY <1>1, <1>2, <1>3, <1>4, <1>5, <1>6 DEF KeysNext

(* The type invariant of the key store: what is in memory, on the disk and   *)
(* on its way there are whole sets of keys (McpKeyStore, atomic_write_file). *)
THEOREM KeysTypeCorrect == KeysSpec => []KeyTypeOK
<1> DEFINE Typed == KeyInv /\ crashes \in 0..MaxCrashes
<1>1. KeysInit => Typed
  BY KeyInvStarts, KeyAssumption DEF KeysInit
<1>2. Typed /\ [KeysNext]_keyVars => Typed'
  BY KeyInvSteps, CrashesSteps
<1>3. Typed => KeyTypeOK
  BY DEF KeyInv, KeyShape, KeyTypeOK, KeyWrites
<1> QED BY <1>1, <1>2, <1>3, PTL DEF KeysSpec
-----------------------------------------------------------------------------
(* What is counted of the use of the keys.                                   *)
UsageOK(u) ==
  /\ u = [p \in Processes |-> u[p]]
  /\ \A p \in Processes :
       u[p] = [boots |-> u[p].boots, mode |-> u[p].mode, live |-> u[p].live, entries |-> u[p].entries, dirty |-> u[p].dirty,
               conflict |-> u[p].conflict, seen |-> u[p].seen, last |-> u[p].last, save |-> u[p].save]

OthersStay(u, v, p) == \A q \in Processes \ {p} : v[q] = u[q]

(* p is up as before, has seen what it saw, and finds no conflict.           *)
Keeps(u, v, p) ==
  /\ UsageOK(v)
  /\ v[p].seen = u[p].seen /\ v[p].mode = u[p].mode /\ (v[p].conflict = u[p].conflict \/ v[p].conflict = FALSE)
  /\ OthersStay(u, v, p)

(* p starts or ends.                                                         *)
Replaced(u, v, p, seen, how) ==
  UsageOK(v) /\ v[p].seen = seen /\ v[p].mode = how /\ v[p].conflict = FALSE /\ OthersStay(u, v, p)

(* A file that an earlier start of a process wrote, or this one, is the one  *)
(* that the process saw last.                                                *)
SeesItsOwn ==
  \A p \in Processes : Up(p) /\ file # NoFile /\ file.header.boot[1] = p => usage[p].seen = file.header

SeenInv == UsageOK(usage) /\ SeesItsOwn

ConflictIsOthers == \A p \in Processes : ~usage[p].conflict /\ usage'[p].conflict => file.header.boot[1] # p

SeenKept == SeenInv' /\ ConflictIsOthers
-----------------------------------------------------------------------------
(* Changes of one field of one process.                                      *)
LEMMA SaveField ==
  ASSUME NEW u, UsageOK(u), NEW p \in Processes, NEW x
  PROVE  Keeps(u, [u EXCEPT ![p].save = x], p)
BY DEF UsageOK, Keeps, OthersStay

LEMMA DirtyField ==
  ASSUME NEW u, UsageOK(u), NEW p \in Processes, NEW x
  PROVE  Keeps(u, [u EXCEPT ![p].dirty = x], p)
BY DEF UsageOK, Keeps, OthersStay

LEMMA LastField ==
  ASSUME NEW u, UsageOK(u), NEW p \in Processes, NEW x
  PROVE  Keeps(u, [u EXCEPT ![p].last = x], p)
BY DEF UsageOK, Keeps, OthersStay

LEMMA EntriesField ==
  ASSUME NEW u, UsageOK(u), NEW p \in Processes, NEW x
  PROVE  Keeps(u, [u EXCEPT ![p].entries = x], p)
BY DEF UsageOK, Keeps, OthersStay

LEMMA LiveField ==
  ASSUME NEW u, UsageOK(u), NEW p \in Processes, NEW x
  PROVE  Keeps(u, [u EXCEPT ![p].live = x], p)
BY DEF UsageOK, Keeps, OthersStay

LEMMA ConflictField ==
  ASSUME NEW u, UsageOK(u), NEW p \in Processes, NEW x
  PROVE  LET v == [u EXCEPT ![p].conflict = x]
         IN  UsageOK(v) /\ v[p].seen = u[p].seen /\ v[p].mode = u[p].mode /\ OthersStay(u, v, p)
BY DEF UsageOK, OthersStay

LEMMA ConflictEnds ==
  ASSUME NEW u, UsageOK(u), NEW p \in Processes
  PROVE  Keeps(u, [u EXCEPT ![p].conflict = FALSE], p)
<1> DEFINE v == [u EXCEPT ![p].conflict = FALSE]
<1>1. v[p].conflict = FALSE
  BY DEF UsageOK
<1>2. UsageOK(v) /\ v[p].seen = u[p].seen /\ v[p].mode = u[p].mode /\ OthersStay(u, v, p)
  BY ConflictField
<1> HIDE DEF v
<1>3. Keeps(u, v, p)
  BY <1>1, <1>2 DEF Keeps
<1> QED BY <1>3 DEF v

LEMMA SeenField ==
  ASSUME NEW u, UsageOK(u), NEW p \in Processes, NEW x
  PROVE  LET v == [u EXCEPT ![p].seen = x]
         IN  UsageOK(v) /\ v[p].seen = x /\ v[p].conflict = u[p].conflict /\ OthersStay(u, v, p)
BY DEF UsageOK, OthersStay

LEMMA WholeProcess ==
  ASSUME NEW u, UsageOK(u), NEW p \in Processes, NEW b, NEW m, NEW l, NEW e, NEW d, NEW s, NEW t, NEW w
  PROVE  Replaced(u, [u EXCEPT ![p] = [boots |-> b, mode |-> m, live |-> l, entries |-> e, dirty |-> d, conflict |-> FALSE,
                                       seen |-> s, last |-> t, save |-> w]], p, s, m)
BY DEF UsageOK, OthersStay, Replaced

LEMMA KeepsMore ==
  ASSUME NEW u, NEW v, NEW w, NEW p \in Processes, Keeps(u, v, p), Keeps(v, w, p)
  PROVE  Keeps(u, w, p)
BY DEF Keeps, OthersStay
-----------------------------------------------------------------------------
LEMMA KeepsEnough ==
  ASSUME SeenInv, NEW p \in Processes, Keeps(usage, usage', p), UNCHANGED file
  PROVE  SeenKept
BY DEF SeenInv, SeesItsOwn, Keeps, OthersStay, Up, SeenKept, ConflictIsOthers

LEMMA RecordKeeps == ASSUME SeenInv, NEW p \in Processes, NEW k \in Ids, RecordUse(p, k) PROVE SeenKept
<1> DEFINE e == [usage[p].entries EXCEPT ![k] = [count |-> Count(usage[p].entries, k) + 1,
                   deleted |-> IF usage[p].entries[k] = Absent THEN 0 ELSE usage[p].entries[k].deleted]]
           v == [usage EXCEPT ![p].entries = e]
<1>0. UsageOK(usage)
  BY DEF SeenInv
<1>1. usage' = [v EXCEPT ![p].dirty = TRUE] /\ UNCHANGED file
  BY DEF RecordUse
<1>2. Keeps(usage, v, p)
  BY <1>0, EntriesField
<1> HIDE DEF v
<1>3. Keeps(v, usage', p)
  <2>1. UsageOK(v)
    BY <1>2 DEF Keeps
  <2> QED BY <1>1, <2>1, DirtyField
<1> QED BY <1>1, <1>2, <1>3, KeepsMore, KeepsEnough

LEMMA DeleteKeeps == ASSUME SeenInv, NEW p \in Processes, NEW k \in Ids, DeleteKey(p, k) PROVE SeenKept
<1>1. PICK e : /\ usage' = [usage EXCEPT ![p].entries = e, ![p].dirty = TRUE, ![p].live = @ \ {k}]
               /\ UNCHANGED file
  BY DEF DeleteKey
<1> DEFINE v == [usage EXCEPT ![p].entries = e]
           w == [v EXCEPT ![p].dirty = TRUE]
<1>2. Keeps(usage, v, p)
  BY EntriesField DEF SeenInv
<1>3. \E x : usage' = [w EXCEPT ![p].live = x]
  BY <1>1
<1> HIDE DEF v
<1>4. Keeps(v, w, p)
  BY <1>2, DirtyField DEF Keeps
<1> HIDE DEF w
<1>5. Keeps(w, usage', p)
  <2>1. UsageOK(w)
    BY <1>4 DEF Keeps
  <2>2. PICK x : usage' = [w EXCEPT ![p].live = x]
    BY <1>3
  <2> QED BY <2>1, <2>2, LiveField
<1> QED BY <1>1, <1>2, <1>4, <1>5, KeepsMore, KeepsEnough

LEMMA SaveBeginsKeeps == ASSUME SeenInv, NEW p \in Processes, SaveBegins(p) PROVE SeenKept
<1>1. PICK x : usage' = [usage EXCEPT ![p].dirty = FALSE, ![p].last = now, ![p].save = x] /\ UNCHANGED file
  BY DEF SaveBegins
<1> DEFINE v == [usage EXCEPT ![p].dirty = FALSE]
           w == [v EXCEPT ![p].last = now]
<1>2. Keeps(usage, v, p)
  BY DirtyField DEF SeenInv
<1>3. usage' = [w EXCEPT ![p].save = x]
  BY <1>1
<1> HIDE DEF v
<1>4. Keeps(v, w, p)
  BY <1>2, LastField DEF Keeps
<1> HIDE DEF w
<1>5. Keeps(w, usage', p)
  <2>1. UsageOK(w)
    BY <1>4 DEF Keeps
  <2> QED BY <1>3, <2>1, SaveField
<1> QED BY <1>1, <1>2, <1>4, <1>5, KeepsMore, KeepsEnough

(* A save that fails; only the file of another process is a conflict.        *)
LEMMA SaveFailsKeeps ==
  ASSUME SeenInv, NEW p \in Processes, NEW conflict \in BOOLEAN, SaveFails(p, conflict), UNCHANGED file,
         conflict = TRUE => file.header.boot[1] # p
  PROVE  SeenKept
<1> DEFINE v == [usage EXCEPT ![p].save = NoSave]
           w == [v EXCEPT ![p].dirty = TRUE]
<1>1. usage' = [w EXCEPT ![p].conflict = conflict]
  BY DEF SaveFails
<1>2. Keeps(usage, v, p)
  BY SaveField DEF SeenInv
<1> HIDE DEF v
<1>3. Keeps(v, w, p)
  BY <1>2, DirtyField DEF Keeps
<1> HIDE DEF w
<1>4. Keeps(usage, w, p)
  BY <1>2, <1>3, KeepsMore
<1>5. UsageOK(w)
  BY <1>3 DEF Keeps
<1>6. UsageOK(usage') /\ usage'[p].seen = w[p].seen /\ usage'[p].mode = w[p].mode /\ OthersStay(w, usage', p)
  BY <1>1, <1>5, ConflictField
<1>7. UsageOK(usage') /\ usage'[p].seen = usage[p].seen /\ usage'[p].mode = usage[p].mode /\ OthersStay(usage, usage', p)
  BY <1>4, <1>6 DEF Keeps, OthersStay
<1>8. SeesItsOwn'
  BY <1>7 DEF SeenInv, SeesItsOwn, OthersStay, Up
<1>9. usage'[p].conflict = conflict
  BY <1>1, <1>5 DEF UsageOK
<1>10. ConflictIsOthers
  <2> SUFFICES ASSUME NEW q \in Processes, ~usage[q].conflict, usage'[q].conflict PROVE file.header.boot[1] # q
    BY DEF ConflictIsOthers
  <2>1. CASE q = p
    BY <2>1, <1>9
  <2>2. CASE q # p
    BY <2>2, <1>7 DEF OthersStay
  <2> QED BY <2>1, <2>2
<1> QED BY <1>7, <1>8, <1>10 DEF SeenKept, SeenInv

LEMMA OpensKeeps == ASSUME SeenInv, NEW p \in Processes, OpensSave(p) PROVE SeenKept
<1>0. UNCHANGED file /\ Up(p)
  BY DEF OpensSave, Saving
<1>1. CASE OthersFile(p) /\ SaveFails(p, TRUE)
  <2>1. file.header.boot[1] # p
    BY <1>0, <1>1 DEF OthersFile, OthersBoot, SeenInv, SeesItsOwn
  <2> QED BY <1>0, <1>1, <2>1, SaveFailsKeeps
<1>2. CASE SaveFails(p, FALSE)
  BY <1>0, <1>2, SaveFailsKeeps
<1>3. CASE usage' = [usage EXCEPT ![p].save.step = "takes"]
  <2>1. usage' = [usage EXCEPT ![p].save = [usage[p].save EXCEPT !.step = "takes"]]
    BY <1>3
  <2>2. Keeps(usage, usage', p)
    BY <2>1, SaveField DEF SeenInv
  <2> QED BY <1>0, <2>2, KeepsEnough
<1> QED BY <1>1, <1>2, <1>3 DEF OpensSave

LEMMA TakesKeeps == ASSUME SeenInv, NEW p \in Processes, NEW k \in Ids, TakesEntry(p, k) PROVE SeenKept
<1> DEFINE v == [usage EXCEPT ![p].save = [usage[p].save EXCEPT !.todo = @ \ {k}]]
<1>0. UNCHANGED file
  BY DEF TakesEntry
<1>1. \E x : usage' = [v EXCEPT ![p].save = x]
  BY DEF TakesEntry
<1>2. Keeps(usage, v, p)
  BY SaveField DEF SeenInv
<1> HIDE DEF v
<1>3. Keeps(v, usage', p)
  <2>1. UsageOK(v)
    BY <1>2 DEF Keeps
  <2>2. PICK x : usage' = [v EXCEPT ![p].save = x]
    BY <1>1
  <2> QED BY <2>1, <2>2, SaveField
<1> QED BY <1>0, <1>2, <1>3, KeepsMore, KeepsEnough
-----------------------------------------------------------------------------
(* The process p becomes one that has seen the file as it is now.            *)
LEMMA SeenAnew ==
  ASSUME SeenInv, NEW p \in Processes, UsageOK(usage'), OthersStay(usage, usage', p),
         Up(p)' /\ file' # NoFile /\ file'.header.boot[1] = p => usage'[p].seen = file'.header,
         usage'[p].conflict = FALSE \/ usage'[p].conflict = usage[p].conflict,
         \/ file' = file
         \/ file' # NoFile /\ file'.header.boot[1] = p
  PROVE  SeenKept
<1>1. SeesItsOwn'
  <2> SUFFICES ASSUME NEW q \in Processes, Up(q)', file' # NoFile, file'.header.boot[1] = q
               PROVE  usage'[q].seen = file'.header
    BY DEF SeesItsOwn
  <2>1. CASE q = p
    BY <2>1
  <2>2. CASE q # p
    BY <2>2 DEF SeenInv, SeesItsOwn, OthersStay, Up
  <2> QED BY <2>1, <2>2
<1>2. ConflictIsOthers
  <2> SUFFICES ASSUME NEW q \in Processes, ~usage[q].conflict, usage'[q].conflict PROVE FALSE
    BY DEF ConflictIsOthers
  <2> QED BY DEF OthersStay
<1> QED BY <1>1, <1>2 DEF SeenKept, SeenInv

LEMMA StartKeeps == ASSUME SeenInv, NEW p \in Processes, StartUsage(p) PROVE SeenKept
<1>1. UNCHANGED file /\ (file = NoFile \/ LoadsFile(file))
  BY DEF StartUsage
<1> DEFINE seen == IF LoadsFile(file) THEN file.header ELSE NoFile
<1>2. \E m, l, e, d : usage' = [usage EXCEPT ![p] =
        [boots |-> usage[p].boots + 1, mode |-> m, live |-> l, entries |-> e, dirty |-> d, conflict |-> FALSE,
         seen |-> seen, last |-> now, save |-> NoSave]]
  BY DEF StartUsage
<1> HIDE DEF seen
<1>3. PICK m, l, e, d : usage' = [usage EXCEPT ![p] =
        [boots |-> usage[p].boots + 1, mode |-> m, live |-> l, entries |-> e, dirty |-> d, conflict |-> FALSE,
         seen |-> seen, last |-> now, save |-> NoSave]]
  BY <1>2
<1>4. Replaced(usage, usage', p, seen, m)
  BY <1>3, WholeProcess DEF SeenInv
<1>5. file # NoFile => seen = file.header
  BY <1>1 DEF seen
<1> QED BY <1>1, <1>4, <1>5, SeenAnew DEF Replaced

LEMMA EndsKeeps == ASSUME SeenInv, NEW p \in Processes, ProcessEnds(p) PROVE SeenKept
<1>1. UNCHANGED file /\ usage' = [usage EXCEPT ![p] = Gone(usage[p].boots)]
  BY DEF ProcessEnds
<1>2. Replaced(usage, usage', p, NoFile, "down")
  BY <1>1, WholeProcess DEF SeenInv, Gone
<1>3. ~Up(p)'
  BY <1>2 DEF Up, Replaced
<1> QED BY <1>1, <1>2, <1>3, SeenAnew DEF Replaced

LEMMA CommitKeeps == ASSUME SeenInv, NEW p \in Processes, CommitsSave(p) PROVE SeenKept
<1>1. CASE usage' = [usage EXCEPT ![p].save = NoSave, ![p].dirty = TRUE] /\ UNCHANGED file
  <2> DEFINE v == [usage EXCEPT ![p].save = NoSave]
  <2>1. Keeps(usage, v, p)
    BY SaveField DEF SeenInv
  <2>2. usage' = [v EXCEPT ![p].dirty = TRUE]
    BY <1>1
  <2> HIDE DEF v
  <2>3. Keeps(v, usage', p)
    <3>1. UsageOK(v)
      BY <2>1 DEF Keeps
    <3> QED BY <2>2, <3>1, DirtyField
  <2> QED BY <1>1, <2>1, <2>3, KeepsMore, KeepsEnough
<1>2. ASSUME NEW header, header = [boot |-> Boot(p), at |-> usage[p].save.at],
             file' = [header |-> header, entries |-> usage[p].save.rows],
             usage' = [usage EXCEPT ![p].seen = header, ![p].save.step = "commits"]
      PROVE  SeenKept
  <2> DEFINE v == [usage EXCEPT ![p].seen = header]
  <2>1. UsageOK(v) /\ v[p].seen = header /\ v[p].conflict = usage[p].conflict /\ OthersStay(usage, v, p)
    BY SeenField DEF SeenInv
  <2>2. \E x : usage' = [v EXCEPT ![p].save = x]
    BY <1>2
  <2> HIDE DEF v
  <2>3. Keeps(v, usage', p)
    <3>1. PICK x : usage' = [v EXCEPT ![p].save = x]
      BY <2>2
    <3> QED BY <2>1, <3>1, SaveField
  <2>4. /\ UsageOK(usage') /\ usage'[p].seen = header /\ OthersStay(usage, usage', p)
        /\ usage'[p].conflict = FALSE \/ usage'[p].conflict = usage[p].conflict
    BY <2>1, <2>3 DEF Keeps, OthersStay
  <2>5. file'.header = header /\ header.boot[1] = p
    BY <1>2 DEF Boot
  <2>6. CASE file' # NoFile
    BY <2>4, <2>5, <2>6, SeenAnew
  <2>7. CASE file' = NoFile
    <3>1. SeesItsOwn'
      BY <2>7 DEF SeesItsOwn
    <3>2. ConflictIsOthers
      BY <2>4 DEF ConflictIsOthers, OthersStay
    <3> QED BY <2>4, <3>1, <3>2 DEF SeenKept, SeenInv
  <2> QED BY <2>6, <2>7
<1> QED BY <1>1, <1>2 DEF CommitsSave

LEMMA SaveEndsKeeps == ASSUME SeenInv, NEW p \in Processes, SaveEnds(p) PROVE SeenKept
<1> DEFINE v == [usage EXCEPT ![p].save = NoSave]
<1>1. usage' = [v EXCEPT ![p].conflict = FALSE] /\ UNCHANGED file
  BY DEF SaveEnds
<1>2. Keeps(usage, v, p)
  BY SaveField DEF SeenInv
<1> HIDE DEF v
<1>3. Keeps(v, usage', p)
  <2>1. UsageOK(v)
    BY <1>2 DEF Keeps
  <2> QED BY <1>1, <2>1, ConflictEnds
<1> QED BY <1>1, <1>2, <1>3, KeepsMore, KeepsEnough
-----------------------------------------------------------------------------
LEMMA SeenInvStarts == UsageInit => SeenInv
<1> SUFFICES ASSUME UsageInit PROVE SeenInv
  OBVIOUS
<1>1. UsageOK(usage)
  <2>1. /\ Gone(0) = [boots |-> Gone(0).boots, mode |-> Gone(0).mode, live |-> Gone(0).live, entries |-> Gone(0).entries,
                      dirty |-> Gone(0).dirty, conflict |-> Gone(0).conflict, seen |-> Gone(0).seen, last |-> Gone(0).last,
                      save |-> Gone(0).save]
    BY DEF Gone
  <2>2. usage = [p \in Processes |-> Gone(0)]
    BY DEF UsageInit
  <2> QED BY <2>1, <2>2 DEF UsageOK
<1>2. SeesItsOwn
  BY DEF UsageInit, SeesItsOwn
<1> QED BY <1>1, <1>2 DEF SeenInv

LEMMA SeenInvSteps == SeenInv /\ [UsageNext]_usageVars => SeenKept
<1> SUFFICES ASSUME SeenInv, [UsageNext]_usageVars PROVE SeenKept
  OBVIOUS
<1>1. CASE UNCHANGED <<file, usage>>
  BY <1>1 DEF SeenInv, UsageOK, SeesItsOwn, Up, SeenKept, ConflictIsOthers
<1> QED
  BY <1>1, StartKeeps, EndsKeeps, SaveBeginsKeeps, OpensKeeps, CommitKeeps, SaveEndsKeeps, RecordKeeps, DeleteKeeps, TakesKeeps
  DEF UsageNext, TimePasses, usageVars

(* RestartIsNoConflict: only the file of another process is a conflict, for  *)
(* any number of processes, starts and kills.                                *)
THEOREM OwnFileIsNoConflict == UsageSpec => RestartIsNoConflict
<1>1. SeenInv /\ [UsageNext]_usageVars => SeenInv' /\ ConflictIsOthers
  BY SeenInvSteps DEF SeenKept
<1>2. ConflictIsOthers => [\A p \in Processes : ~usage[p].conflict /\ usage'[p].conflict => file.header.boot[1] # p]_usageVars
  BY DEF ConflictIsOthers
<1> QED BY SeenInvStarts, <1>1, <1>2, PTL DEF UsageSpec, RestartIsNoConflict
-----------------------------------------------------------------------------
(* What a save takes, and what a kill would lose.                            *)
Entry   == [count : Nat, deleted : Nat]
Header  == [boot : Processes \X Nat, at : Nat]

(* A person of the identity mode is never deleted.                           *)
EntriesOK(e) == e \in [Ids -> Entry \cup {Absent}] /\ \A k \in Subjects : e[k] # Absent => e[k].deleted = 0

SaveOK(w, last) ==
  \/ w = NoSave
  \/ /\ w = [step |-> w.step, at |-> last, todo |-> w.todo, rows |-> w.rows]
     /\ w.step \in {"begins", "takes", "commits"} /\ EntriesOK(w.rows)

ProcessOK(u) ==
  /\ u.boots \in Nat /\ u.last \in Nat
  /\ u.live \subseteq UsageKeys /\ EntriesOK(u.entries)
  /\ \A k \in u.live : u.entries[k] # Absent => u.entries[k].deleted = 0
  /\ SaveOK(u.save, u.last)

Taking(u) == u.save.step \in {"begins", "takes"}

(* e has of each key of K as many requests as f, but for those deleted.      *)
AtLeast(e, f, live, K) == \A k \in K : Count(e, k) >= Count(f, k) \/ k \in UsageKeys \ live

(* The keys that are there, without those that the start may have dropped    *)
(* from a file with more deleted keys than the bound.                        *)
Safe(live, f) == IF Cardinality(DeletedOf(f)) > MaxDeleted THEN live \ DeletedOf(f) ELSE live

(* The rows of a save are between what it saw in the file and the entries,   *)
(* and they are the entries where nothing was counted meanwhile.             *)
Tracks(u, f) ==
  /\ Taking(u) => AtLeast(u.entries, u.save.rows, u.live, Ids)
  /\ f # NoFile /\ u.seen = f.header =>
       /\ AtLeast(u.entries, f.entries, Safe(u.live, f.entries), Ids)
       /\ Taking(u) => AtLeast(u.save.rows, f.entries, Safe(u.live, f.entries), Ids \ u.save.todo)
  /\ Taking(u) /\ ~u.dirty => \A k \in Ids \ u.save.todo : u.save.rows[k] = u.entries[k]

Marked(u, f, boot) == ~Taking(u) /\ ~u.dirty /\ f # NoFile /\ f.header.boot = boot => f.entries = u.entries

(* A header was written by a start that is over, or before what q now saves. *)
Old(h, u) ==
  /\ h.boot[2] <= u.boots
  /\ h.boot[2] = u.boots /\ u.mode # "down" => h.at <= u.last /\ (Taking(u) => h.at < u.save.at)

HeaderOK(h) == h \in Header /\ \A q \in Processes : h.boot[1] = q => Old(h, usage[q])

LossInv ==
  /\ now \in Nat /\ UsageOK(usage)
  /\ \A p \in Processes :
       /\ ProcessOK(usage[p]) /\ Tracks(usage[p], file)
       /\ Up(p) => Marked(usage[p], file, Boot(p))
       /\ usage[p].seen = NoFile \/ HeaderOK(usage[p].seen)
  /\ file # NoFile => HeaderOK(file.header) /\ EntriesOK(file.entries)
-----------------------------------------------------------------------------
(* Changes of the fields of one process.                                     *)
Is(u, p, b, m, l, e, d, c, s, t, w) ==
  u[p] = [boots |-> b, mode |-> m, live |-> l, entries |-> e, dirty |-> d, conflict |-> c, seen |-> s, last |-> t, save |-> w]

Turns(u, v, p) == UsageOK(v) /\ OthersStay(u, v, p)

LEMMA IsItself ==
  ASSUME NEW u, UsageOK(u), NEW p \in Processes
  PROVE  Is(u, p, u[p].boots, u[p].mode, u[p].live, u[p].entries, u[p].dirty, u[p].conflict, u[p].seen, u[p].last, u[p].save)
BY DEF UsageOK, Is

LEMMA TurnsWhole ==
  ASSUME NEW u, UsageOK(u), NEW p \in Processes, NEW b, NEW m, NEW l, NEW e, NEW d, NEW c, NEW s, NEW t, NEW w,
         NEW v, v = [u EXCEPT ![p] = [boots |-> b, mode |-> m, live |-> l, entries |-> e, dirty |-> d, conflict |-> c,
                                      seen |-> s, last |-> t, save |-> w]]
  PROVE  Turns(u, v, p) /\ Is(v, p, b, m, l, e, d, c, s, t, w)
BY DEF UsageOK, Is, Turns, OthersStay

LEMMA TurnsEntries ==
  ASSUME NEW u, UsageOK(u), NEW p \in Processes, NEW b, NEW m, NEW l, NEW e, NEW d, NEW c, NEW s, NEW t, NEW w,
         Is(u, p, b, m, l, e, d, c, s, t, w), NEW x
  PROVE  LET v == [u EXCEPT ![p].entries = x] IN Turns(u, v, p) /\ Is(v, p, b, m, l, x, d, c, s, t, w)
BY DEF UsageOK, Is, Turns, OthersStay

LEMMA TurnsDirty ==
  ASSUME NEW u, UsageOK(u), NEW p \in Processes, NEW b, NEW m, NEW l, NEW e, NEW d, NEW c, NEW s, NEW t, NEW w,
         Is(u, p, b, m, l, e, d, c, s, t, w), NEW x
  PROVE  LET v == [u EXCEPT ![p].dirty = x] IN Turns(u, v, p) /\ Is(v, p, b, m, l, e, x, c, s, t, w)
BY DEF UsageOK, Is, Turns, OthersStay

LEMMA TurnsLive ==
  ASSUME NEW u, UsageOK(u), NEW p \in Processes, NEW b, NEW m, NEW l, NEW e, NEW d, NEW c, NEW s, NEW t, NEW w,
         Is(u, p, b, m, l, e, d, c, s, t, w), NEW x
  PROVE  LET v == [u EXCEPT ![p].live = x] IN Turns(u, v, p) /\ Is(v, p, b, m, x, e, d, c, s, t, w)
BY DEF UsageOK, Is, Turns, OthersStay

LEMMA TurnsLast ==
  ASSUME NEW u, UsageOK(u), NEW p \in Processes, NEW b, NEW m, NEW l, NEW e, NEW d, NEW c, NEW s, NEW t, NEW w,
         Is(u, p, b, m, l, e, d, c, s, t, w), NEW x
  PROVE  LET v == [u EXCEPT ![p].last = x] IN Turns(u, v, p) /\ Is(v, p, b, m, l, e, d, c, s, x, w)
BY DEF UsageOK, Is, Turns, OthersStay

LEMMA TurnsSave ==
  ASSUME NEW u, UsageOK(u), NEW p \in Processes, NEW b, NEW m, NEW l, NEW e, NEW d, NEW c, NEW s, NEW t, NEW w,
         Is(u, p, b, m, l, e, d, c, s, t, w), NEW x
  PROVE  LET v == [u EXCEPT ![p].save = x] IN Turns(u, v, p) /\ Is(v, p, b, m, l, e, d, c, s, t, x)
BY DEF UsageOK, Is, Turns, OthersStay

LEMMA TurnsSeen ==
  ASSUME NEW u, UsageOK(u), NEW p \in Processes, NEW b, NEW m, NEW l, NEW e, NEW d, NEW c, NEW s, NEW t, NEW w,
         Is(u, p, b, m, l, e, d, c, s, t, w), NEW x
  PROVE  LET v == [u EXCEPT ![p].seen = x] IN Turns(u, v, p) /\ Is(v, p, b, m, l, e, d, c, x, t, w)
BY DEF UsageOK, Is, Turns, OthersStay

LEMMA TurnsConflict ==
  ASSUME NEW u, UsageOK(u), NEW p \in Processes, NEW b, NEW m, NEW l, NEW e, NEW d, NEW c, NEW s, NEW t, NEW w,
         Is(u, p, b, m, l, e, d, c, s, t, w), NEW x
  PROVE  LET v == [u EXCEPT ![p].conflict = x] IN Turns(u, v, p) /\ Is(v, p, b, m, l, e, d, x, s, t, w)
BY DEF UsageOK, Is, Turns, OthersStay
-----------------------------------------------------------------------------
(* What the operations do to the entries.                                    *)
LEMMA Apart == /\ Absent \notin Entry /\ NoFile \notin Header /\ UsageKeys \cap Subjects = {}
               /\ Ids = UsageKeys \cup Subjects
BY UsageAssumption DEF Entry, Header, Ids

LEMMA CountIsNat ==
  ASSUME NEW e, EntriesOK(e), NEW k \in Ids
  PROVE  Count(e, k) \in Nat /\ (e[k] # Absent => e[k] \in Entry /\ Count(e, k) = e[k].count)
BY DEF EntriesOK, Count, Entry

LEMMA NoEntriesOK == EntriesOK(NoEntries) /\ \A k \in Ids : Count(NoEntries, k) = 0 /\ NoEntries[k] = Absent
BY Apart DEF EntriesOK, NoEntries, Count

LEMMA AtLeastMore ==
  ASSUME NEW e, EntriesOK(e), NEW f, EntriesOK(f), NEW g, EntriesOK(g), NEW l, NEW m, m \subseteq l, NEW K, K \subseteq Ids,
         AtLeast(e, f, m, K), AtLeast(f, g, l, K)
  PROVE  AtLeast(e, g, m, K)
BY CountIsNat DEF AtLeast

LEMMA AtLeastFewer ==
  ASSUME NEW e, NEW f, NEW l, NEW m, m \subseteq l, NEW K, AtLeast(e, f, l, K)
  PROVE  AtLeast(e, f, m, K)
BY DEF AtLeast

LEMMA SafeIsLive ==
  ASSUME NEW f, NEW l, NEW m, m \subseteq l
  PROVE  Safe(l, f) \subseteq l /\ Safe(m, f) \subseteq Safe(l, f) /\ (l \subseteq UsageKeys => Safe(m, f) \subseteq UsageKeys)
BY DEF Safe

LEMMA AtLeastItself == ASSUME NEW e, EntriesOK(e), NEW l PROVE AtLeast(e, e, l, Ids)
BY CountIsNat DEF AtLeast

(* Only deleted keys are removed.                                            *)
LEMMA CappedKeeps ==
  ASSUME NEW s, EntriesOK(s), NEW l, l \subseteq UsageKeys, \A k \in l : s[k] # Absent => s[k].deleted = 0,
         NEW e \in CappedDeleted(s)
  PROVE  EntriesOK(e) /\ (\A k \in l : e[k] # Absent => e[k].deleted = 0) /\ AtLeast(e, s, l, Ids)
<1>1. PICK gone \in SUBSET DeletedOf(s) : e = [k \in Ids |-> IF k \in gone THEN Absent ELSE s[k]]
  BY DEF CappedDeleted
<1>2. \A k \in gone : k \in Ids /\ s[k] # Absent /\ s[k].deleted # 0
  BY <1>1 DEF DeletedOf, Entered
<1>3. \A k \in gone : k \in UsageKeys \ l
  BY <1>2, Apart DEF EntriesOK
<1>4. \A k \in Ids : e[k] = IF k \in gone THEN Absent ELSE s[k]
  BY <1>1
<1>5. EntriesOK(e)
  BY <1>1, <1>4, Apart DEF EntriesOK
<1>6. \A k \in l : e[k] # Absent => e[k].deleted = 0
  BY <1>3, <1>4, Apart
<1>7. AtLeast(e, s, l, Ids)
  <2> SUFFICES ASSUME NEW k \in Ids PROVE Count(e, k) >= Count(s, k) \/ k \in UsageKeys \ l
    BY DEF AtLeast
  <2>1. CASE k \in gone
    BY <1>3, <2>1
  <2>2. CASE k \notin gone
    <3>1. Count(e, k) = Count(s, k)
      BY <1>4, <2>2 DEF Count
    <3> QED BY <3>1, CountIsNat
  <2> QED BY <2>1, <2>2
<1> QED BY <1>5, <1>6, <1>7

(* A start drops of what it loaded only what is deleted, and nothing as long *)
(* as no more is deleted than the bound.                                     *)
LEMMA CappedIsSafe ==
  ASSUME NEW f, EntriesOK(f), NEW l, l \subseteq UsageKeys, NEW e \in CappedDeleted(f)
  PROVE  EntriesOK(e) /\ AtLeast(e, f, Safe(l, f), Ids)
<1>1. PICK gone \in SUBSET DeletedOf(f) :
             /\ e = [k \in Ids |-> IF k \in gone THEN Absent ELSE f[k]]
             /\ gone # {} => Cardinality(DeletedOf(f) \ gone) = MaxDeleted
  BY DEF CappedDeleted
<1>2. \A k \in gone : k \in UsageKeys
  BY <1>1, Apart DEF EntriesOK, DeletedOf, Entered
<1>3. \A k \in Ids : e[k] = IF k \in gone THEN Absent ELSE f[k]
  BY <1>1
<1>4. EntriesOK(e)
  BY <1>1, <1>3, Apart DEF EntriesOK
<1>5. gone # {} => Cardinality(DeletedOf(f)) > MaxDeleted
  <2> SUFFICES ASSUME gone # {} PROVE Cardinality(DeletedOf(f)) > MaxDeleted
    OBVIOUS
  <2>1. DeletedOf(f) \subseteq UsageKeys
    BY Apart DEF EntriesOK, DeletedOf, Entered
  <2>2. IsFiniteSet(DeletedOf(f))
    BY <2>1, UsageAssumption, FS_Subset
  <2>3. DeletedOf(f) \ gone \subseteq DeletedOf(f) /\ DeletedOf(f) \ gone # DeletedOf(f)
    BY <1>1
  <2>4. /\ Cardinality(DeletedOf(f) \ gone) <= Cardinality(DeletedOf(f))
        /\ Cardinality(DeletedOf(f) \ gone) # Cardinality(DeletedOf(f))
    BY <2>2, <2>3, FS_Subset
  <2>5. Cardinality(DeletedOf(f)) \in Nat /\ MaxDeleted \in Nat
    BY <2>2, FS_CardinalityType, UsageAssumption
  <2> QED BY <1>1, <2>4, <2>5
<1>6. ASSUME NEW k \in Ids PROVE Count(e, k) >= Count(f, k) \/ k \in UsageKeys \ Safe(l, f)
  <2>1. CASE k \in gone
    BY <1>1, <1>2, <1>5, <2>1 DEF Safe
  <2>2. CASE k \notin gone
    <3>1. Count(e, k) = Count(f, k)
      BY <1>3, <2>2 DEF Count
    <3> QED BY <3>1, CountIsNat
  <2> QED BY <2>1, <2>2
<1> QED BY <1>4, <1>6 DEF AtLeast

LEMMA SyncedKeeps ==
  ASSUME now \in Nat, NEW f, EntriesOK(f), NEW l, l \subseteq UsageKeys
  PROVE  LET s == SyncedLive(f, l)
         IN  EntriesOK(s) /\ (\A k \in l : s[k] # Absent => s[k].deleted = 0) /\ AtLeast(s, f, l, Ids)
<1> DEFINE s == SyncedLive(f, l)
<1>1. \A k \in Ids : s[k] = IF f[k] = Absent \/ k \in Subjects THEN f[k]
                            ELSE IF k \in l THEN [f[k] EXCEPT !.deleted = 0]
                            ELSE IF f[k].deleted = 0 THEN [f[k] EXCEPT !.deleted = now] ELSE f[k]
  BY DEF SyncedLive
<1>2. s = [k \in Ids |-> s[k]]
  BY DEF SyncedLive
<1> HIDE DEF s
<1>3. ASSUME NEW k \in Ids
      PROVE  /\ s[k] \in Entry \cup {Absent} /\ (k \in Subjects => s[k] = f[k])
             /\ Count(s, k) = Count(f, k) /\ (k \in l /\ s[k] # Absent => s[k].deleted = 0)
  <2>1. CASE f[k] = Absent \/ k \in Subjects
    <3>1. s[k] = f[k]
      BY <1>1, <2>1
    <3> QED BY <2>1, <3>1, Apart DEF EntriesOK, Count
  <2>2. CASE f[k] # Absent /\ k \notin Subjects
    <3>1. PICK r \in Entry : r = f[k]
      BY <2>2 DEF EntriesOK
    <3>2. /\ [r EXCEPT !.deleted = 0] \in Entry /\ [r EXCEPT !.deleted = 0].count = r.count
          /\ [r EXCEPT !.deleted = 0].deleted = 0
          /\ [r EXCEPT !.deleted = now] \in Entry /\ [r EXCEPT !.deleted = now].count = r.count
      BY DEF Entry
    <3>3. s[k] \in Entry /\ s[k].count = r.count /\ (k \in l => s[k].deleted = 0)
      BY <1>1, <2>2, <3>1, <3>2
    <3> QED BY <2>2, <3>1, <3>3, Apart DEF Count
  <2> QED BY <2>1, <2>2
<1>4. EntriesOK(s)
  <2>1. \A k \in Subjects : s[k] # Absent => s[k].deleted = 0
    BY <1>3, Apart DEF EntriesOK
  <2>2. s \in [Ids -> Entry \cup {Absent}]
    BY <1>2, <1>3
  <2> QED BY <2>1, <2>2 DEF EntriesOK
<1>5. \A k \in l : s[k] # Absent => s[k].deleted = 0
  BY <1>3, Apart
<1>6. AtLeast(s, f, l, Ids)
  BY <1>3, CountIsNat DEF AtLeast
<1> QED BY <1>4, <1>5, <1>6 DEF s
-----------------------------------------------------------------------------
(* A process goes on: it is not an earlier start, and saves later.           *)
Advances(u, v) ==
  /\ u.boots <= v.boots
  /\ v.boots = u.boots /\ v.mode # "down" =>
       /\ u.mode # "down" /\ u.last <= v.last
       /\ Taking(v) => (Taking(u) /\ v.save.at = u.save.at) \/ u.last < v.save.at

HeaderIn(h, us) == h \in Header /\ \A q \in Processes : h.boot[1] = q => Old(h, us[q])

LEMMA HeaderStays ==
  ASSUME NEW us, NEW vs, NEW p \in Processes, OthersStay(us, vs, p), Advances(us[p], vs[p]),
         ProcessOK(us[p]), ProcessOK(vs[p]), NEW h, HeaderIn(h, us)
  PROVE  HeaderIn(h, vs)
<1> SUFFICES ASSUME h.boot[1] = p PROVE Old(h, vs[p])
  BY DEF HeaderIn, OthersStay
<1>1. h.boot[2] \in Nat /\ h.at \in Nat /\ Old(h, us[p])
  BY DEF HeaderIn, Header
<1>2. us[p].boots \in Nat /\ vs[p].boots \in Nat /\ us[p].last \in Nat /\ vs[p].last \in Nat
  BY DEF ProcessOK
<1>3. Taking(vs[p]) => vs[p].save.at = vs[p].last
  BY DEF ProcessOK, SaveOK, Taking, NoSave
<1>4. h.boot[2] <= vs[p].boots
  BY <1>1, <1>2 DEF Old, Advances
<1>5. ASSUME h.boot[2] = vs[p].boots, vs[p].mode # "down" PROVE h.at <= vs[p].last /\ (Taking(vs[p]) => h.at < vs[p].save.at)
  <2>1. us[p].boots = vs[p].boots /\ us[p].mode # "down" /\ us[p].last <= vs[p].last
    BY <1>1, <1>2, <1>5 DEF Old, Advances
  <2>2. h.at <= us[p].last
    BY <1>1, <1>5, <2>1 DEF Old
  <2>3. ASSUME Taking(vs[p]) PROVE h.at < vs[p].save.at
    <3>1. CASE Taking(us[p]) /\ vs[p].save.at = us[p].save.at
      BY <1>1, <1>5, <2>1, <3>1 DEF Old
    <3>2. CASE us[p].last < vs[p].save.at
      BY <1>1, <1>2, <1>3, <2>2, <2>3, <3>2
    <3> QED BY <1>5, <2>1, <2>3, <3>1, <3>2 DEF Advances
  <2> QED BY <1>1, <1>2, <2>1, <2>2, <2>3
<1> QED BY <1>4, <1>5 DEF Old

(* A step of p that leaves the file alone.                                   *)
LEMMA StepKeeps ==
  ASSUME LossInv, NEW p \in Processes, UNCHANGED <<now, file>>, Turns(usage, usage', p), NEW r, r = usage'[p],
         ProcessOK(r), Tracks(r, file), r.mode # "down" => Marked(r, file, <<p, r.boots>>), Advances(usage[p], r),
         r.seen = NoFile \/ r.seen = usage[p].seen \/ (file # NoFile /\ r.seen = file.header)
  PROVE  LossInv'
<1>1. PICK us : us = usage'
  OBVIOUS
<1>2. UsageOK(us) /\ OthersStay(usage, us, p) /\ us[p] = r
  BY <1>1 DEF Turns
<1>3. ASSUME NEW h, HeaderOK(h) PROVE HeaderIn(h, us)
  <2>1. HeaderIn(h, usage)
    BY <1>3 DEF HeaderOK, HeaderIn
  <2> QED BY <1>2, <2>1, HeaderStays DEF LossInv
<1>4. file # NoFile => HeaderIn(file.header, us) /\ EntriesOK(file.entries)
  BY <1>3 DEF LossInv
<1>5. ASSUME NEW q \in Processes
      PROVE  /\ ProcessOK(us[q]) /\ Tracks(us[q], file)
             /\ us[q].mode # "down" => Marked(us[q], file, <<q, us[q].boots>>)
             /\ us[q].seen = NoFile \/ HeaderIn(us[q].seen, us)
  <2>1. CASE q = p
    BY <1>2, <1>3, <1>4, <2>1 DEF LossInv
  <2>2. CASE q # p
    <3>1. us[q] = usage[q]
      BY <1>2, <2>2 DEF OthersStay
    <3> QED BY <1>3, <3>1 DEF LossInv, Up, Boot
  <2> QED BY <2>1, <2>2
<1> QED BY <1>1, <1>2, <1>4, <1>5 DEF LossInv, HeaderOK, HeaderIn, Up, Boot
-----------------------------------------------------------------------------
(* The steps.  First what they share: a call that counts or deletes.         *)
LEMMA EntriesChange ==
  ASSUME LossInv, NEW p \in Processes, UNCHANGED <<now, file>>, Up(p), Turns(usage, usage', p), NEW l, NEW e,
         Is(usage', p, usage[p].boots, usage[p].mode, l, e, TRUE, usage[p].conflict, usage[p].seen, usage[p].last,
            usage[p].save),
         l \subseteq usage[p].live, EntriesOK(e), \A k \in l : e[k] # Absent => e[k].deleted = 0,
         AtLeast(e, usage[p].entries, l, Ids)
  PROVE  LossInv'
<1>1. PICK r : r = usage'[p]
  OBVIOUS
<1>2. /\ r.boots = usage[p].boots /\ r.mode = usage[p].mode /\ r.live = l /\ r.entries = e /\ r.dirty = TRUE
      /\ r.seen = usage[p].seen /\ r.last = usage[p].last /\ r.save = usage[p].save
  BY <1>1 DEF Is
<1>3. PICK u : u = usage[p]
  OBVIOUS
<1>4. ProcessOK(u) /\ Tracks(u, file)
  BY <1>3 DEF LossInv
<1>5. ProcessOK(r)
  BY <1>2, <1>3, <1>4 DEF ProcessOK
<1>6. Tracks(r, file)
  <2>1. ASSUME Taking(r) PROVE AtLeast(e, r.save.rows, l, Ids)
    <3>1. AtLeast(u.entries, u.save.rows, u.live, Ids) /\ EntriesOK(u.save.rows) /\ EntriesOK(u.entries)
      BY <1>2, <1>3, <1>4, <2>1 DEF Tracks, Taking, ProcessOK, SaveOK, NoSave
    <3> QED BY <1>2, <1>3, <3>1, AtLeastMore
  <2>2. ASSUME file # NoFile, r.seen = file.header
        PROVE  /\ AtLeast(e, file.entries, Safe(l, file.entries), Ids)
               /\ Taking(r) => AtLeast(r.save.rows, file.entries, Safe(l, file.entries), Ids \ r.save.todo)
    <3> DEFINE m == Safe(u.live, file.entries)
               n == Safe(l, file.entries)
    <3>1. /\ AtLeast(u.entries, file.entries, m, Ids) /\ EntriesOK(u.entries) /\ EntriesOK(file.entries)
          /\ Taking(u) => AtLeast(u.save.rows, file.entries, m, Ids \ u.save.todo)
      BY <1>2, <1>3, <1>4, <2>2 DEF Tracks, ProcessOK, LossInv
    <3>2. n \subseteq l /\ n \subseteq m
      BY <1>3, SafeIsLive
    <3> HIDE DEF m, n
    <3>3. AtLeast(e, u.entries, n, Ids)
      BY <1>3, <3>2, AtLeastFewer
    <3>4. AtLeast(e, file.entries, n, Ids)
      BY <3>1, <3>2, <3>3, AtLeastMore
    <3>5. Taking(r) => AtLeast(r.save.rows, file.entries, n, Ids \ r.save.todo)
      BY <1>2, <1>3, <3>1, <3>2, AtLeastFewer DEF Taking
    <3> QED BY <3>4, <3>5 DEF n
  <2> QED BY <1>2, <2>1, <2>2 DEF Tracks
<1>7. Marked(r, file, <<p, r.boots>>)
  BY <1>2 DEF Marked
<1>8. Advances(usage[p], r)
  BY <1>2, <1>3, <1>4 DEF Advances, ProcessOK, Taking
<1> QED BY <1>1, <1>2, <1>5, <1>6, <1>7, <1>8, StepKeeps

LEMMA RecordIsKept == ASSUME LossInv, NEW p \in Processes, NEW k \in Ids, RecordUse(p, k) PROVE LossInv'
<1> DEFINE u == usage[p]
           x == [count |-> Count(u.entries, k) + 1, deleted |-> IF u.entries[k] = Absent THEN 0 ELSE u.entries[k].deleted]
           e == [u.entries EXCEPT ![k] = x]
           v == [usage EXCEPT ![p].entries = e]
<1>0. UsageOK(usage) /\ ProcessOK(u) /\ EntriesOK(u.entries)
  BY DEF LossInv, ProcessOK
<1>1. usage' = [v EXCEPT ![p].dirty = TRUE] /\ UNCHANGED <<now, file>> /\ Up(p)
  BY DEF RecordUse
<1>2. Turns(usage, v, p) /\ Is(v, p, u.boots, u.mode, u.live, e, u.dirty, u.conflict, u.seen, u.last, u.save)
  BY <1>0, IsItself, TurnsEntries
<1>3. x \in Entry /\ x.count = Count(u.entries, k) + 1 /\ (u.entries[k] # Absent => x.deleted = u.entries[k].deleted)
      /\ (u.entries[k] = Absent => x.deleted = 0)
  <2>1. Count(u.entries, k) + 1 \in Nat
    BY <1>0, CountIsNat
  <2>2. (IF u.entries[k] = Absent THEN 0 ELSE u.entries[k].deleted) \in Nat
    BY <1>0, CountIsNat DEF Entry
  <2> QED BY <2>1, <2>2 DEF Entry
<1>4. EntriesOK(e) /\ (\A l \in u.live : e[l] # Absent => e[l].deleted = 0) /\ AtLeast(e, u.entries, u.live, Ids)
  <2> HIDE DEF x
  <2>1. u.entries \in [Ids -> Entry \cup {Absent}]
    BY <1>0 DEF EntriesOK
  <2>2. e \in [Ids -> Entry \cup {Absent}] /\ e[k] = x /\ \A l \in Ids \ {k} : e[l] = u.entries[l]
    BY <1>3, <2>1
  <2> HIDE DEF e
  <2>3. EntriesOK(e)
    BY <1>0, <1>3, <2>2, Apart DEF EntriesOK
  <2>4. \A l \in u.live : e[l] # Absent => e[l].deleted = 0
    BY <1>0, <1>3, <2>2, Apart DEF ProcessOK
  <2>5. AtLeast(e, u.entries, u.live, Ids)
    <3> SUFFICES ASSUME NEW l \in Ids PROVE Count(e, l) >= Count(u.entries, l)
      BY DEF AtLeast
    <3>1. CASE l = k
      <4>1. Count(e, k) = x.count
        BY <1>3, <2>2, Apart DEF Count
      <4> QED BY <1>0, <1>3, <3>1, <4>1, CountIsNat
    <3>2. CASE l # k
      <4>1. Count(e, l) = Count(u.entries, l)
        BY <2>2, <3>2 DEF Count
      <4> QED BY <1>0, <4>1, CountIsNat
    <3> QED BY <3>1, <3>2
  <2> QED BY <2>3, <2>4, <2>5
<1> HIDE DEF e, v
<1>5. Turns(v, usage', p) /\ Is(usage', p, u.boots, u.mode, u.live, e, TRUE, u.conflict, u.seen, u.last, u.save)
  <2>1. UsageOK(v)
    BY <1>2 DEF Turns
  <2> QED BY <1>1, <1>2, <2>1, TurnsDirty
<1>6. Turns(usage, usage', p)
  BY <1>2, <1>5 DEF Turns, OthersStay
<1> QED BY <1>1, <1>4, <1>5, <1>6, EntriesChange

LEMMA DeleteIsKept == ASSUME LossInv, NEW p \in Processes, NEW k \in Ids, DeleteKey(p, k) PROVE LossInv'
<1> DEFINE u == usage[p]
           x == [count |-> Count(u.entries, k), deleted |-> now]
           s == [u.entries EXCEPT ![k] = x]
           l == u.live \ {k}
<1>0. UsageOK(usage) /\ ProcessOK(u) /\ EntriesOK(u.entries) /\ now \in Nat
  BY DEF LossInv, ProcessOK
<1>1. PICK e \in CappedDeleted(s) : usage' = [usage EXCEPT ![p].entries = e, ![p].dirty = TRUE, ![p].live = @ \ {k}]
  BY DEF DeleteKey
<1>2. UNCHANGED <<now, file>> /\ Up(p) /\ k \in u.live
  BY DEF DeleteKey, Up
<1>3. EntriesOK(s) /\ (\A n \in l : s[n] # Absent => s[n].deleted = 0) /\ AtLeast(s, u.entries, l, Ids)
  <2>1. x \in Entry /\ x.count = Count(u.entries, k)
    BY <1>0, CountIsNat DEF Entry
  <2> HIDE DEF x
  <2>2. u.entries \in [Ids -> Entry \cup {Absent}] /\ k \in UsageKeys
    BY <1>0, <1>2 DEF EntriesOK, ProcessOK
  <2>3. s \in [Ids -> Entry \cup {Absent}] /\ s[k] = x /\ \A n \in Ids \ {k} : s[n] = u.entries[n]
    BY <2>1, <2>2
  <2> HIDE DEF s
  <2>4. EntriesOK(s)
    BY <1>0, <2>2, <2>3, Apart DEF EntriesOK
  <2>5. \A n \in l : s[n] # Absent => s[n].deleted = 0
    BY <1>0, <2>3, Apart DEF ProcessOK
  <2>6. AtLeast(s, u.entries, l, Ids)
    <3> SUFFICES ASSUME NEW n \in Ids PROVE Count(s, n) >= Count(u.entries, n)
      BY DEF AtLeast
    <3>1. CASE n = k
      <4>1. Count(s, k) = x.count
        BY <2>1, <2>3, Apart DEF Count
      <4> QED BY <1>0, <2>1, <3>1, <4>1, CountIsNat
    <3>2. CASE n # k
      <4>1. Count(s, n) = Count(u.entries, n)
        BY <2>3, <3>2 DEF Count
      <4> QED BY <1>0, <4>1, CountIsNat
    <3> QED BY <3>1, <3>2
  <2> QED BY <2>4, <2>5, <2>6
<1> DEFINE v == [usage EXCEPT ![p].entries = e]
           w == [v EXCEPT ![p].dirty = TRUE]
<1>4. usage' = [w EXCEPT ![p].live = w[p].live \ {k}]
  BY <1>1
<1>5. Turns(usage, v, p) /\ Is(v, p, u.boots, u.mode, u.live, e, u.dirty, u.conflict, u.seen, u.last, u.save)
  BY <1>0, IsItself, TurnsEntries
<1> HIDE DEF v
<1>6. Turns(v, w, p) /\ Is(w, p, u.boots, u.mode, u.live, e, TRUE, u.conflict, u.seen, u.last, u.save)
  <2>1. UsageOK(v)
    BY <1>5 DEF Turns
  <2> QED BY <1>5, <2>1, TurnsDirty
<1> HIDE DEF w
<1>7. w[p].live = u.live
  BY <1>6 DEF Is
<1>8. Turns(w, usage', p) /\ Is(usage', p, u.boots, u.mode, l, e, TRUE, u.conflict, u.seen, u.last, u.save)
  <2>1. UsageOK(w)
    BY <1>6 DEF Turns
  <2> QED BY <1>4, <1>6, <1>7, <2>1, TurnsLive
<1>9. Turns(usage, usage', p)
  BY <1>5, <1>6, <1>8 DEF Turns, OthersStay
<1> HIDE DEF s
<1>10. l \subseteq u.live /\ l \subseteq UsageKeys
  BY <1>0 DEF ProcessOK
<1> HIDE DEF l
<1>11. EntriesOK(e) /\ (\A n \in l : e[n] # Absent => e[n].deleted = 0) /\ AtLeast(e, s, l, Ids)
  BY <1>3, <1>10, CappedKeeps
<1>12. AtLeast(e, u.entries, l, Ids)
  BY <1>0, <1>3, <1>11, AtLeastMore
<1> QED BY <1>2, <1>8, <1>9, <1>10, <1>11, <1>12, EntriesChange
-----------------------------------------------------------------------------
(* A save ends, or fails and marks the entries again.                        *)
LEMMA SaveIsOver ==
  ASSUME LossInv, NEW p \in Processes, UNCHANGED <<now, file>>, Up(p), Turns(usage, usage', p), NEW d, NEW c,
         Is(usage', p, usage[p].boots, usage[p].mode, usage[p].live, usage[p].entries, d, c, usage[p].seen, usage[p].last, NoSave),
         d = TRUE \/ (~Taking(usage[p]) /\ d = usage[p].dirty)
  PROVE  LossInv'
<1>1. PICK r : r = usage'[p]
  OBVIOUS
<1>2. PICK u : u = usage[p]
  OBVIOUS
<1>3. /\ r.boots = u.boots /\ r.mode = u.mode /\ r.live = u.live /\ r.entries = u.entries /\ r.dirty = d
      /\ r.seen = u.seen /\ r.last = u.last /\ r.save = NoSave
  BY <1>1, <1>2 DEF Is
<1>4. ProcessOK(u) /\ Tracks(u, file) /\ u.mode # "down" /\ Marked(u, file, <<p, u.boots>>)
  BY <1>2 DEF LossInv, Up, Boot
<1>5. ~Taking(r)
  BY <1>3 DEF Taking, NoSave
<1>6. ProcessOK(r)
  BY <1>3, <1>4 DEF ProcessOK, SaveOK
<1>7. Tracks(r, file)
  BY <1>3, <1>4, <1>5 DEF Tracks
<1>8. Marked(r, file, <<p, r.boots>>)
  BY <1>2, <1>3, <1>4 DEF Marked
<1>9. Advances(u, r)
  BY <1>3, <1>4, <1>5 DEF Advances, ProcessOK
<1> QED BY <1>1, <1>2, <1>3, <1>6, <1>7, <1>8, <1>9, StepKeeps

LEMMA SaveFailsIsKept ==
  ASSUME LossInv, NEW p \in Processes, NEW c, UNCHANGED <<now, file>>, Up(p), SaveFails(p, c)
  PROVE  LossInv'
<1> DEFINE u == usage[p]
           v == [usage EXCEPT ![p].save = NoSave]
           w == [v EXCEPT ![p].dirty = TRUE]
<1>0. UsageOK(usage)
  BY DEF LossInv
<1>1. usage' = [w EXCEPT ![p].conflict = c]
  BY DEF SaveFails
<1>2. Turns(usage, v, p) /\ Is(v, p, u.boots, u.mode, u.live, u.entries, u.dirty, u.conflict, u.seen, u.last, NoSave)
  BY <1>0, IsItself, TurnsSave
<1> HIDE DEF v
<1>3. Turns(v, w, p) /\ Is(w, p, u.boots, u.mode, u.live, u.entries, TRUE, u.conflict, u.seen, u.last, NoSave)
  BY <1>2, TurnsDirty DEF Turns
<1> HIDE DEF w
<1>4. Turns(w, usage', p) /\ Is(usage', p, u.boots, u.mode, u.live, u.entries, TRUE, c, u.seen, u.last, NoSave)
  <2>1. UsageOK(w)
    BY <1>3 DEF Turns
  <2> QED BY <1>1, <1>3, <2>1, TurnsConflict
<1>5. Turns(usage, usage', p)
  BY <1>2, <1>3, <1>4 DEF Turns, OthersStay
<1> QED BY <1>4, <1>5, SaveIsOver

LEMMA SaveEndsIsKept == ASSUME LossInv, NEW p \in Processes, SaveEnds(p) PROVE LossInv'
<1> DEFINE u == usage[p]
           v == [usage EXCEPT ![p].save = NoSave]
<1>0. UsageOK(usage)
  BY DEF LossInv
<1>1. usage' = [v EXCEPT ![p].conflict = FALSE] /\ UNCHANGED <<now, file>> /\ Up(p) /\ u.save.step = "commits"
  BY DEF SaveEnds, Saving
<1>2. Turns(usage, v, p) /\ Is(v, p, u.boots, u.mode, u.live, u.entries, u.dirty, u.conflict, u.seen, u.last, NoSave)
  BY <1>0, IsItself, TurnsSave
<1> HIDE DEF v
<1>3. Turns(v, usage', p) /\ Is(usage', p, u.boots, u.mode, u.live, u.entries, u.dirty, FALSE, u.seen, u.last, NoSave)
  <2>1. UsageOK(v)
    BY <1>2 DEF Turns
  <2> QED BY <1>1, <1>2, <2>1, TurnsConflict
<1>4. Turns(usage, usage', p)
  BY <1>2, <1>3 DEF Turns, OthersStay
<1>5. ~Taking(u)
  BY <1>1 DEF Taking
<1> QED BY <1>1, <1>3, <1>4, <1>5, SaveIsOver

LEMMA SaveBeginsIsKept == ASSUME LossInv, NEW p \in Processes, SaveBegins(p) PROVE LossInv'
<1> DEFINE u == usage[p]
           x == [step |-> "begins", at |-> now, todo |-> Entered(u.entries), rows |-> NoEntries]
           v == [usage EXCEPT ![p].dirty = FALSE]
           w == [v EXCEPT ![p].last = now]
<1>0. UsageOK(usage) /\ ProcessOK(u) /\ Tracks(u, file) /\ now \in Nat
  BY DEF LossInv
<1>1. usage' = [w EXCEPT ![p].save = x] /\ UNCHANGED <<now, file>> /\ Up(p) /\ u.last < now
  BY DEF SaveBegins, Saving
<1>2. Turns(usage, v, p) /\ Is(v, p, u.boots, u.mode, u.live, u.entries, FALSE, u.conflict, u.seen, u.last, u.save)
  BY <1>0, IsItself, TurnsDirty
<1> HIDE DEF v
<1>3. Turns(v, w, p) /\ Is(w, p, u.boots, u.mode, u.live, u.entries, FALSE, u.conflict, u.seen, now, u.save)
  BY <1>2, TurnsLast DEF Turns
<1> HIDE DEF w
<1>4. Turns(w, usage', p) /\ Is(usage', p, u.boots, u.mode, u.live, u.entries, FALSE, u.conflict, u.seen, now, x)
  <2>1. UsageOK(w)
    BY <1>3 DEF Turns
  <2> QED BY <1>1, <1>3, <2>1, TurnsSave
<1>5. Turns(usage, usage', p)
  BY <1>2, <1>3, <1>4 DEF Turns, OthersStay
<1>6. PICK r : r = usage'[p]
  OBVIOUS
<1>7. /\ r.boots = u.boots /\ r.mode = u.mode /\ r.live = u.live /\ r.entries = u.entries /\ r.dirty = FALSE
      /\ r.seen = u.seen /\ r.last = now /\ r.save = x
  BY <1>4, <1>6 DEF Is
<1>8. Taking(r) /\ r.save.rows = NoEntries /\ r.save.todo = Entered(u.entries) /\ r.save.at = now
  BY <1>7 DEF Taking
<1>9. EntriesOK(u.entries)
  BY <1>0 DEF ProcessOK
<1>10. \A k \in Ids \ r.save.todo : u.entries[k] = Absent /\ Count(u.entries, k) = 0
  BY <1>8 DEF Entered, Count
<1>11. ProcessOK(r)
  BY <1>0, <1>7, NoEntriesOK DEF ProcessOK, SaveOK
<1>12. Tracks(r, file)
  <2>1. AtLeast(u.entries, NoEntries, u.live, Ids)
    BY <1>9, CountIsNat, NoEntriesOK DEF AtLeast
  <2>2. ASSUME file # NoFile, u.seen = file.header
        PROVE  /\ AtLeast(u.entries, file.entries, Safe(u.live, file.entries), Ids)
               /\ AtLeast(NoEntries, file.entries, Safe(u.live, file.entries), Ids \ r.save.todo)
    <3>1. AtLeast(u.entries, file.entries, Safe(u.live, file.entries), Ids)
      BY <1>0, <2>2 DEF Tracks
    <3>2. AtLeast(NoEntries, file.entries, Safe(u.live, file.entries), Ids \ r.save.todo)
      BY <1>10, <3>1, NoEntriesOK DEF AtLeast
    <3> QED BY <3>1, <3>2
  <2>3. \A k \in Ids \ r.save.todo : NoEntries[k] = u.entries[k]
    BY <1>10, NoEntriesOK
  <2> QED BY <1>7, <1>8, <2>1, <2>2, <2>3 DEF Tracks
<1>13. Marked(r, file, <<p, r.boots>>)
  BY <1>8 DEF Marked
<1>14. Advances(u, r)
  BY <1>0, <1>1, <1>7, <1>8 DEF Advances, ProcessOK, Up
<1> QED BY <1>1, <1>5, <1>6, <1>7, <1>11, <1>12, <1>13, <1>14, StepKeeps
-----------------------------------------------------------------------------
(* A save goes on, over rows that it had or that are now as the entries.     *)
LEMMA SaveGoesOn ==
  ASSUME LossInv, NEW p \in Processes, UNCHANGED <<now, file>>, Up(p), Turns(usage, usage', p), Taking(usage[p]),
         NEW todo, NEW rows, NEW x, x = [step |-> "takes", at |-> usage[p].last, todo |-> todo, rows |-> rows],
         Is(usage', p, usage[p].boots, usage[p].mode, usage[p].live, usage[p].entries, usage[p].dirty, usage[p].conflict,
            usage[p].seen, usage[p].last, x),
         EntriesOK(rows),
         \A k \in Ids : rows[k] = usage[p].save.rows[k] \/ rows[k] = usage[p].entries[k],
         \A k \in Ids \ todo : \/ k \notin usage[p].save.todo /\ rows[k] = usage[p].save.rows[k]
                               \/ rows[k] = usage[p].entries[k]
  PROVE  LossInv'
<1>1. PICK r : r = usage'[p]
  OBVIOUS
<1>2. PICK u : u = usage[p]
  OBVIOUS
<1>3. /\ r.boots = u.boots /\ r.mode = u.mode /\ r.live = u.live /\ r.entries = u.entries /\ r.dirty = u.dirty
      /\ r.seen = u.seen /\ r.last = u.last /\ r.save = x
  BY <1>1, <1>2 DEF Is
<1>4. /\ ProcessOK(u) /\ Tracks(u, file) /\ Taking(u) /\ u.mode # "down"
      /\ EntriesOK(u.entries) /\ EntriesOK(u.save.rows) /\ u.save.at = u.last
  BY <1>2 DEF LossInv, Up, ProcessOK, SaveOK, Taking, NoSave
<1>5. Taking(r) /\ r.save.todo = todo /\ r.save.rows = rows /\ r.save.at = u.last
  BY <1>2, <1>3 DEF Taking
<1>6. ProcessOK(r)
  <2>1. SaveOK(r.save, r.last)
    BY <1>2, <1>3, <1>5 DEF SaveOK
  <2> QED BY <1>3, <1>4, <2>1 DEF ProcessOK
<1>7. \A k \in Ids : Count(rows, k) = Count(u.save.rows, k) \/ Count(rows, k) = Count(u.entries, k)
  BY <1>2 DEF Count
<1>8. AtLeast(u.entries, rows, u.live, Ids)
  <2>1. AtLeast(u.entries, u.save.rows, u.live, Ids)
    BY <1>4 DEF Tracks
  <2> QED BY <1>4, <1>7, <2>1, CountIsNat DEF AtLeast
<1>9. ASSUME file # NoFile, u.seen = file.header
      PROVE  /\ AtLeast(u.entries, file.entries, Safe(u.live, file.entries), Ids)
             /\ AtLeast(rows, file.entries, Safe(u.live, file.entries), Ids \ todo)
  <2> DEFINE m == Safe(u.live, file.entries)
  <2>1. AtLeast(u.entries, file.entries, m, Ids) /\ AtLeast(u.save.rows, file.entries, m, Ids \ u.save.todo)
    BY <1>4, <1>9 DEF Tracks
  <2> HIDE DEF m
  <2>2. ASSUME NEW k \in Ids \ todo PROVE Count(rows, k) >= Count(file.entries, k) \/ k \in UsageKeys \ m
    <3>1. CASE k \notin u.save.todo /\ rows[k] = u.save.rows[k]
      <4>1. Count(rows, k) = Count(u.save.rows, k)
        BY <3>1 DEF Count
      <4> QED BY <2>1, <3>1, <4>1 DEF AtLeast
    <3>2. CASE rows[k] = u.entries[k]
      <4>1. Count(rows, k) = Count(u.entries, k)
        BY <3>2 DEF Count
      <4> QED BY <2>1, <4>1 DEF AtLeast
    <3> QED BY <1>2, <3>1, <3>2
  <2>3. AtLeast(rows, file.entries, m, Ids \ todo)
    BY <2>2 DEF AtLeast
  <2> QED BY <2>1, <2>3 DEF m
<1>10. ~u.dirty => \A k \in Ids \ todo : rows[k] = u.entries[k]
  BY <1>2, <1>4 DEF Tracks
<1>11. Tracks(r, file)
  BY <1>3, <1>5, <1>8, <1>9, <1>10 DEF Tracks
<1>12. Marked(r, file, <<p, r.boots>>)
  BY <1>5 DEF Marked
<1>13. Advances(u, r)
  BY <1>3, <1>4, <1>5 DEF Advances, ProcessOK
<1> QED BY <1>1, <1>2, <1>3, <1>6, <1>11, <1>12, <1>13, StepKeeps

LEMMA OpensIsKept == ASSUME LossInv, NEW p \in Processes, OpensSave(p) PROVE LossInv'
<1> DEFINE u == usage[p]
<1>0. UsageOK(usage) /\ ProcessOK(u)
  BY DEF LossInv
<1>1. UNCHANGED <<now, file>> /\ Up(p) /\ u.save.step = "begins"
  BY DEF OpensSave, Saving
<1>2. CASE SaveFails(p, TRUE) \/ SaveFails(p, FALSE)
  BY <1>1, <1>2, SaveFailsIsKept
<1>3. CASE usage' = [usage EXCEPT ![p].save.step = "takes"]
  <2>1. PICK w : w = u.save
    OBVIOUS
  <2>2. w = [step |-> w.step, at |-> u.last, todo |-> w.todo, rows |-> w.rows] /\ EntriesOK(w.rows)
    BY <1>0, <1>1, <2>1 DEF ProcessOK, SaveOK, NoSave
  <2> DEFINE x == [step |-> "takes", at |-> u.last, todo |-> w.todo, rows |-> w.rows]
  <2>3. usage' = [usage EXCEPT ![p].save = [w EXCEPT !.step = "takes"]]
    BY <1>3, <2>1
  <2>4. [w EXCEPT !.step = "takes"] = x
    BY <2>2
  <2> HIDE DEF x
  <2>5. usage' = [usage EXCEPT ![p].save = x]
    BY <2>3, <2>4
  <2>6. Turns(usage, usage', p) /\ Is(usage', p, u.boots, u.mode, u.live, u.entries, u.dirty, u.conflict, u.seen, u.last, x)
    BY <1>0, <2>5, IsItself, TurnsSave
  <2>7. Taking(u)
    BY <1>1 DEF Taking
  <2> QED BY <1>1, <2>1, <2>2, <2>6, <2>7, SaveGoesOn DEF x
<1> QED BY <1>2, <1>3 DEF OpensSave

LEMMA TakesIsKept == ASSUME LossInv, NEW p \in Processes, NEW k \in Ids, TakesEntry(p, k) PROVE LossInv'
<1> DEFINE u == usage[p]
<1>0. UsageOK(usage) /\ ProcessOK(u) /\ EntriesOK(u.entries)
  BY DEF LossInv, ProcessOK
<1>1. UNCHANGED <<now, file>> /\ Up(p) /\ u.save.step = "takes"
  BY DEF TakesEntry, Saving
<1>2. PICK w : w = u.save
  OBVIOUS
<1>3. w = [step |-> "takes", at |-> u.last, todo |-> w.todo, rows |-> w.rows] /\ EntriesOK(w.rows)
  BY <1>0, <1>1, <1>2 DEF ProcessOK, SaveOK, NoSave
<1> DEFINE rows == [w.rows EXCEPT ![k] = u.entries[k]]
           x == [step |-> "takes", at |-> u.last, todo |-> w.todo \ {k}, rows |-> rows]
           v == [usage EXCEPT ![p].save = [w EXCEPT !.todo = w.todo \ {k}]]
<1>4. usage' = [v EXCEPT ![p].save = [v[p].save EXCEPT !.rows = [v[p].save.rows EXCEPT ![k] = u.entries[k]]]]
  BY <1>2 DEF TakesEntry
<1>5. Turns(usage, v, p) /\ v[p].save = [w EXCEPT !.todo = w.todo \ {k}]
      /\ Is(v, p, u.boots, u.mode, u.live, u.entries, u.dirty, u.conflict, u.seen, u.last, v[p].save)
  <2> DEFINE y == [w EXCEPT !.todo = w.todo \ {k}]
  <2> HIDE DEF y
  <2>1. Turns(usage, v, p) /\ Is(v, p, u.boots, u.mode, u.live, u.entries, u.dirty, u.conflict, u.seen, u.last, y)
    BY <1>0, IsItself, TurnsSave DEF y
  <2>2. v[p].save = y
    BY <2>1 DEF Is
  <2> QED BY <2>1, <2>2 DEF y
<1> HIDE DEF v
<1>6. PICK z : z = v[p].save
  OBVIOUS
<1>7. z = [step |-> "takes", at |-> u.last, todo |-> w.todo \ {k}, rows |-> w.rows]
  BY <1>3, <1>5, <1>6
<1>8. [z EXCEPT !.rows = [z.rows EXCEPT ![k] = u.entries[k]]] = x
  <2>1. z.rows = w.rows
    BY <1>7
  <2> HIDE DEF rows
  <2>2. [z EXCEPT !.rows = rows] = x
    BY <1>7
  <2> QED BY <2>1, <2>2 DEF rows
<1> HIDE DEF x
<1>9. usage' = [v EXCEPT ![p].save = x]
  BY <1>4, <1>6, <1>8
<1>10. Turns(v, usage', p) /\ Is(usage', p, u.boots, u.mode, u.live, u.entries, u.dirty, u.conflict, u.seen, u.last, x)
  <2>1. UsageOK(v)
    BY <1>5 DEF Turns
  <2> QED BY <1>5, <1>9, <2>1, TurnsSave
<1>11. Turns(usage, usage', p)
  BY <1>5, <1>10 DEF Turns, OthersStay
<1>12. EntriesOK(rows) /\ rows[k] = u.entries[k] /\ \A l \in Ids \ {k} : rows[l] = w.rows[l]
  <2>1. w.rows \in [Ids -> Entry \cup {Absent}] /\ u.entries[k] \in Entry \cup {Absent}
    BY <1>0, <1>3 DEF EntriesOK
  <2>2. rows \in [Ids -> Entry \cup {Absent}] /\ rows[k] = u.entries[k] /\ \A l \in Ids \ {k} : rows[l] = w.rows[l]
    BY <2>1
  <2> HIDE DEF rows
  <2>3. EntriesOK(rows)
    BY <1>0, <1>3, <2>2, Apart DEF EntriesOK
  <2> QED BY <2>2, <2>3
<1> HIDE DEF rows
<1>13. Taking(u)
  BY <1>1 DEF Taking
<1>14. x = [step |-> "takes", at |-> u.last, todo |-> w.todo \ {k}, rows |-> rows]
  BY DEF x
<1>15. /\ \A l \in Ids : rows[l] = u.save.rows[l] \/ rows[l] = u.entries[l]
       /\ \A l \in Ids \ (w.todo \ {k}) : (l \notin u.save.todo /\ rows[l] = u.save.rows[l]) \/ rows[l] = u.entries[l]
  BY <1>2, <1>12
<1> QED BY <1>1, <1>10, <1>11, <1>12, <1>13, <1>14, <1>15, SaveGoesOn
-----------------------------------------------------------------------------
LEMMA EndIsKept == ASSUME LossInv, NEW p \in Processes, ProcessEnds(p) PROVE LossInv'
<1> DEFINE u == usage[p]
<1>0. UsageOK(usage) /\ ProcessOK(u)
  BY DEF LossInv
<1>1. UNCHANGED <<now, file>> /\ usage' = [usage EXCEPT ![p] = Gone(u.boots)]
  BY DEF ProcessEnds
<1>2. Turns(usage, usage', p) /\ Is(usage', p, u.boots, "down", {}, NoEntries, FALSE, FALSE, NoFile, 1, NoSave)
  BY <1>0, <1>1, TurnsWhole DEF Gone
<1>3. PICK r : r = usage'[p]
  OBVIOUS
<1>4. /\ r.boots = u.boots /\ r.mode = "down" /\ r.live = {} /\ r.entries = NoEntries /\ r.seen = NoFile
      /\ r.last = 1 /\ r.save = NoSave
  BY <1>2, <1>3 DEF Is
<1>5. ~Taking(r)
  BY <1>4 DEF Taking, NoSave
<1>6. ProcessOK(r)
  BY <1>0, <1>4, NoEntriesOK DEF ProcessOK, SaveOK
<1>7. file # NoFile => r.seen # file.header
  BY <1>4, Apart DEF LossInv, HeaderOK
<1>8. Tracks(r, file)
  BY <1>5, <1>7 DEF Tracks
<1>9. Advances(u, r)
  BY <1>0, <1>4 DEF Advances, ProcessOK
<1> QED BY <1>1, <1>2, <1>3, <1>4, <1>6, <1>8, <1>9, StepKeeps

LEMMA StartIsKept == ASSUME LossInv, NEW p \in Processes, StartUsage(p) PROVE LossInv'
<1> DEFINE u == usage[p]
           loaded == IF LoadsFile(file) THEN file.entries ELSE NoEntries
           seen == IF LoadsFile(file) THEN file.header ELSE NoFile
<1>0. UsageOK(usage) /\ ProcessOK(u) /\ now \in Nat
  BY DEF LossInv
<1>1. UNCHANGED <<now, file>> /\ (file = NoFile \/ LoadsFile(file))
  BY DEF StartUsage
<1>2. \E how \in {"keys", "identity"}, live \in SUBSET UsageKeys :
        \E c \in CappedDeleted(loaded) : \E e \in CappedDeleted(SyncedLive(c, live)) : \E d :
        usage' = [usage EXCEPT ![p] =
          [boots |-> u.boots + 1, mode |-> how, live |-> live, entries |-> e, dirty |-> d, conflict |-> FALSE,
           seen |-> seen, last |-> now, save |-> NoSave]]
  BY DEF StartUsage
<1>3. EntriesOK(loaded) /\ (file # NoFile => loaded = file.entries /\ seen = file.header) /\ (file = NoFile => seen = NoFile)
  BY <1>1, NoEntriesOK DEF LossInv, LoadsFile
<1> HIDE DEF loaded, seen
<1>4. PICK how \in {"keys", "identity"}, live \in SUBSET UsageKeys :
          \E c \in CappedDeleted(loaded) : \E e \in CappedDeleted(SyncedLive(c, live)) : \E d : usage' = [usage EXCEPT ![p] =
          [boots |-> u.boots + 1, mode |-> how, live |-> live, entries |-> e, dirty |-> d, conflict |-> FALSE,
           seen |-> seen, last |-> now, save |-> NoSave]]
  BY <1>2
<1>c. PICK c \in CappedDeleted(loaded) : \E e \in CappedDeleted(SyncedLive(c, live)) : \E d :
        usage' = [usage EXCEPT ![p] =
          [boots |-> u.boots + 1, mode |-> how, live |-> live, entries |-> e, dirty |-> d, conflict |-> FALSE,
           seen |-> seen, last |-> now, save |-> NoSave]]
  BY <1>4
<1>5. PICK e \in CappedDeleted(SyncedLive(c, live)) : \E d :
        usage' = [usage EXCEPT ![p] =
          [boots |-> u.boots + 1, mode |-> how, live |-> live, entries |-> e, dirty |-> d, conflict |-> FALSE,
           seen |-> seen, last |-> now, save |-> NoSave]]
  BY <1>c
<1>d. PICK d :
        usage' = [usage EXCEPT ![p] =
          [boots |-> u.boots + 1, mode |-> how, live |-> live, entries |-> e, dirty |-> d, conflict |-> FALSE,
           seen |-> seen, last |-> now, save |-> NoSave]]
  BY <1>5
<1>6. Turns(usage, usage', p) /\ Is(usage', p, u.boots + 1, how, live, e, d, FALSE, seen, now, NoSave)
  BY <1>0, <1>d, TurnsWhole
<1>7. /\ EntriesOK(e) /\ \A k \in live : e[k] # Absent => e[k].deleted = 0
      /\ AtLeast(e, loaded, Safe(live, loaded), Ids)
  <2> DEFINE s == SyncedLive(c, live)
             m == Safe(live, loaded)
  <2>0. m \subseteq live
    BY SafeIsLive
  <2>1. EntriesOK(c) /\ AtLeast(c, loaded, m, Ids)
    BY <1>3, CappedIsSafe
  <2> HIDE DEF m
  <2>2. EntriesOK(s) /\ (\A k \in live : s[k] # Absent => s[k].deleted = 0) /\ AtLeast(s, c, live, Ids)
    BY <1>0, <2>1, SyncedKeeps
  <2> HIDE DEF s
  <2>3. EntriesOK(e) /\ (\A k \in live : e[k] # Absent => e[k].deleted = 0) /\ AtLeast(e, s, live, Ids)
    BY <2>2, CappedKeeps DEF s
  <2>4. AtLeast(e, c, live, Ids)
    BY <2>1, <2>2, <2>3, AtLeastMore
  <2>5. AtLeast(e, c, m, Ids)
    BY <2>0, <2>4, AtLeastFewer
  <2>6. AtLeast(e, loaded, m, Ids)
    BY <1>3, <2>1, <2>3, <2>5, AtLeastMore
  <2> QED BY <2>3, <2>6 DEF m
<1>8. PICK r : r = usage'[p]
  OBVIOUS
<1>9. /\ r.boots = u.boots + 1 /\ r.mode = how /\ r.live = live /\ r.entries = e /\ r.seen = seen
      /\ r.last = now /\ r.save = NoSave
  BY <1>6, <1>8 DEF Is
<1>10. ~Taking(r)
  BY <1>9 DEF Taking, NoSave
<1>11. ProcessOK(r)
  BY <1>0, <1>7, <1>9 DEF ProcessOK, SaveOK
<1>12. Tracks(r, file)
  BY <1>3, <1>7, <1>9, <1>10 DEF Tracks
<1>13. Marked(r, file, <<p, r.boots>>)
  <2> SUFFICES ASSUME file # NoFile, file.header.boot = <<p, u.boots + 1>> PROVE FALSE
    BY <1>9 DEF Marked
  <2>1. file.header.boot[1] = p /\ file.header.boot[2] = u.boots + 1
    OBVIOUS
  <2>2. file.header.boot[2] <= u.boots
    BY <2>1 DEF LossInv, HeaderOK, Old
  <2> QED BY <1>0, <2>1, <2>2 DEF ProcessOK
<1>14. Advances(u, r)
  BY <1>0, <1>9 DEF Advances, ProcessOK
<1> QED BY <1>1, <1>3, <1>6, <1>8, <1>9, <1>11, <1>12, <1>13, <1>14, StepKeeps

(* A file is written: nobody has seen it before.                             *)
LEMMA CommitIsKept ==
  ASSUME LossInv, NEW p \in Processes, CommitsSave(p)
  PROVE  /\ LossInv'
         /\ file' # file => /\ file'.header.boot = Boot(p)
                            /\ file # NoFile /\ usage[p].seen = file.header =>
                                 AtLeast(file'.entries, file.entries, Safe(usage[p].live, file.entries), Ids)
<1> DEFINE u == usage[p]
<1>0. UsageOK(usage) /\ ProcessOK(u) /\ Tracks(u, file) /\ Marked(u, file, Boot(p)) /\ now \in Nat
      /\ Up(p) /\ u.save.step = "takes" /\ u.save.todo = {} /\ now' = now
  BY DEF LossInv, CommitsSave, Saving
<1>1. CASE usage' = [usage EXCEPT ![p].save = NoSave, ![p].dirty = TRUE] /\ UNCHANGED file
  <2> DEFINE v == [usage EXCEPT ![p].save = NoSave]
  <2>1. Turns(usage, v, p) /\ Is(v, p, u.boots, u.mode, u.live, u.entries, u.dirty, u.conflict, u.seen, u.last, NoSave)
    BY <1>0, IsItself, TurnsSave
  <2>2. usage' = [v EXCEPT ![p].dirty = TRUE]
    BY <1>1
  <2> HIDE DEF v
  <2>3. Turns(v, usage', p) /\ Is(usage', p, u.boots, u.mode, u.live, u.entries, TRUE, u.conflict, u.seen, u.last, NoSave)
    BY <2>1, <2>2, TurnsDirty DEF Turns
  <2>4. Turns(usage, usage', p)
    BY <2>1, <2>3 DEF Turns, OthersStay
  <2> QED BY <1>0, <1>1, <2>3, <2>4, SaveIsOver
<1>2. ASSUME NEW header, header = [boot |-> Boot(p), at |-> u.save.at],
             file' = [header |-> header, entries |-> u.save.rows],
             usage' = [usage EXCEPT ![p].seen = header, ![p].save.step = "commits"]
      PROVE  /\ LossInv' /\ file'.header.boot = Boot(p)
             /\ file # NoFile /\ usage[p].seen = file.header =>
                  AtLeast(file'.entries, file.entries, Safe(usage[p].live, file.entries), Ids)
  <2>1. PICK w : w = u.save
    OBVIOUS
  <2>2. /\ w = [step |-> "takes", at |-> u.last, todo |-> {}, rows |-> w.rows] /\ EntriesOK(w.rows)
        /\ Taking(u) /\ w.todo = {} /\ w.at = u.last
    BY <1>0, <2>1 DEF ProcessOK, SaveOK, NoSave, Taking
  <2> DEFINE x == [step |-> "commits", at |-> u.last, todo |-> {}, rows |-> w.rows]
             v == [usage EXCEPT ![p].seen = header]
  <2>3. Turns(usage, v, p) /\ Is(v, p, u.boots, u.mode, u.live, u.entries, u.dirty, u.conflict, header, u.last, w)
    BY <1>0, <2>1, IsItself, TurnsSeen
  <2>4. usage' = [v EXCEPT ![p].save = [v[p].save EXCEPT !.step = "commits"]]
    BY <1>2
  <2> HIDE DEF v
  <2>5. v[p].save = w
    BY <2>3 DEF Is
  <2>6. [w EXCEPT !.step = "commits"] = x
    BY <2>2
  <2> HIDE DEF x
  <2>7. usage' = [v EXCEPT ![p].save = x]
    BY <2>4, <2>5, <2>6
  <2>8. Turns(v, usage', p) /\ Is(usage', p, u.boots, u.mode, u.live, u.entries, u.dirty, u.conflict, header, u.last, x)
    <3>1. UsageOK(v)
      BY <2>3 DEF Turns
    <3> QED BY <2>3, <2>7, <3>1, TurnsSave
  <2>9. PICK us : us = usage'
    OBVIOUS
  <2>10. PICK r : r = us[p]
    OBVIOUS
  <2>11. UsageOK(us) /\ OthersStay(usage, us, p)
    BY <2>3, <2>8, <2>9 DEF Turns, OthersStay
  <2>12. /\ r.boots = u.boots /\ r.mode = u.mode /\ r.live = u.live /\ r.entries = u.entries /\ r.dirty = u.dirty
         /\ r.seen = header /\ r.last = u.last /\ r.save = x
    BY <2>8, <2>9, <2>10 DEF Is
  <2>13. ~Taking(r)
    BY <2>12 DEF Taking, x
  <2>14. ProcessOK(r)
    BY <1>0, <2>2, <2>12 DEF ProcessOK, SaveOK, x
  <2>15. Advances(u, r)
    BY <1>0, <2>12, <2>13 DEF Advances, ProcessOK, Up
  <2>16. PICK f : f = file' /\ f.header = header /\ f.entries = w.rows
    BY <1>2, <2>1
  <2>17. header.boot = <<p, u.boots>> /\ header.boot[1] = p /\ header.boot[2] = u.boots /\ header.at = u.last /\ header \in Header
    BY <1>0, <1>2, <2>1, <2>2 DEF Boot, Header, ProcessOK
  <2>18. HeaderIn(header, us)
    <3>1. Old(header, r)
      BY <1>0, <2>12, <2>13, <2>17 DEF Old, ProcessOK
    <3> QED BY <2>10, <2>17, <3>1 DEF HeaderIn
  <2>19. ASSUME NEW h, HeaderOK(h) PROVE HeaderIn(h, us) /\ h # header
    <3>1. HeaderIn(h, usage)
      BY <2>19 DEF HeaderOK, HeaderIn
    <3>2. HeaderIn(h, us)
      BY <1>0, <2>10, <2>11, <2>14, <2>15, <3>1, HeaderStays
    <3>3. h # header
      <4> SUFFICES ASSUME h = header PROVE FALSE
        OBVIOUS
      <4>1. Old(header, u)
        BY <2>17, <3>1 DEF HeaderIn
      <4>2. header.at < u.save.at
        BY <1>0, <2>2, <2>17, <4>1 DEF Old, Up
      <4> QED BY <1>0, <2>1, <2>2, <2>17, <4>2 DEF ProcessOK
    <3> QED BY <3>2, <3>3
  <2>20. AtLeast(u.entries, w.rows, u.live, Ids) /\ (~u.dirty => w.rows = u.entries)
    <3>1. AtLeast(u.entries, w.rows, u.live, Ids) /\ (~u.dirty => \A k \in Ids : w.rows[k] = u.entries[k])
      BY <1>0, <2>1, <2>2 DEF Tracks
    <3>2. w.rows = [k \in Ids |-> w.rows[k]] /\ u.entries = [k \in Ids |-> u.entries[k]]
      BY <1>0, <2>2 DEF ProcessOK, EntriesOK
    <3> QED BY <3>1, <3>2
  <2>21. ASSUME NEW q \in Processes
         PROVE  /\ ProcessOK(us[q]) /\ Tracks(us[q], f)
                /\ us[q].mode # "down" => Marked(us[q], f, <<q, us[q].boots>>)
                /\ us[q].seen = NoFile \/ HeaderIn(us[q].seen, us)
    <3>1. CASE q = p
      <4>0. AtLeast(u.entries, w.rows, Safe(u.live, w.rows), Ids)
        BY <2>20, SafeIsLive, AtLeastFewer
      <4>1. Tracks(r, f)
        BY <2>12, <2>13, <2>16, <4>0 DEF Tracks
      <4>2. Marked(r, f, <<p, r.boots>>)
        BY <2>12, <2>16, <2>20 DEF Marked
      <4> QED BY <2>10, <2>12, <2>14, <2>18, <3>1, <4>1, <4>2
    <3>2. CASE q # p
      <4>1. us[q] = usage[q] /\ ProcessOK(usage[q]) /\ Tracks(usage[q], file)
            /\ (usage[q].seen = NoFile \/ HeaderOK(usage[q].seen))
        BY <2>11, <3>2 DEF OthersStay, LossInv
      <4>2. us[q].seen # header
        BY <2>17, <2>19, <4>1, Apart
      <4>3. Tracks(us[q], f)
        BY <2>16, <4>1, <4>2 DEF Tracks
      <4>4. Marked(us[q], f, <<q, us[q].boots>>)
        <5>1. header.boot # <<q, us[q].boots>>
          BY <2>17, <3>2
        <5> QED BY <2>16, <5>1 DEF Marked
      <4> QED BY <2>19, <4>1, <4>3, <4>4
    <3> QED BY <3>1, <3>2
  <2>22. LossInv'
    BY <1>0, <2>2, <2>9, <2>11, <2>16, <2>18, <2>21 DEF LossInv, HeaderOK, HeaderIn, Up, Boot
  <2>23. file # NoFile /\ u.seen = file.header => AtLeast(w.rows, file.entries, Safe(u.live, file.entries), Ids)
    <3>1. Ids \ u.save.todo = Ids
      BY <1>0
    <3> QED BY <2>1, <2>2, <3>1, <1>0 DEF Tracks
  <2> QED BY <2>16, <2>17, <2>22, <2>23, <1>0 DEF Boot
<1> QED BY <1>0, <1>1, <1>2 DEF CommitsSave
-----------------------------------------------------------------------------
LEMMA LossInvStarts == UsageInit => LossInv
<1> SUFFICES ASSUME UsageInit PROVE LossInv
  OBVIOUS
<1>1. UsageOK(usage) /\ now = 1 /\ file = NoFile
  BY SeenInvStarts DEF SeenInv, UsageInit
<1>2. ASSUME NEW p \in Processes
      PROVE  /\ ProcessOK(usage[p]) /\ Tracks(usage[p], file) /\ ~Up(p) /\ usage[p].seen = NoFile
  <2>1. usage[p] = Gone(0)
    BY DEF UsageInit
  <2>2. ProcessOK(Gone(0))
    BY NoEntriesOK DEF Gone, ProcessOK, SaveOK
  <2>3. ~Taking(Gone(0)) /\ Gone(0).mode = "down" /\ Gone(0).seen = NoFile
    BY DEF Taking, Gone, NoSave
  <2> QED BY <1>1, <2>1, <2>2, <2>3 DEF Tracks, Up
<1> QED BY <1>1, <1>2 DEF LossInv

(* A step that writes the file is the commit of one process.                 *)
SaveForgetsNothing ==
  \A p \in Processes :
    /\ file # NoFile /\ file' # file
    /\ file'.header.boot = Boot(p) /\ usage[p].seen = file.header
    => \A k \in Ids : \/ Count(file'.entries, k) >= Count(file.entries, k)
                      \/ k \in UsageKeys \ usage[p].live
                      \/ k \in DeletedOf(file.entries) /\ Cardinality(DeletedOf(file.entries)) > MaxDeleted

LEMMA LossInvSteps == LossInv /\ [UsageNext]_usageVars => LossInv' /\ SaveForgetsNothing
<1> SUFFICES ASSUME LossInv, [UsageNext]_usageVars PROVE LossInv' /\ SaveForgetsNothing
  OBVIOUS
<1>1. CASE TimePasses \/ UNCHANGED usageVars
  <2>1. now' \in Nat /\ UNCHANGED <<file, usage>>
    BY <1>1 DEF TimePasses, usageVars, LossInv
  <2>2. LossInv'
    BY <2>1 DEF LossInv, HeaderOK, Up, Boot
  <2> QED BY <2>1, <2>2 DEF SaveForgetsNothing
<1>2. ASSUME NEW p \in Processes, CommitsSave(p) PROVE LossInv' /\ SaveForgetsNothing
  <2>1. LossInv'
    BY <1>2, CommitIsKept
  <2>2. ASSUME NEW q \in Processes, file # NoFile, file' # file, file'.header.boot = Boot(q), usage[q].seen = file.header
        PROVE  AtLeast(file'.entries, file.entries, Safe(usage[q].live, file.entries), Ids)
    <3>1. Boot(p) = Boot(q)
      BY <1>2, <2>2, CommitIsKept
    <3>2. p = q
      BY <3>1 DEF Boot
    <3> QED BY <1>2, <2>2, <3>2, CommitIsKept
  <2>3. ASSUME NEW q \in Processes, NEW k \in UsageKeys \ Safe(usage[q].live, file.entries)
        PROVE  \/ k \in UsageKeys \ usage[q].live
               \/ k \in DeletedOf(file.entries) /\ Cardinality(DeletedOf(file.entries)) > MaxDeleted
    BY <2>3 DEF Safe
  <2> QED BY <2>1, <2>2, <2>3 DEF SaveForgetsNothing, AtLeast
<1>3. ASSUME NEW p \in Processes,
             \/ StartUsage(p) \/ ProcessEnds(p) \/ SaveBegins(p) \/ OpensSave(p) \/ SaveEnds(p)
             \/ \E k \in Ids : RecordUse(p, k) \/ DeleteKey(p, k) \/ TakesEntry(p, k)
      PROVE  LossInv' /\ SaveForgetsNothing
  <2>1. file' = file
    BY <1>3 DEF StartUsage, ProcessEnds, SaveBegins, OpensSave, SaveEnds, RecordUse, DeleteKey, TakesEntry
  <2>2. LossInv'
    BY <1>3, StartIsKept, EndIsKept, SaveBeginsIsKept, OpensIsKept, SaveEndsIsKept, RecordIsKept, DeleteIsKept, TakesIsKept
  <2> QED BY <2>1, <2>2 DEF SaveForgetsNothing
<1> QED BY <1>1, <1>2, <1>3 DEF UsageNext

(* UnsavedIsDirty: whatever was counted and is not in the file is marked,    *)
(* for any number of processes, entries, starts and kills (McpUsage::save).  *)
THEOREM UnsavedIsMarked == UsageSpec => []UnsavedIsDirty
<1>1. LossInv /\ [UsageNext]_usageVars => LossInv'
  BY LossInvSteps
<1>2. LossInv => UnsavedIsDirty
  <2> SUFFICES ASSUME LossInv, NEW p \in Processes, Saving(p, "idle"), ~usage[p].dirty, file # NoFile
               PROVE  file.header.boot # Boot(p) \/ file.entries = usage[p].entries
    BY DEF UnsavedIsDirty
  <2>1. Up(p) /\ ~Taking(usage[p])
    BY DEF Saving, Taking
  <2> QED BY <2>1 DEF LossInv, Marked
<1> QED BY LossInvStarts, <1>1, <1>2, PTL DEF UsageSpec

(* SavesForgetNothing: a save over a file that the process loaded or wrote   *)
(* keeps every request of it, but for the keys that are deleted now, and for *)
(* those that a file with more deleted keys than the bound has as deleted;   *)
(* for any number of processes and calls meanwhile (McpUsage::McpUsage,      *)
(* sync_live_keys, save, begin, commit).                                     *)
THEOREM SavesKeepRequests == UsageSpec => SavesForgetNothing
<1>1. LossInv /\ [UsageNext]_usageVars => LossInv' /\ SaveForgetsNothing
  BY LossInvSteps
<1>2. SaveForgetsNothing =>
        [\A p \in Processes :
           /\ file # NoFile /\ file' # file
           /\ file'.header.boot = Boot(p) /\ usage[p].seen = file.header
           => \A k \in Ids : \/ Count(file'.entries, k) >= Count(file.entries, k)
                             \/ k \in UsageKeys \ usage[p].live
                             \/ k \in DeletedOf(file.entries) /\ Cardinality(DeletedOf(file.entries)) > MaxDeleted]_usageVars
  BY DEF SaveForgetsNothing
<1> QED BY LossInvStarts, <1>1, <1>2, PTL DEF UsageSpec, SavesForgetNothing
-----------------------------------------------------------------------------
(* The types of what a process keeps.  A file is written by a start that is  *)
(* counted, so the starts of all processes are summed up too.                *)
BootsOf(u) == [p \in Processes |-> u[p].boots]

InType(u) ==
  /\ u.boots \in 0..MaxBoots /\ u.mode \in {"down", "keys", "identity"}
  /\ u.live \subseteq UsageKeys
  /\ u.entries \in Entries
  /\ u.dirty \in BOOLEAN /\ u.conflict \in BOOLEAN
  /\ u.seen = NoFile \/ u.seen \in Headers
  /\ u.last \in 1..MaxNow
  /\ u.save \in Saves

FileInType == file = NoFile \/ file \in [header : Headers, entries : Entries]

BootsInv == /\ now \in 1..MaxNow /\ FileInType /\ UsageOK(usage)
            /\ \A p \in Processes : InType(usage[p]) /\ (usage[p].mode # "down" => usage[p].boots # 0)
            /\ Total(BootsOf(usage), Processes) <= MaxBoots

LEMMA TotalOfNone ==
  ASSUME NEW V, IsFiniteSet(V), NEW b, \A k \in V : b[k] = 0
  PROVE  Total(b, V) = 0
<1> DEFINE Zero(n) == \A s \in SUBSET V : Cardinality(s) = n => Total(b, s) = 0
           S == {n \in Nat : Zero(n)}
<1>0. \A s \in SUBSET V : IsFiniteSet(s) /\ Cardinality(s) \in Nat /\ (Cardinality(s) = 0 <=> s = {})
  BY FS_Subset, FS_CardinalityType, FS_EmptySet
<1>1. 0 \in S
  BY <1>0, TotalIs
<1>2. ASSUME NEW n \in Nat, n \in S PROVE n + 1 \in S
  <2> SUFFICES ASSUME NEW s \in SUBSET V, Cardinality(s) = n + 1 PROVE Total(b, s) = 0
    OBVIOUS
  <2>1. IsFiniteSet(s) /\ s # {} /\ Pick(s) \in s
    BY <1>0, PickIsOne
  <2>2. Cardinality(s \ {Pick(s)}) = n /\ s \ {Pick(s)} \in SUBSET V
    BY <2>1, OneLess
  <2>3. Total(b, s) = b[Pick(s)] + Total(b, s \ {Pick(s)}) /\ Total(b, s \ {Pick(s)}) = 0
    BY <1>2, <2>1, <2>2, TotalIs
  <2> QED BY <2>1, <2>3
<1> HIDE DEF S
<1>3. Nat \subseteq S
  BY <1>1, <1>2, Induct
<1>4. Cardinality(V) \in S
  BY <1>0, <1>3
<1> QED BY <1>4 DEF S

(* The count of the starts is the sum of those of each process.              *)
LEMMA StartsAreTotal ==
  ASSUME NEW u, DOMAIN u = Processes
  PROVE  FoldFunction(LAMBDA a, b : a.boots + b, 0, u) = Total(BootsOf(u), Processes)
<1> DEFINE b == BootsOf(u)
           IsSum(f) == f = [s \in SUBSET Processes |-> IF s = {} THEN 0 ELSE u[Pick(s)].boots + f[s \ {Pick(s)}]]
<1>0. IsFiniteSet(Processes)
  BY UsageAssumption
<1>1. \A s \in SUBSET Processes : s # {} => b[Pick(s)] = u[Pick(s)].boots
  BY PickIsOne DEF BootsOf
<1>2. ASSUME NEW f PROVE Sums(f, SUBSET Processes, b) <=> IsSum(f)
  <2> HIDE DEF b
  <2>1. [s \in SUBSET Processes |-> IF s = {} THEN 0 ELSE b[Pick(s)] + f[s \ {Pick(s)}]]
          = [s \in SUBSET Processes |-> IF s = {} THEN 0 ELSE u[Pick(s)].boots + f[s \ {Pick(s)}]]
    BY <1>1
  <2> QED BY <2>1 DEF Sums
<1>3. \E f : IsSum(f)
  BY <1>0, <1>2, SumsExist
<1>4. FoldFunction(LAMBDA a, c : a.boots + c, 0, u) = (CHOOSE f : IsSum(f))[Processes]
  BY DEF FoldFunction, FoldFunctionOnSet, MapThenFoldSet, Pick
<1>5. IsSum(CHOOSE f : IsSum(f))
  BY <1>3
<1>6. PICK g : g = CHOOSE f : IsSum(f)
  OBVIOUS
<1>7. Sums(g, SUBSET Processes, b)
  BY <1>2, <1>5, <1>6
<1>8. SameOn(Processes, b, b)
  BY DEF SameOn
<1> HIDE DEF b, IsSum
<1>9. g[Processes] = Total(b, Processes)
  BY <1>0, <1>7, <1>8, TotalAgrees
<1> QED BY <1>4, <1>6, <1>9 DEF b

(* The starts of one process are part of them.                               *)
LEMMA BootsBounded ==
  ASSUME NEW u, \A q \in Processes : u[q].boots \in Nat, NEW p \in Processes
  PROVE  /\ Total(BootsOf(u), Processes) \in Nat
         /\ Total(BootsOf(u), Processes \ {p}) \in Nat
         /\ Total(BootsOf(u), Processes) = u[p].boots + Total(BootsOf(u), Processes \ {p})
<1>0. IsFiniteSet(Processes) /\ IsFiniteSet(Processes \ {p})
  BY UsageAssumption, FS_Subset
<1>1. \A q \in Processes : BootsOf(u)[q] = u[q].boots /\ BootsOf(u)[q] \in Nat
  BY DEF BootsOf
<1> HIDE DEF BootsOf
<1>2. Total(BootsOf(u), Processes) \in Nat /\ Total(BootsOf(u), Processes) = BootsOf(u)[p] + Total(BootsOf(u), Processes \ {p})
  BY <1>0, <1>1, TotalIsNat
<1>3. Total(BootsOf(u), Processes \ {p}) \in Nat
  BY <1>0, <1>1, TotalType
<1> QED BY <1>1, <1>2, <1>3

LEMMA BootsElsewhere ==
  ASSUME NEW u, NEW v, NEW p \in Processes, OthersStay(u, v, p)
  PROVE  Total(BootsOf(u), Processes \ {p}) = Total(BootsOf(v), Processes \ {p})
<1>0. IsFiniteSet(Processes \ {p})
  BY UsageAssumption, FS_Subset
<1>1. SameOn(Processes \ {p}, BootsOf(u), BootsOf(v))
  BY DEF SameOn, BootsOf, OthersStay
<1> QED BY <1>0, <1>1, TotalSame

(* A step of the process p keeps the types when p and the file keep theirs.  *)
LEMMA TypeStep ==
  ASSUME BootsInv, NEW p \in Processes, now' \in 1..MaxNow, FileInType', Turns(usage, usage', p), NEW r, r = usage'[p],
         r.boots \in Nat, r.boots <= MaxBoots => InType(r), r.mode # "down" => r.boots # 0,
         r.boots = usage[p].boots \/ (r.boots = usage[p].boots + 1 /\ Starts < MaxBoots)
  PROVE  BootsInv'
<1>1. PICK us : us = usage'
  OBVIOUS
<1>2. UsageOK(us) /\ OthersStay(usage, us, p) /\ us[p] = r
  BY <1>1 DEF Turns
<1>3. (\A q \in Processes : usage[q].boots \in Nat) /\ MaxBoots \in Nat
  BY UsageAssumption DEF BootsInv, InType
<1>4. \A q \in Processes : us[q].boots \in Nat
  BY <1>2, <1>3 DEF OthersStay
<1>5. PICK t \in Nat : t = Total(BootsOf(usage), Processes \ {p})
  BY <1>3, BootsBounded
<1>6. t = Total(BootsOf(us), Processes \ {p})
  BY <1>2, <1>5, BootsElsewhere
<1>7. Total(BootsOf(usage), Processes) = usage[p].boots + t /\ Total(BootsOf(us), Processes) = r.boots + t
  BY <1>2, <1>3, <1>4, <1>5, <1>6, BootsBounded
<1>8. Starts = Total(BootsOf(usage), Processes)
  <2>1. DOMAIN usage = Processes
    BY DEF BootsInv, UsageOK
  <2> QED BY <2>1, StartsAreTotal DEF Starts
<1>9. Total(BootsOf(us), Processes) <= MaxBoots
  <2>1. usage[p].boots + t <= MaxBoots
    BY <1>7 DEF BootsInv
  <2>2. PICK n \in Nat, m \in Nat : n = usage[p].boots /\ m = r.boots
    BY <1>3
  <2>3. m = n \/ (m = n + 1 /\ n + t < MaxBoots)
    BY <1>7, <1>8, <2>2
  <2>4. m + t <= MaxBoots
    BY <1>3, <2>1, <2>2, <2>3
  <2> QED BY <1>7, <2>2, <2>4
<1>10. InType(r)
  <2>1. r.boots <= MaxBoots
    BY <1>3, <1>7, <1>9
  <2> QED BY <2>1
<1>11. \A q \in Processes : InType(us[q]) /\ (us[q].mode # "down" => us[q].boots # 0)
  BY <1>2, <1>10 DEF BootsInv, OthersStay
<1> QED BY <1>1, <1>2, <1>9, <1>11 DEF BootsInv, FileInType
-----------------------------------------------------------------------------
(* The entries that the operations make.                                     *)
LEMMA EntriesTyped ==
  /\ NoEntries \in Entries
  /\ \A e \in Entries, k \in Ids : /\ Count(e, k) \in 0..MaxCount
                                   /\ e[k] # Absent => e[k].count \in 0..MaxCount /\ e[k].deleted \in 0..MaxNow
BY UsageAssumption DEF Entries, NoEntries, Count

LEMMA OneEntryTyped ==
  ASSUME NEW e \in Entries, NEW k \in Ids, NEW n \in 0..MaxCount, NEW d \in 0..MaxNow
  PROVE  [e EXCEPT ![k] = [count |-> n, deleted |-> d]] \in Entries
BY DEF Entries

LEMMA CappedTyped ==
  ASSUME NEW s \in Entries, NEW e \in CappedDeleted(s)
  PROVE  e \in Entries
BY DEF Entries, CappedDeleted

LEMMA SyncedTyped ==
  ASSUME NEW e \in Entries, NEW l, now \in 1..MaxNow
  PROVE  SyncedLive(e, l) \in Entries
<1> DEFINE s == SyncedLive(e, l)
           T == [count : 0..MaxCount, deleted : 0..MaxNow]
<1>1. ASSUME NEW k \in Ids PROVE s[k] \in T \cup {Absent}
  <2>1. CASE e[k] = Absent
    BY <2>1 DEF SyncedLive
  <2>2. CASE e[k] # Absent
    <3>1. PICK r \in T : r = e[k]
      BY <2>2 DEF Entries
    <3>2. r \in T /\ [r EXCEPT !.deleted = 0] \in T /\ [r EXCEPT !.deleted = now] \in T
      BY UsageAssumption
    <3>3. s[k] = r \/ s[k] = [r EXCEPT !.deleted = 0] \/ s[k] = [r EXCEPT !.deleted = now]
      BY <3>1 DEF SyncedLive
    <3> QED BY <3>2, <3>3
  <2> QED BY <2>1, <2>2
<1>2. s = [k \in Ids |-> s[k]]
  BY DEF SyncedLive
<1> HIDE DEF s
<1>3. s \in Entries
  BY <1>1, <1>2 DEF Entries
<1> QED BY <1>3 DEF s
-----------------------------------------------------------------------------
(* The steps of a process.                                                   *)
(* A step of p that is no start.                                             *)
LEMMA FieldsTyped ==
  ASSUME BootsInv, NEW p \in Processes, UNCHANGED now, FileInType' \/ UNCHANGED file,
         Turns(usage, usage', p), NEW m, NEW l, NEW e, NEW d, NEW c, NEW s, NEW t, NEW w,
         Is(usage', p, usage[p].boots, m, l, e, d, c, s, t, w),
         m = usage[p].mode \/ m = "down", l \subseteq UsageKeys, e \in Entries, d \in BOOLEAN, c \in BOOLEAN,
         s = NoFile \/ s \in Headers, t \in 1..MaxNow, w \in Saves
  PROVE  BootsInv'
<1>1. PICK r : r = usage'[p]
  OBVIOUS
<1>2. /\ r.boots = usage[p].boots /\ r.mode = m /\ r.live = l /\ r.entries = e /\ r.dirty = d /\ r.conflict = c
      /\ r.seen = s /\ r.last = t /\ r.save = w
  BY <1>1 DEF Is
<1>3. InType(usage[p]) /\ (usage[p].mode # "down" => usage[p].boots # 0) /\ now \in 1..MaxNow /\ FileInType
  BY DEF BootsInv
<1>4. usage[p].boots \in Nat /\ r.boots \in 0..MaxBoots /\ r.mode \in {"down", "keys", "identity"}
  BY <1>2, <1>3 DEF InType
<1>5. r.dirty \in BOOLEAN /\ r.conflict \in BOOLEAN
  BY <1>2, Zenon
<1>6. InType(r)
  BY <1>2, <1>4, <1>5 DEF InType
<1>7. r.mode # "down" => r.boots # 0
  BY <1>2, <1>3
<1>8. now' \in 1..MaxNow /\ FileInType'
  BY <1>3 DEF FileInType
<1> QED BY <1>1, <1>2, <1>4, <1>6, <1>7, <1>8, TypeStep

LEMMA RecordTyped == ASSUME BootsInv, NEW p \in Processes, NEW k \in Ids, RecordUse(p, k) PROVE BootsInv'
<1> DEFINE u == usage[p]
           x == [count |-> Count(u.entries, k) + 1, deleted |-> IF u.entries[k] = Absent THEN 0 ELSE u.entries[k].deleted]
           e == [u.entries EXCEPT ![k] = x]
           v == [usage EXCEPT ![p].entries = e]
<1>0. UsageOK(usage) /\ InType(u) /\ (u.mode # "down" => u.boots # 0)
  BY DEF BootsInv
<1>1. usage' = [v EXCEPT ![p].dirty = TRUE] /\ UNCHANGED <<now, file>>
  BY DEF RecordUse
<1>2. e \in Entries
  <2>1. u.entries \in Entries
    BY <1>0 DEF InType
  <2>2. Count(u.entries, k) + 1 \in 0..MaxCount
    <3>1. Count(u.entries, k) \in 0..MaxCount /\ Count(u.entries, k) < MaxCount
      BY <2>1, EntriesTyped DEF RecordUse
    <3> QED BY <3>1, UsageAssumption
  <2>3. (IF u.entries[k] = Absent THEN 0 ELSE u.entries[k].deleted) \in 0..MaxNow
    BY <2>1, EntriesTyped, UsageAssumption
  <2> QED BY <2>1, <2>2, <2>3, OneEntryTyped
<1>3. Turns(usage, v, p) /\ Is(v, p, u.boots, u.mode, u.live, e, u.dirty, u.conflict, u.seen, u.last, u.save)
  BY <1>0, IsItself, TurnsEntries
<1> HIDE DEF e, v
<1>4. Turns(v, usage', p) /\ Is(usage', p, u.boots, u.mode, u.live, e, TRUE, u.conflict, u.seen, u.last, u.save)
  <2>1. UsageOK(v)
    BY <1>3 DEF Turns
  <2> QED BY <1>1, <1>3, <2>1, TurnsDirty
<1>5. Turns(usage, usage', p)
  BY <1>3, <1>4 DEF Turns, OthersStay
<1>6. /\ u.mode = u.mode /\ u.live \subseteq UsageKeys /\ u.conflict \in BOOLEAN /\ (u.seen = NoFile \/ u.seen \in Headers)
      /\ u.last \in 1..MaxNow /\ u.save \in Saves /\ TRUE \in BOOLEAN
  BY <1>0 DEF InType
<1> QED BY <1>1, <1>2, <1>4, <1>5, <1>6, FieldsTyped

LEMMA DeleteTyped == ASSUME BootsInv, NEW p \in Processes, NEW k \in Ids, DeleteKey(p, k) PROVE BootsInv'
<1> DEFINE u == usage[p]
           x == [count |-> Count(u.entries, k), deleted |-> now]
           s == [u.entries EXCEPT ![k] = x]
           l == u.live \ {k}
<1>0. UsageOK(usage) /\ InType(u) /\ now \in 1..MaxNow
  BY DEF BootsInv
<1>1. PICK e \in CappedDeleted(s) : usage' = [usage EXCEPT ![p].entries = e, ![p].dirty = TRUE, ![p].live = @ \ {k}]
  BY DEF DeleteKey
<1>2. UNCHANGED <<now, file>>
  BY DEF DeleteKey
<1>3. s \in Entries
  <2>1. u.entries \in Entries /\ now \in 0..MaxNow
    BY <1>0 DEF InType
  <2> QED BY <2>1, EntriesTyped, OneEntryTyped
<1>4. e \in Entries
  <2> HIDE DEF s
  <2> QED BY <1>3, CappedTyped
<1> DEFINE v == [usage EXCEPT ![p].entries = e]
           w == [v EXCEPT ![p].dirty = TRUE]
<1>5. usage' = [w EXCEPT ![p].live = w[p].live \ {k}]
  BY <1>1
<1>6. Turns(usage, v, p) /\ Is(v, p, u.boots, u.mode, u.live, e, u.dirty, u.conflict, u.seen, u.last, u.save)
  BY <1>0, IsItself, TurnsEntries
<1> HIDE DEF v, s
<1>7. Turns(v, w, p) /\ Is(w, p, u.boots, u.mode, u.live, e, TRUE, u.conflict, u.seen, u.last, u.save)
  <2>1. UsageOK(v)
    BY <1>6 DEF Turns
  <2> QED BY <1>6, <2>1, TurnsDirty
<1> HIDE DEF w
<1>8. w[p].live = u.live
  BY <1>7 DEF Is
<1>9. Turns(w, usage', p) /\ Is(usage', p, u.boots, u.mode, l, e, TRUE, u.conflict, u.seen, u.last, u.save)
  <2>1. UsageOK(w)
    BY <1>7 DEF Turns
  <2> QED BY <1>5, <1>7, <1>8, <2>1, TurnsLive
<1>10. Turns(usage, usage', p)
  BY <1>6, <1>7, <1>9 DEF Turns, OthersStay
<1>11. /\ l \subseteq UsageKeys /\ u.conflict \in BOOLEAN /\ (u.seen = NoFile \/ u.seen \in Headers)
       /\ u.last \in 1..MaxNow /\ u.save \in Saves /\ TRUE \in BOOLEAN
  BY <1>0 DEF InType
<1> HIDE DEF l
<1> QED BY <1>2, <1>4, <1>9, <1>10, <1>11, FieldsTyped

(* A step of the save: the entries, the keys and the mode stay.              *)
LEMMA SaveTyped ==
  ASSUME BootsInv, NEW p \in Processes, UNCHANGED now, FileInType' \/ UNCHANGED file, Turns(usage, usage', p),
         NEW d \in BOOLEAN, NEW c \in BOOLEAN, NEW s, s = NoFile \/ s \in Headers, NEW t \in 1..MaxNow, NEW w \in Saves,
         Is(usage', p, usage[p].boots, usage[p].mode, usage[p].live, usage[p].entries, d, c, s, t, w)
  PROVE  BootsInv'
<1>1. /\ usage[p].mode = usage[p].mode /\ usage[p].live \subseteq UsageKeys /\ usage[p].entries \in Entries
  BY DEF BootsInv, InType
<1> QED BY <1>1, FieldsTyped

LEMMA SaveFailsTyped ==
  ASSUME BootsInv, NEW p \in Processes, NEW c \in BOOLEAN, UNCHANGED <<now, file>>, SaveFails(p, c)
  PROVE  BootsInv'
<1> DEFINE u == usage[p]
           v == [usage EXCEPT ![p].save = NoSave]
           w == [v EXCEPT ![p].dirty = TRUE]
<1>0. UsageOK(usage) /\ InType(u)
  BY DEF BootsInv
<1>1. usage' = [w EXCEPT ![p].conflict = c]
  BY DEF SaveFails
<1>2. Turns(usage, v, p) /\ Is(v, p, u.boots, u.mode, u.live, u.entries, u.dirty, u.conflict, u.seen, u.last, NoSave)
  BY <1>0, IsItself, TurnsSave
<1> HIDE DEF v
<1>3. Turns(v, w, p) /\ Is(w, p, u.boots, u.mode, u.live, u.entries, TRUE, u.conflict, u.seen, u.last, NoSave)
  BY <1>2, TurnsDirty DEF Turns
<1> HIDE DEF w
<1>4. Turns(w, usage', p) /\ Is(usage', p, u.boots, u.mode, u.live, u.entries, TRUE, c, u.seen, u.last, NoSave)
  <2>1. UsageOK(w)
    BY <1>3 DEF Turns
  <2> QED BY <1>1, <1>3, <2>1, TurnsConflict
<1>5. Turns(usage, usage', p)
  BY <1>2, <1>3, <1>4 DEF Turns, OthersStay
<1>6. TRUE \in BOOLEAN /\ (u.seen = NoFile \/ u.seen \in Headers) /\ u.last \in 1..MaxNow /\ NoSave \in Saves
  BY <1>0 DEF InType, Saves
<1> QED BY <1>4, <1>5, <1>6, SaveTyped

LEMMA SaveEndsTyped == ASSUME BootsInv, NEW p \in Processes, SaveEnds(p) PROVE BootsInv'
<1> DEFINE u == usage[p]
           v == [usage EXCEPT ![p].save = NoSave]
<1>0. UsageOK(usage) /\ InType(u)
  BY DEF BootsInv
<1>1. usage' = [v EXCEPT ![p].conflict = FALSE] /\ UNCHANGED <<now, file>>
  BY DEF SaveEnds
<1>2. Turns(usage, v, p) /\ Is(v, p, u.boots, u.mode, u.live, u.entries, u.dirty, u.conflict, u.seen, u.last, NoSave)
  BY <1>0, IsItself, TurnsSave
<1> HIDE DEF v
<1>3. Turns(v, usage', p) /\ Is(usage', p, u.boots, u.mode, u.live, u.entries, u.dirty, FALSE, u.seen, u.last, NoSave)
  <2>1. UsageOK(v)
    BY <1>2 DEF Turns
  <2> QED BY <1>1, <1>2, <2>1, TurnsConflict
<1>4. Turns(usage, usage', p)
  BY <1>2, <1>3 DEF Turns, OthersStay
<1>5. u.dirty \in BOOLEAN /\ FALSE \in BOOLEAN /\ (u.seen = NoFile \/ u.seen \in Headers) /\ u.last \in 1..MaxNow /\ NoSave \in Saves
  BY <1>0 DEF InType, Saves
<1> QED BY <1>1, <1>3, <1>4, <1>5, SaveTyped

LEMMA SaveBeginsTyped == ASSUME BootsInv, NEW p \in Processes, SaveBegins(p) PROVE BootsInv'
<1> DEFINE u == usage[p]
           x == [step |-> "begins", at |-> now, todo |-> Entered(u.entries), rows |-> NoEntries]
           v == [usage EXCEPT ![p].dirty = FALSE]
           w == [v EXCEPT ![p].last = now]
<1>0. UsageOK(usage) /\ InType(u) /\ now \in 1..MaxNow
  BY DEF BootsInv
<1>1. usage' = [w EXCEPT ![p].save = x] /\ UNCHANGED <<now, file>>
  BY DEF SaveBegins
<1>2. Turns(usage, v, p) /\ Is(v, p, u.boots, u.mode, u.live, u.entries, FALSE, u.conflict, u.seen, u.last, u.save)
  BY <1>0, IsItself, TurnsDirty
<1> HIDE DEF v
<1>3. Turns(v, w, p) /\ Is(w, p, u.boots, u.mode, u.live, u.entries, FALSE, u.conflict, u.seen, now, u.save)
  BY <1>2, TurnsLast DEF Turns
<1> HIDE DEF w
<1>4. Turns(w, usage', p) /\ Is(usage', p, u.boots, u.mode, u.live, u.entries, FALSE, u.conflict, u.seen, now, x)
  <2>1. UsageOK(w)
    BY <1>3 DEF Turns
  <2> QED BY <1>1, <1>3, <2>1, TurnsSave
<1>5. Turns(usage, usage', p)
  BY <1>2, <1>3, <1>4 DEF Turns, OthersStay
<1>6. x \in Saves
  BY <1>0, EntriesTyped DEF Saves, Entered
<1> HIDE DEF x
<1>7. FALSE \in BOOLEAN /\ u.conflict \in BOOLEAN /\ (u.seen = NoFile \/ u.seen \in Headers)
  BY <1>0 DEF InType
<1> QED BY <1>0, <1>1, <1>4, <1>5, <1>6, <1>7, SaveTyped

(* The save of a process that has begun one.                                 *)
Begun == [step : {"begins", "takes", "commits"}, at : 1..MaxNow, todo : SUBSET Ids, rows : Entries]

LEMMA BegunSaves ==
  ASSUME NEW w \in Saves, w.step # "idle"
  PROVE  w \in Begun
BY DEF Saves, NoSave, Begun

LEMMA BegunGoesOn ==
  ASSUME NEW w \in Begun, NEW step \in {"begins", "takes", "commits"}
  PROVE  [w EXCEPT !.step = step] \in Saves
BY DEF Begun, Saves

LEMMA BegunTakes ==
  ASSUME NEW w \in Begun, NEW todo \in SUBSET Ids, NEW rows \in Entries
  PROVE  [[w EXCEPT !.todo = todo] EXCEPT !.rows = rows] \in Saves
BY DEF Begun, Saves

(* Only the save changes.                                                    *)
LEMMA OneSaveTyped ==
  ASSUME BootsInv, NEW p \in Processes, UNCHANGED <<now, file>>, NEW x \in Saves, usage' = [usage EXCEPT ![p].save = x]
  PROVE  BootsInv'
<1> DEFINE u == usage[p]
<1>0. UsageOK(usage) /\ InType(u)
  BY DEF BootsInv
<1>1. Turns(usage, usage', p) /\ Is(usage', p, u.boots, u.mode, u.live, u.entries, u.dirty, u.conflict, u.seen, u.last, x)
  BY <1>0, IsItself, TurnsSave
<1>2. u.dirty \in BOOLEAN /\ u.conflict \in BOOLEAN /\ (u.seen = NoFile \/ u.seen \in Headers) /\ u.last \in 1..MaxNow
  BY <1>0 DEF InType
<1> QED BY <1>1, <1>2, SaveTyped

LEMMA OpensTyped == ASSUME BootsInv, NEW p \in Processes, OpensSave(p) PROVE BootsInv'
<1> DEFINE u == usage[p]
<1>0. UsageOK(usage) /\ InType(u) /\ u.save \in Saves
  BY DEF BootsInv, InType
<1>1. UNCHANGED <<now, file>> /\ u.save.step = "begins"
  BY DEF OpensSave, Saving
<1>2. CASE SaveFails(p, TRUE) \/ SaveFails(p, FALSE)
  <2>1. TRUE \in BOOLEAN /\ FALSE \in BOOLEAN
    OBVIOUS
  <2> QED BY <1>1, <1>2, <2>1, SaveFailsTyped
<1>3. CASE usage' = [usage EXCEPT ![p].save.step = "takes"]
  <2>1. PICK w \in Begun : w = u.save
    BY <1>0, <1>1, BegunSaves
  <2> DEFINE x == [w EXCEPT !.step = "takes"]
  <2>2. x \in Saves
    BY BegunGoesOn
  <2>3. usage' = [usage EXCEPT ![p].save = x]
    BY <1>3, <2>1
  <2> HIDE DEF x
  <2> QED BY <1>1, <2>2, <2>3, OneSaveTyped
<1> QED BY <1>2, <1>3 DEF OpensSave

LEMMA TakesTyped == ASSUME BootsInv, NEW p \in Processes, NEW k \in Ids, TakesEntry(p, k) PROVE BootsInv'
<1> DEFINE u == usage[p]
<1>0. UsageOK(usage) /\ InType(u) /\ u.save \in Saves /\ u.entries \in Entries
  BY DEF BootsInv, InType
<1>1. UNCHANGED <<now, file>> /\ u.save.step = "takes"
  BY DEF TakesEntry, Saving
<1>2. PICK w \in Begun : w = u.save
  BY <1>0, <1>1, BegunSaves
<1> DEFINE rows == [w.rows EXCEPT ![k] = u.entries[k]]
           todo == w.todo \ {k}
           y == [w EXCEPT !.todo = todo]
           x == [y EXCEPT !.rows = rows]
           v == [usage EXCEPT ![p].save = y]
<1>3. rows \in Entries /\ todo \in SUBSET Ids
  <2>1. w.rows \in Entries /\ w.todo \in SUBSET Ids
    BY DEF Begun
  <2> QED BY <1>0, <2>1 DEF Entries
<1>4. usage' = [v EXCEPT ![p].save = [v[p].save EXCEPT !.rows = [v[p].save.rows EXCEPT ![k] = u.entries[k]]]]
  BY <1>2 DEF TakesEntry
<1>5. y.rows = w.rows
  BY DEF Begun
<1> HIDE DEF todo
<1>6. x \in Saves
  <2> HIDE DEF rows
  <2> QED BY <1>3, BegunTakes
<1> HIDE DEF y
<1>7. Turns(usage, v, p) /\ Is(v, p, u.boots, u.mode, u.live, u.entries, u.dirty, u.conflict, u.seen, u.last, y)
  BY <1>0, IsItself, TurnsSave
<1>8. v[p].save = y
  BY <1>7 DEF Is
<1> HIDE DEF v
<1>9. usage' = [v EXCEPT ![p].save = x]
  BY <1>4, <1>5, <1>8
<1> HIDE DEF x
<1>10. Turns(v, usage', p) /\ Is(usage', p, u.boots, u.mode, u.live, u.entries, u.dirty, u.conflict, u.seen, u.last, x)
  <2>1. UsageOK(v)
    BY <1>7 DEF Turns
  <2> QED BY <1>7, <1>9, <2>1, TurnsSave
<1>11. Turns(usage, usage', p)
  BY <1>7, <1>10 DEF Turns, OthersStay
<1>12. u.dirty \in BOOLEAN /\ u.conflict \in BOOLEAN /\ (u.seen = NoFile \/ u.seen \in Headers) /\ u.last \in 1..MaxNow
  BY <1>0 DEF InType
<1> QED BY <1>1, <1>6, <1>10, <1>11, <1>12, SaveTyped

LEMMA CommitTyped == ASSUME BootsInv, NEW p \in Processes, CommitsSave(p) PROVE BootsInv'
<1> DEFINE u == usage[p]
<1>0. /\ UsageOK(usage) /\ InType(u) /\ u.save \in Saves /\ UNCHANGED now
      /\ u.save.step = "takes" /\ u.mode # "down" /\ u.boots # 0 /\ u.boots \in 0..MaxBoots
  BY DEF BootsInv, InType, CommitsSave, Saving, Up
<1>1. CASE usage' = [usage EXCEPT ![p].save = NoSave, ![p].dirty = TRUE] /\ UNCHANGED file
  <2> DEFINE v == [usage EXCEPT ![p].save = NoSave]
  <2>1. Turns(usage, v, p) /\ Is(v, p, u.boots, u.mode, u.live, u.entries, u.dirty, u.conflict, u.seen, u.last, NoSave)
    BY <1>0, IsItself, TurnsSave
  <2>2. usage' = [v EXCEPT ![p].dirty = TRUE]
    BY <1>1
  <2> HIDE DEF v
  <2>3. Turns(v, usage', p) /\ Is(usage', p, u.boots, u.mode, u.live, u.entries, TRUE, u.conflict, u.seen, u.last, NoSave)
    BY <2>1, <2>2, TurnsDirty DEF Turns
  <2>4. Turns(usage, usage', p)
    BY <2>1, <2>3 DEF Turns, OthersStay
  <2>5. TRUE \in BOOLEAN /\ u.conflict \in BOOLEAN /\ (u.seen = NoFile \/ u.seen \in Headers) /\ u.last \in 1..MaxNow /\ NoSave \in Saves
    BY <1>0 DEF InType, Saves
  <2> QED BY <1>0, <1>1, <2>3, <2>4, <2>5, SaveTyped
<1>2. ASSUME NEW header, header = [boot |-> Boot(p), at |-> u.save.at],
             file' = [header |-> header, entries |-> u.save.rows],
             usage' = [usage EXCEPT ![p].seen = header, ![p].save.step = "commits"]
      PROVE  BootsInv'
  <2>1. PICK w \in Begun : w = u.save
    BY <1>0, BegunSaves
  <2>2. header \in Headers
    <3>1. u.boots \in 1..MaxBoots /\ w.at \in 1..MaxNow
      BY <1>0 DEF Begun
    <3>2. Boot(p) \in Boots
      BY <3>1 DEF Boot, Boots
    <3> QED BY <1>2, <2>1, <3>1, <3>2 DEF Headers
  <2>3. FileInType'
    <3>1. w.rows \in Entries
      BY DEF Begun
    <3>2. file' \in [header : Headers, entries : Entries]
      BY <1>2, <2>1, <2>2, <3>1
    <3> QED BY <3>2 DEF FileInType
  <2> DEFINE x == [w EXCEPT !.step = "commits"]
             v == [usage EXCEPT ![p].seen = header]
  <2>4. x \in Saves
    BY BegunGoesOn
  <2> HIDE DEF x
  <2>5. Turns(usage, v, p) /\ Is(v, p, u.boots, u.mode, u.live, u.entries, u.dirty, u.conflict, header, u.last, w)
    BY <1>0, <2>1, IsItself, TurnsSeen
  <2>6. usage' = [v EXCEPT ![p].save = [v[p].save EXCEPT !.step = "commits"]]
    BY <1>2
  <2> HIDE DEF v
  <2>7. usage' = [v EXCEPT ![p].save = x]
    <3>1. v[p].save = w
      BY <2>5 DEF Is
    <3> QED BY <2>6, <3>1 DEF x
  <2>8. Turns(v, usage', p) /\ Is(usage', p, u.boots, u.mode, u.live, u.entries, u.dirty, u.conflict, header, u.last, x)
    <3>1. UsageOK(v)
      BY <2>5 DEF Turns
    <3> QED BY <2>5, <2>7, <3>1, TurnsSave
  <2>9. Turns(usage, usage', p)
    BY <2>5, <2>8 DEF Turns, OthersStay
  <2>10. u.dirty \in BOOLEAN /\ u.conflict \in BOOLEAN /\ u.last \in 1..MaxNow
    BY <1>0 DEF InType
  <2> QED BY <1>0, <2>2, <2>3, <2>4, <2>8, <2>9, <2>10, SaveTyped
<1> QED BY <1>1, <1>2 DEF CommitsSave

LEMMA EndTyped == ASSUME BootsInv, NEW p \in Processes, ProcessEnds(p) PROVE BootsInv'
<1> DEFINE u == usage[p]
<1>0. UsageOK(usage) /\ UNCHANGED <<now, file>>
  BY DEF BootsInv, ProcessEnds
<1>1. usage' = [usage EXCEPT ![p] = Gone(u.boots)]
  BY DEF ProcessEnds
<1>2. Turns(usage, usage', p) /\ Is(usage', p, u.boots, "down", {}, NoEntries, FALSE, FALSE, NoFile, 1, NoSave)
  BY <1>0, <1>1, TurnsWhole DEF Gone
<1>3. {} \subseteq UsageKeys /\ FALSE \in BOOLEAN /\ 1 \in 1..MaxNow /\ NoSave \in Saves /\ NoEntries \in Entries
  BY UsageAssumption, EntriesTyped DEF Saves
<1> DEFINE down == "down"
           none == {}
           start == 1
<1>4. /\ Is(usage', p, usage[p].boots, down, none, NoEntries, FALSE, FALSE, NoFile, start, NoSave)
      /\ down = usage[p].mode \/ down = "down"
      /\ none \subseteq UsageKeys /\ (NoFile = NoFile \/ NoFile \in Headers) /\ start \in 1..MaxNow
  BY <1>2, <1>3
<1> HIDE DEF down, none, start
<1> QED BY <1>0, <1>2, <1>3, <1>4, FieldsTyped

LEMMA StartTyped == ASSUME BootsInv, NEW p \in Processes, StartUsage(p) PROVE BootsInv'
<1> DEFINE u == usage[p]
           loaded == IF LoadsFile(file) THEN file.entries ELSE NoEntries
           seen == IF LoadsFile(file) THEN file.header ELSE NoFile
           Marks(c, e, live) == file = NoFile \/ e # loaded \/ live \cap Entered(c) # {}
<1>0. UsageOK(usage) /\ InType(u) /\ now \in 1..MaxNow /\ FileInType
  BY DEF BootsInv
<1>1. UNCHANGED <<now, file>> /\ Starts < MaxBoots
  BY DEF StartUsage
<1>2. loaded \in Entries /\ (seen = NoFile \/ seen \in Headers)
  BY <1>0, EntriesTyped DEF FileInType, LoadsFile
<1>3. \E how \in {"keys", "identity"}, live \in SUBSET UsageKeys :
        \E c \in CappedDeleted(loaded) : \E e \in CappedDeleted(SyncedLive(c, live)) :
        usage' = [usage EXCEPT ![p] =
          [boots |-> u.boots + 1, mode |-> how, live |-> live, entries |-> e, dirty |-> Marks(c, e, live), conflict |-> FALSE,
           seen |-> seen, last |-> now, save |-> NoSave]]
  BY DEF StartUsage
<1>4. \A c, e, live : Marks(c, e, live) \in BOOLEAN
  BY Zenon
<1> HIDE DEF loaded, seen, Marks
<1>5. PICK how \in {"keys", "identity"}, live \in SUBSET UsageKeys :
        \E c \in CappedDeleted(loaded) : \E e \in CappedDeleted(SyncedLive(c, live)) :
        usage' = [usage EXCEPT ![p] =
          [boots |-> u.boots + 1, mode |-> how, live |-> live, entries |-> e, dirty |-> Marks(c, e, live), conflict |-> FALSE,
           seen |-> seen, last |-> now, save |-> NoSave]]
  BY <1>3
<1>c. PICK c \in CappedDeleted(loaded) : \E e \in CappedDeleted(SyncedLive(c, live)) :
        usage' = [usage EXCEPT ![p] =
          [boots |-> u.boots + 1, mode |-> how, live |-> live, entries |-> e, dirty |-> Marks(c, e, live), conflict |-> FALSE,
           seen |-> seen, last |-> now, save |-> NoSave]]
  BY <1>5
<1>6. PICK e \in CappedDeleted(SyncedLive(c, live)) :
        usage' = [usage EXCEPT ![p] =
          [boots |-> u.boots + 1, mode |-> how, live |-> live, entries |-> e, dirty |-> Marks(c, e, live), conflict |-> FALSE,
           seen |-> seen, last |-> now, save |-> NoSave]]
  BY <1>c
<1>7. PICK d \in BOOLEAN : d = Marks(c, e, live)
  BY <1>4
<1>8. Turns(usage, usage', p) /\ Is(usage', p, u.boots + 1, how, live, e, d, FALSE, seen, now, NoSave)
  BY <1>0, <1>6, <1>7, TurnsWhole
<1>9. e \in Entries
  <2>1. c \in Entries
    BY <1>2, CappedTyped
  <2>2. SyncedLive(c, live) \in Entries
    BY <1>0, <2>1, SyncedTyped
  <2> QED BY <2>2, CappedTyped
<1>10. PICK r : r = usage'[p]
  OBVIOUS
<1>11. /\ r.boots = u.boots + 1 /\ r.mode = how /\ r.live = live /\ r.entries = e /\ r.dirty = d /\ r.conflict = FALSE
       /\ r.seen = seen /\ r.last = now /\ r.save = NoSave
  BY <1>8, <1>10 DEF Is
<1>12. u.boots \in Nat /\ MaxBoots \in Nat
  BY <1>0, UsageAssumption DEF InType
<1>13. r.boots \in Nat /\ r.boots # 0 /\ (r.boots <= MaxBoots => r.boots \in 0..MaxBoots)
  BY <1>11, <1>12
<1>14. r.dirty \in BOOLEAN /\ r.conflict \in BOOLEAN
  BY <1>11, Zenon
<1>15. r.boots <= MaxBoots => InType(r)
  <2>1. r.mode \in {"down", "keys", "identity"} /\ r.live \subseteq UsageKeys /\ r.entries \in Entries
        /\ (r.seen = NoFile \/ r.seen \in Headers) /\ r.last \in 1..MaxNow /\ r.save \in Saves
    BY <1>0, <1>2, <1>9, <1>11 DEF Saves
  <2> QED BY <1>13, <1>14, <2>1 DEF InType
<1>16. now' \in 1..MaxNow /\ FileInType'
  BY <1>0, <1>1 DEF FileInType
<1> QED BY <1>1, <1>8, <1>10, <1>11, <1>13, <1>15, <1>16, TypeStep
-----------------------------------------------------------------------------
LEMMA BootsInvStarts == UsageInit => BootsInv
<1> SUFFICES ASSUME UsageInit PROVE BootsInv
  OBVIOUS
<1>1. UsageOK(usage) /\ now = 1 /\ file = NoFile
  BY SeenInvStarts DEF SeenInv, UsageInit
<1>2. MaxNow \in Nat \ {0} /\ MaxBoots \in Nat /\ IsFiniteSet(Processes)
  BY UsageAssumption
<1>3. InType(Gone(0)) /\ Gone(0).mode = "down" /\ Gone(0).boots = 0
  <2>1. NoEntries \in Entries /\ 0 \in 0..MaxBoots /\ 1 \in 1..MaxNow
    BY <1>2, EntriesTyped
  <2> QED BY <2>1 DEF Gone, InType, Saves
<1>4. \A p \in Processes : usage[p] = Gone(0)
  BY DEF UsageInit
<1> DEFINE b == BootsOf(usage)
<1>5. Total(b, Processes) = 0
  <2>1. \A p \in Processes : b[p] = 0
    BY <1>3, <1>4 DEF BootsOf
  <2> HIDE DEF b
  <2> QED BY <1>2, <2>1, TotalOfNone
<1> QED BY <1>1, <1>2, <1>3, <1>4, <1>5 DEF BootsInv, FileInType

LEMMA BootsInvSteps == BootsInv /\ [UsageNext]_usageVars => BootsInv'
<1> SUFFICES ASSUME BootsInv, [UsageNext]_usageVars PROVE BootsInv'
  OBVIOUS
<1>1. CASE TimePasses \/ UNCHANGED usageVars
  <2>1. now' \in 1..MaxNow /\ UNCHANGED <<file, usage>>
    BY <1>1, UsageAssumption DEF TimePasses, usageVars, BootsInv
  <2> QED BY <2>1 DEF BootsInv, FileInType
<1> QED
  BY <1>1, StartTyped, EndTyped, SaveBeginsTyped, OpensTyped, CommitTyped, SaveEndsTyped, RecordTyped, DeleteTyped, TakesTyped
  DEF UsageNext

(* What each process and its file keep is of its type, for any number of     *)
(* processes, entries, starts and kills (McpUsage, McpUsageFileStore).       *)
THEOREM UsageTypeCorrect == UsageSpec => []UsageTypeOK
<1>1. BootsInv => UsageTypeOK
  <2> SUFFICES ASSUME BootsInv PROVE UsageTypeOK
    OBVIOUS
  <2>1. DOMAIN usage = Processes
    BY DEF BootsInv, UsageOK
  <2> QED BY <2>1 DEF BootsInv, FileInType, InType, UsageTypeOK
<1> QED BY BootsInvStarts, BootsInvSteps, <1>1, PTL DEF UsageSpec
=============================================================================
