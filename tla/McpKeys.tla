------------------------------- MODULE McpKeys ------------------------------
(* The keys that the MCP page makes (src/src/mcp_keys.cpp): a vector in      *)
(* memory, and a file that atomic_write_file replaces as a whole             *)
(* (src/src/query_library_file.cpp).  write_mu_ lets one change through at a *)
(* time and is held while the file is written; mu_ guards the vector and is  *)
(* not, so authenticate reads the vector while a change is on its way.       *)
(*                                                                           *)
(* A key is its name, its creator and the bytes that it takes in the file.   *)
(* The process can be killed and the machine can lose its power between any  *)
(* two steps of the write.                                                   *)
(* Some definitions follow a form of themselves with a bug that the code     *)
(* could have; no action uses it.                                            *)
EXTENDS Naturals, FiniteSetsExt

CONSTANTS
  KeyIds,       \* identifiers of the keys of the page
  KeyNames,
  Creators,     \* subjects; Nobody is the empty subject of the open mode
  KeySizes,     \* the bytes that a key can take in the file
  Nobody,
  NoKey,        \* what an identifier without a key has
  Torn,         \* the contents of a file whose bytes were lost
  ConfigNames,  \* the keys of the configuration; their name is their identifier
  KeyCallers,   \* threads that serve requests of the page
  MaxUiKeys,    \* kMcpMaxUiKeys
  MaxFileBytes, \* kMaxFileBytes, less what a file without keys takes
  MaxSurvivors, \* bound of the model: files that a power loss can bring back
  MaxCrashes    \* bound of the model: crashes

PageKey  == [name : KeyNames, creator : Creators, bytes : KeySizes]

ASSUME KeyAssumption == /\ Nobody \in Creators
                        /\ KeySizes \subseteq Nat
                        /\ NoKey \notin PageKey
                        /\ Torn \notin [KeyIds -> PageKey \cup {NoKey}]
                        /\ ConfigNames \subseteq KeyNames /\ ConfigNames \cap KeyIds = {}
                        /\ IsFiniteSet(KeyIds)
                        /\ MaxUiKeys \in Nat /\ MaxFileBytes \in Nat /\ MaxSurvivors \in Nat /\ MaxCrashes \in Nat

KeyFiles == [KeyIds -> PageKey \cup {NoKey}]
Refusals == {"storage_error", "manage_disabled", "too_many", "name_taken", "not_found", "config_key", "creator_changed"}

VARIABLES
  mode,     \* McpStoreOptions::mode; "down" without a process
  keys,     \* keys_, without the keys of the configuration
  disk,     \* file: what the path names; survivors: what it can name after a power loss
  write,    \* the change that holds write_mu_
  reply,    \* the last answer that each caller got
  crashes

keyVars == <<mode, keys, disk, write, reply, crashes>>

NoChange == [step |-> "idle"]

KeyTypeOK ==
  /\ mode \in {"static", "hybrid", "down"}
  /\ keys \in KeyFiles
  /\ disk.file \in KeyFiles /\ disk.survivors \in SUBSET KeyFiles
  /\ write = NoChange \/ write \in [step : {"temp", "synced", "renamed", "settled"}, by : KeyCallers, next : KeyFiles]
  /\ reply \in [KeyCallers -> Refusals \cup {"none", "ok"}]
  /\ crashes \in 0..MaxCrashes

NoKeys     == [i \in KeyIds |-> NoKey]
KeysIn(c)  == {i \in KeyIds : c[i] # NoKey}
NamesOf(c) == {c[i].name : i \in KeysIn(c)}

KeysInit ==
  /\ mode = "hybrid"
  /\ keys = NoKeys
  /\ disk = [file |-> NoKeys, survivors |-> {NoKeys}]
  /\ write = NoChange
  /\ reply = [c \in KeyCallers |-> "none"]
  /\ crashes = 0
-----------------------------------------------------------------------------
(* The three changes.  Each takes write_mu_, checks under mu_ and gives mu_  *)
(* back with the candidate that the file will hold.                          *)

Tries(c, next) == /\ write' = [step |-> "temp", by |-> c, next |-> next]
                  /\ UNCHANGED reply

Refuses(c, why) == /\ reply' = [reply EXCEPT ![c] = why]
                   /\ UNCHANGED write

ChangesKeys(c) == /\ mode # "down"
                  /\ write = NoChange
                  /\ UNCHANGED <<mode, keys, disk, crashes>>

NameTakenByUi(name) == name \in NamesOf(keys)
NameTaken(name)     == name \in NamesOf(keys) \cup ConfigNames

\* McpKeyStore::create.  new_id_locked looks for an identifier that is free now.  The
\* number of the keys is bounded here; the bytes of the file that they make are not.
Create(c, key) ==
  /\ ChangesKeys(c)
  /\ \/ mode = "static" /\ Refuses(c, "manage_disabled")
     \/ mode # "static" /\ Cardinality(KeysIn(keys)) >= MaxUiKeys /\ Refuses(c, "too_many")
     \/ /\ mode # "static" /\ Cardinality(KeysIn(keys)) < MaxUiKeys
        /\ \/ NameTaken(key.name) /\ Refuses(c, "name_taken")
           \/ ~NameTaken(key.name) /\ \E i \in KeyIds \ KeysIn(keys) : Tries(c, [keys EXCEPT ![i] = key])

\* What remove and adopt refuse alike, of a key of the page or of the configuration.
Finds(c, i) ==
  \/ mode = "static" /\ Refuses(c, "manage_disabled")
  \/ mode # "static" /\ i \in KeyIds \ KeysIn(keys) /\ Refuses(c, "not_found")
  \/ mode # "static" /\ i \in ConfigNames /\ Refuses(c, "config_key")

\* McpKeyStore::remove.
Remove(c, i) ==
  /\ ChangesKeys(c)
  /\ \/ Finds(c, i)
     \/ mode # "static" /\ i \in KeysIn(keys) /\ Tries(c, [keys EXCEPT ![i] = NoKey])

\* McpKeyStore::adopt, by a person who saw the creator `expected`.  The key can take more
\* bytes or less with its new creator.
Adopt(c, i, expected, person) ==
  /\ ChangesKeys(c)
  /\ \/ Finds(c, i)
     \/ /\ mode # "static" /\ i \in KeysIn(keys)
        /\ \/ keys[i].creator # expected /\ Refuses(c, "creator_changed")
           \/ /\ keys[i].creator = expected
              /\ \E bytes \in KeySizes : Tries(c, [keys EXCEPT ![i].creator = person, ![i].bytes = bytes])
-----------------------------------------------------------------------------
(* atomic_write_file, without mu_.                                           *)

Writing(step) == mode # "down" /\ write.step = step
Moves(step)   == write' = [write EXCEPT !.step = step]

\* The bytes of the temporary file are on the disk, or not.
SyncTemp == /\ Writing("temp")
            /\ Moves("synced")
            /\ UNCHANGED <<mode, keys, disk, reply, crashes>>

RenameUnsynced == /\ Writing("temp")
                  /\ disk' = [file |-> write.next, survivors |-> disk.survivors \cup {Torn}]
                  /\ Moves("renamed")
                  /\ UNCHANGED <<mode, keys, reply, crashes>>

Rename == /\ Writing("synced")
          /\ disk' = [file |-> write.next, survivors |-> disk.survivors \cup {write.next}]
          /\ Moves("renamed")
          /\ UNCHANGED <<mode, keys, reply, crashes>>

\* The directory is synced if that works; a failure is not told.
SyncDirectory == /\ Writing("renamed")
                 /\ \/ disk' = [disk EXCEPT !.survivors = {disk.file}]
                    \/ Cardinality(disk.survivors) < MaxSurvivors /\ UNCHANGED disk
                 /\ Moves("settled")
                 /\ UNCHANGED <<mode, keys, reply, crashes>>

\* Any call before or with the rename fails: the temporary file goes.
WriteFails == /\ Writing("temp") \/ Writing("synced")
              /\ write' = NoChange
              /\ reply' = [reply EXCEPT ![write.by] = "storage_error"]
              /\ UNCHANGED <<mode, keys, disk, crashes>>

\* create, remove and adopt after the write: keys_ = candidate under mu_.
PublishesEarly == /\ Writing("temp")
                  /\ keys' = write.next
                  /\ reply' = [reply EXCEPT ![write.by] = "ok"]
                  /\ UNCHANGED <<mode, disk, write, crashes>>

Publish == /\ Writing("settled")
           /\ keys' = write.next
           /\ reply' = [reply EXCEPT ![write.by] = "ok"]
           /\ write' = NoChange
           /\ UNCHANGED <<mode, disk, crashes>>
-----------------------------------------------------------------------------
(* The process goes away, and the constructor reads the file again.          *)

GoesDown == /\ mode # "down" /\ crashes < MaxCrashes
            /\ mode' = "down"
            /\ keys' = NoKeys
            /\ write' = NoChange
            /\ reply' = [c \in KeyCallers |-> "none"]
            /\ crashes' = crashes + 1

KillStore == GoesDown /\ UNCHANGED disk

PowerLossStore == GoesDown /\ \E found \in disk.survivors : disk' = [file |-> found, survivors |-> {found}]

FileBytes(c) == MapThenSumSet(LAMBDA i : c[i].bytes, KeysIn(c))
TooLarge(c)  == FileBytes(c) > MaxFileBytes

\* A whole file with not too many keys and no name that is used twice.
WellFormed(c) == /\ c \in KeyFiles
                 /\ Cardinality(KeysIn(c)) <= MaxUiKeys
                 /\ NamesOf(c) \cap ConfigNames = {}
                 /\ \A i, j \in KeysIn(c) : c[i].name = c[j].name => i = j

\* The constructor takes such a file when it is not too large, and throws otherwise.
Loads(c) == WellFormed(c) /\ ~TooLarge(c)

StartStore ==
  /\ mode = "down"
  /\ \/ mode' = "static" /\ keys' = NoKeys
     \/ mode' = "hybrid" /\ Loads(disk.file) /\ keys' = disk.file
  /\ UNCHANGED <<disk, write, reply, crashes>>

KeysNext ==
  \/ \E c \in KeyCallers :
       \/ \E key \in PageKey : Create(c, key)
       \/ \E i \in KeyIds \cup ConfigNames :
            Remove(c, i) \/ \E expected \in Creators, person \in Creators \ {Nobody} : Adopt(c, i, expected, person)
  \/ SyncTemp \/ Rename \/ SyncDirectory \/ WriteFails \/ Publish
  \/ KillStore \/ PowerLossStore \/ StartStore

KeysSpec == KeysInit /\ [][KeysNext]_keyVars
-----------------------------------------------------------------------------
(* The file and the vector implement an atomic set.  The keys of the page    *)
(* that are in force are those of the vector; in the static mode, and while  *)
(* there is no process, those of the file.                                   *)
InForce == IF mode = "hybrid" THEN keys ELSE disk.file
KeySets == INSTANCE KeySet WITH
  Contents <- KeyFiles, Callers <- KeyCallers, keys <- InForce, change <- IF write = NoChange THEN InForce ELSE write.next,
  survivors <- disk.survivors, told <- reply

\* A change that was acknowledged is on the disk and survives a kill; a failed
\* one left nothing; a power loss finds one whole file, never a torn one
\* (write_file before keys_ = candidate in create, remove and adopt; fsync
\* before rename in atomic_write_file).
KeySetIsAtomic == KeySets!Spec

\* Whatever the path names after a crash, its size is the one thing for which the
\* constructor can refuse it: no change leaves a torn file, one with too many keys or one
\* with a name twice (create looks at the names of both sources under write_mu_).  No
\* change looks at the size, so a file over 4 MiB can be written and is not loaded again.
OnlySizeIsRefused == \A found \in disk.survivors \cup {disk.file} : WellFormed(found)
=============================================================================
