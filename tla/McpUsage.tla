------------------------------ MODULE McpUsage ------------------------------
(* What the processes count of the use of the MCP keys, and the file that    *)
(* each keeps it in (src/src/mcp_usage.cpp, src/src/mcp_usage_store.cpp).    *)
(* An entry is a key, or a person of the identity mode, with its requests;   *)
(* the cells, tiers and clients of an entry are one number here.  A save     *)
(* takes one entry at a time, and calls go on counting meanwhile.            *)
(*                                                                           *)
(* Two processes may have the same instance name by mistake: the file says   *)
(* which start of which process wrote it (its boot) and when.  Time passes   *)
(* in the minutes that saves are apart, and the whole time of the model is   *)
(* shorter than what is removed by age: the retention, and the two hours of  *)
(* a deleted key that was never used.                                        *)
(* Some definitions follow a form of themselves with a bug that the code     *)
(* could have; no action uses it.                                            *)
EXTENDS Naturals, FiniteSets, Functions

CONSTANTS
  Processes,     \* they share one instance name
  UsageKeys,     \* keys of the configuration and of the page
  Subjects,      \* people of the identity mode
  Absent,        \* an identifier without an entry
  NoFile,
  MaxEntries,    \* kMcpUsageMaxEntries, and kMaxFileKeys of the store
  MaxDeleted,    \* McpUsageOptions::max_deleted
  ConflictTime,  \* kConflictSeconds
  MaxNow,        \* bound of the model: time
  MaxCount,      \* bound of the model: requests of an entry
  MaxBoots       \* bound of the model: starts, of all processes

ASSUME UsageAssumption == /\ IsFiniteSet(Processes)
                          /\ IsFiniteSet(UsageKeys) /\ UsageKeys \cap Subjects = {}
                          /\ MaxEntries \in Nat /\ MaxDeleted \in Nat /\ ConflictTime \in Nat
                          /\ MaxNow \in Nat \ {0} /\ MaxCount \in Nat /\ MaxBoots \in Nat
                          /\ Absent \notin [count : Nat, deleted : Nat]
                          /\ NoFile \notin [boot : Processes \X Nat, at : Nat]

Ids     == UsageKeys \cup Subjects
Entries == [Ids -> [count : 0..MaxCount, deleted : 0..MaxNow] \cup {Absent}]
Boots   == Processes \X (1..MaxBoots)
Headers == [boot : Boots, at : 1..MaxNow]

VARIABLES
  now,
  file,   \* the file of the instance
  usage   \* each process: McpUsage and its McpUsageFileStore

usageVars == <<now, file, usage>>

NoSave == [step |-> "idle"]
Saves  == {NoSave} \cup [step : {"begins", "takes", "commits"}, at : 1..MaxNow, todo : SUBSET Ids, rows : Entries]

UsageTypeOK ==
  /\ now \in 1..MaxNow
  /\ file = NoFile \/ file \in [header : Headers, entries : Entries]
  /\ DOMAIN usage = Processes
  /\ \A p \in Processes :
       /\ usage[p].boots \in 0..MaxBoots /\ usage[p].mode \in {"down", "keys", "identity"}
       /\ usage[p].live \subseteq UsageKeys
       /\ usage[p].entries \in Entries
       /\ usage[p].dirty \in BOOLEAN /\ usage[p].conflict \in BOOLEAN
       /\ usage[p].seen = NoFile \/ usage[p].seen \in Headers
       /\ usage[p].last \in 1..MaxNow
       /\ usage[p].save \in Saves

NoEntries   == [k \in Ids |-> Absent]
Entered(e)  == {k \in Ids : e[k] # Absent}
DeletedOf(e) == {k \in Entered(e) : e[k].deleted # 0}
Count(e, k) == IF e[k] = Absent THEN 0 ELSE e[k].count
Up(p)       == usage[p].mode # "down"
Boot(p)     == <<p, usage[p].boots>>
Starts      == FoldFunction(LAMBDA a, b : a.boots + b, 0, usage)

\* No process, after that many starts of it.
Gone(boots) == [boots |-> boots, mode |-> "down", live |-> {}, entries |-> NoEntries, dirty |-> FALSE, conflict |-> FALSE,
                seen |-> NoFile, last |-> 1, save |-> NoSave]

UsageInit ==
  /\ now = 1
  /\ file = NoFile
  /\ usage = [p \in Processes |-> Gone(0)]
-----------------------------------------------------------------------------
(* McpUsage in memory, under mu_.                                            *)

\* cap_deleted_locked: the oldest deletions go until max_deleted are left.
CappedDeleted(e) ==
  {[k \in Ids |-> IF k \in gone THEN Absent ELSE e[k]] :
     gone \in {g \in SUBSET DeletedOf(e) :
       /\ Cardinality(DeletedOf(e) \ g) <= MaxDeleted
       /\ g # {} => Cardinality(DeletedOf(e) \ g) = MaxDeleted
       /\ \A k \in g, l \in DeletedOf(e) \ g : e[k].deleted <= e[l].deleted}}

SyncedAnew(e, live) ==
  [k \in Ids |-> IF e[k] = Absent \/ k \in Subjects THEN e[k]
                 ELSE IF k \in live THEN [count |-> IF e[k].deleted = 0 THEN e[k].count ELSE 0, deleted |-> 0]
                 ELSE IF e[k].deleted = 0 THEN [e[k] EXCEPT !.deleted = now] ELSE e[k]]

\* sync_live_keys: a key that is back takes its entry again, one that is gone is
\* deleted, and a person of the identity mode is never a deleted key.
SyncedLive(e, live) ==
  [k \in Ids |-> IF e[k] = Absent \/ k \in Subjects THEN e[k]
                 ELSE IF k \in live THEN [e[k] EXCEPT !.deleted = 0]
                 ELSE IF e[k].deleted = 0 THEN [e[k] EXCEPT !.deleted = now] ELSE e[k]]

\* The start: the file is loaded, or stops the start when it holds too many entries.  The
\* constructor caps what it loaded; then sync_live_keys goes over what is left and caps again.
LoadsFile(f) == f # NoFile /\ Cardinality(Entered(f.entries)) <= MaxEntries

StartUsage(p) ==
  /\ ~Up(p) /\ Starts < MaxBoots
  /\ file = NoFile \/ LoadsFile(file)
  /\ \E mode \in {"keys", "identity"}, live \in SUBSET UsageKeys :
       LET loaded == IF LoadsFile(file) THEN file.entries ELSE NoEntries
       IN /\ mode = "identity" => live = {}
          /\ \E capped \in CappedDeleted(loaded) : \E entries \in CappedDeleted(SyncedLive(capped, live)) :
               usage' = [usage EXCEPT ![p] =
                 [boots |-> usage[p].boots + 1, mode |-> mode, live |-> live, entries |-> entries,
                  dirty |-> file = NoFile \/ entries # loaded \/ live \cap Entered(capped) # {}, conflict |-> FALSE,
                  seen |-> IF LoadsFile(file) THEN file.header ELSE NoFile, last |-> now, save |-> NoSave]]
  /\ UNCHANGED <<now, file>>

\* record, of a key that may be deleted by now, or of a person: a new entry only while there is room.
RecordUse(p, k) ==
  LET e == usage[p].entries IN
  /\ Up(p) /\ k \in IF usage[p].mode = "keys" THEN UsageKeys ELSE Subjects
  /\ k \in Entered(e) \/ Cardinality(Entered(e)) < MaxEntries
  /\ Count(e, k) < MaxCount
  /\ usage' = [usage EXCEPT ![p].entries[k] = [count |-> Count(e, k) + 1, deleted |-> IF e[k] = Absent THEN 0 ELSE e[k].deleted],
                            ![p].dirty = TRUE]
  /\ UNCHANGED <<now, file>>

\* The route that deletes a key of the page, and mark_deleted.
DeleteKey(p, k) ==
  /\ usage[p].mode = "keys" /\ k \in usage[p].live
  /\ \E entries \in CappedDeleted([usage[p].entries EXCEPT ![k] = [count |-> Count(usage[p].entries, k), deleted |-> now]]) :
       usage' = [usage EXCEPT ![p].entries = entries, ![p].dirty = TRUE, ![p].live = @ \ {k}]
  /\ UNCHANGED <<now, file>>
-----------------------------------------------------------------------------
(* save, one at a time under write_mu_.                                      *)
Saving(p, step) == Up(p) /\ usage[p].save.step = step

\* save_if_due; the mark is cleared before the first entry is taken.
SaveBegins(p) ==
  /\ Saving(p, "idle") /\ usage[p].dirty /\ usage[p].last < now
  /\ usage' = [usage EXCEPT ![p].dirty = FALSE, ![p].last = now,
                            ![p].save = [step |-> "begins", at |-> now, todo |-> Entered(usage[p].entries), rows |-> NoEntries]]
  /\ UNCHANGED <<now, file>>

SaveFails(p, conflict) ==
  usage' = [usage EXCEPT ![p].save = NoSave, ![p].dirty = TRUE, ![p].conflict = conflict]

\* Another process writes the file: not the one of this boot, not as this
\* process saw it last, and written a short time ago.
OthersBoot(p) == file # NoFile /\ file.header.boot # Boot(p)
OthersFileUnseen(p) == OthersBoot(p) /\ usage[p].save.at < file.header.at + ConflictTime
OthersFile(p) ==
  /\ OthersBoot(p)
  /\ usage[p].seen # file.header
  /\ usage[p].save.at < file.header.at + ConflictTime

\* McpUsageFileStore::begin.
OpensSave(p) ==
  /\ Saving(p, "begins")
  /\ \/ OthersFile(p) /\ SaveFails(p, TRUE)
     \/ ~OthersFile(p) /\ SaveFails(p, FALSE)
     \/ ~OthersFile(p) /\ usage' = [usage EXCEPT ![p].save.step = "takes"]
  /\ UNCHANGED <<now, file>>

TakesEntry(p, k) ==
  /\ Saving(p, "takes") /\ k \in usage[p].save.todo
  /\ usage' = [usage EXCEPT ![p].save.todo = @ \ {k}, ![p].save.rows[k] = usage[p].entries[k]]
  /\ UNCHANGED <<now, file>>

\* commit: the file is replaced as a whole, or the write fails.
CommitsSave(p) ==
  /\ Saving(p, "takes") /\ usage[p].save.todo = {}
  /\ \/ LET header == [boot |-> Boot(p), at |-> usage[p].save.at] IN
        /\ file' = [header |-> header, entries |-> usage[p].save.rows]
        /\ usage' = [usage EXCEPT ![p].seen = header, ![p].save.step = "commits"]
     \/ usage' = [usage EXCEPT ![p].save = NoSave, ![p].dirty = TRUE] /\ UNCHANGED file
  /\ UNCHANGED now

SaveClears(p) ==
  /\ Saving(p, "commits")
  /\ usage' = [usage EXCEPT ![p].save = NoSave, ![p].conflict = FALSE, ![p].dirty = FALSE]
  /\ UNCHANGED <<now, file>>

SaveEnds(p) ==
  /\ Saving(p, "commits")
  /\ usage' = [usage EXCEPT ![p].save = NoSave, ![p].conflict = FALSE]
  /\ UNCHANGED <<now, file>>
-----------------------------------------------------------------------------
\* A stop, after a save like the others, or a kill at any moment.
ProcessEnds(p) ==
  /\ Up(p)
  /\ usage' = [usage EXCEPT ![p] = Gone(usage[p].boots)]
  /\ UNCHANGED <<now, file>>

TimePasses == now < MaxNow /\ now' = now + 1 /\ UNCHANGED <<file, usage>>

UsageNext ==
  \/ \E p \in Processes :
       \/ StartUsage(p) \/ ProcessEnds(p) \/ SaveBegins(p) \/ OpensSave(p) \/ CommitsSave(p) \/ SaveEnds(p)
       \/ \E k \in Ids : RecordUse(p, k) \/ DeleteKey(p, k) \/ TakesEntry(p, k)
  \/ TimePasses

UsageSpec == UsageInit /\ [][UsageNext]_usageVars
-----------------------------------------------------------------------------
\* What is counted and not in the file is marked: a process that is not dirty
\* and does not save has nothing that a kill would lose, as long as nobody else
\* wrote the file (save clears the mark before it takes the first entry).
UnsavedIsDirty ==
  \A p \in Processes :
    Saving(p, "idle") /\ ~usage[p].dirty /\ file # NoFile =>
      file.header.boot # Boot(p) \/ file.entries = usage[p].entries

\* A save over a file that this process loaded or wrote forgets no request of a key that
\* is there, whatever was counted meanwhile and however often it was killed.  The one
\* exception: a save that deletions went past can leave more deleted keys in the file than
\* the bound, and a key of these that is back since may be dropped before it takes its
\* entry again (McpUsage::McpUsage, sync_live_keys, save).
SavesForgetNothing ==
  [][\A p \in Processes :
       /\ file # NoFile /\ file' # file
       /\ file'.header.boot = Boot(p) /\ usage[p].seen = file.header
       => \A k \in Ids : \/ Count(file'.entries, k) >= Count(file.entries, k)
                         \/ k \in UsageKeys \ usage[p].live
                         \/ k \in DeletedOf(file.entries) /\ Cardinality(DeletedOf(file.entries)) > MaxDeleted]_usageVars

\* A start after a stop or a kill is not a conflict: only a file of another
\* process is one (McpUsageFileStore::load and begin).
RestartIsNoConflict ==
  [][\A p \in Processes : ~usage[p].conflict /\ usage'[p].conflict => file.header.boot[1] # p]_usageVars

\* mcp_usage.hpp: "The most entries of one state. The file of the store [...] has no more."
FileCanBeLoaded == file = NoFile \/ LoadsFile(file)
=============================================================================
