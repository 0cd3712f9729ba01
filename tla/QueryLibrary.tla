---------------------------- MODULE QueryLibrary ----------------------------
(* The saved queries of the server (src/src/query_library.cpp): folders and  *)
(* queries in memory behind one mutex, which a request holds from its look   *)
(* at the file to the end of its write, and the file, which people may edit  *)
(* with an editor at any moment.  An editor of the page (a tab) sends the    *)
(* revision that it holds with every change, as If-Match.                    *)
(*                                                                           *)
(* The file has the version 2, and the library is writable; the import and   *)
(* the texts of the queries are left out.  A file that was edited has        *)
(* another stat, so what the process keeps of it is whether it is the file   *)
(* that it knows.                                                            *)
(* Some definitions follow a form of themselves with a bug that the code     *)
(* could have; no action uses it.                                            *)
EXTENDS Naturals, FiniteSets

CONSTANTS
  FolderIds, QueryIds,   \* as many as the library may hold
  LibraryHosts,
  LibraryNames,
  Top,                   \* the top level of a host
  NoItem,                \* what an identifier without an item has
  Tab,                   \* the editor that sends If-Match
  Others,                \* a client that does not
  Unreadable,            \* the contents of a file that is not valid
  MaxDepth,              \* kQueryLibraryMaxFolderDepth
  MaxRevision,           \* bound of the model: revisions
  MaxEvents              \* bound of the model: edits of the file, starts of the process

ASSUME LibraryAssumption == /\ Top \notin FolderIds /\ IsFiniteSet(FolderIds)
                            /\ MaxDepth \in Nat /\ MaxRevision \in Nat /\ MaxEvents \in Nat

Folder    == [host : LibraryHosts, parent : FolderIds \cup {Top}, name : LibraryNames]
Query     == [host : LibraryHosts, folder : FolderIds \cup {Top}, name : LibraryNames]
Libraries == [folders : [FolderIds -> Folder \cup {NoItem}], queries : [QueryIds -> Query \cup {NoItem}], revision : 0..MaxRevision]

ASSUME UnreadableAssumption == Unreadable \notin Libraries
ASSUME NoItemAssumption == NoItem \notin Folder /\ NoItem \notin Query

VARIABLES
  library,  \* state_
  broken,   \* load_error_ is set
  onDisk,   \* the file
  known,    \* stamp_ is the stat of the file
  change,   \* the request that holds mu_ and writes
  tab,      \* the revision of the tab; whether nothing changed since, and whether the process is the same
  slipped,  \* history: an edit came between the rename of a change and the stat after it
  events

libraryVars == <<library, broken, onDisk, known, change, tab, slipped, events>>

NoWrite  == [step |-> "none"]
Unlocked == change = NoWrite

LibraryTypeOK ==
  /\ library \in Libraries /\ onDisk \in Libraries \cup {Unreadable}
  /\ broken \in BOOLEAN /\ known \in BOOLEAN /\ slipped \in BOOLEAN
  /\ change = NoWrite \/ change \in [step : {"writes", "renamed"}, by : {Tab, Others}, next : Libraries]
  /\ tab \in [revision : 0..MaxRevision, fresh : BOOLEAN, sameLife : BOOLEAN]
  /\ events \in 0..MaxEvents

NoLibrary == [folders |-> [i \in FolderIds |-> NoItem], queries |-> [i \in QueryIds |-> NoItem], revision |-> 0]

-----------------------------------------------------------------------------
(* The tree (src/src/query_library_rules.cpp).                               *)
Folders(l) == {i \in FolderIds : l.folders[i] # NoItem}
Queries(l) == {i \in QueryIds : l.queries[i] # NoItem}

\* A folder and those above it; none above the top level.
Line(l, i) ==
  LET line[n \in 0..Cardinality(FolderIds)] ==
        IF n = 0 THEN {i} \cap Folders(l)
        ELSE LET s == line[n - 1] IN s \cup ({l.folders[j].parent : j \in s} \ {Top})
  IN line[Cardinality(FolderIds)]

Depth(l, i)   == Cardinality(Line(l, i))
Subtree(l, i) == {j \in Folders(l) : i \in Line(l, j)}

\* existing_folder_ref.
RefersTo(l, i, host) == i = Top \/ (i \in Folders(l) /\ l.folders[i].host = host)

FolderNameTaken(l, f, but) ==
  \E i \in Folders(l) \ but : l.folders[i].host = f.host /\ l.folders[i].parent = f.parent /\ l.folders[i].name = f.name
QueryNameTaken(l, q, but) ==
  \E i \in Queries(l) \ but : l.queries[i].host = q.host /\ l.queries[i].folder = q.folder /\ l.queries[i].name = q.name

\* What parse_query_library_file asks of a tree; of depths and names it asks
\* nothing.
Accepted(l) ==
  /\ \A i \in Folders(l) : RefersTo(l, l.folders[i].parent, l.folders[i].host)
  /\ \A i \in Folders(l) : i \notin Line(l, l.folders[i].parent)
  /\ \A i \in Queries(l) : RefersTo(l, l.queries[i].folder, l.queries[i].host)

\* What the rules of the changes ask of an item besides.
FolderInOrder(l, i) == Depth(l, i) <= MaxDepth /\ ~FolderNameTaken(l, l.folders[i], {i})
QueryInOrder(l, i)  == ~QueryNameTaken(l, l.queries[i], {i})

\* ensure_depth, for a folder that goes below `parent` with everything in it.
FolderFits(l, parent, i) == Depth(l, parent) + 1 <= MaxDepth
SubtreeFits(l, parent, i) ==
  \A j \in Subtree(l, i) : Depth(l, parent) + Depth(l, j) - Depth(l, i) + 1 <= MaxDepth
-----------------------------------------------------------------------------
(* The process starts, with no file or with any that the loader accepts; the *)
(* revisions are counted from there.                                         *)
LibraryInit ==
  /\ \E folders \in [FolderIds -> Folder \cup {NoItem}], queries \in [QueryIds -> Query \cup {NoItem}] :
       library = [folders |-> folders, queries |-> queries, revision |-> 0]
  /\ Accepted(library)
  /\ onDisk = library
  /\ broken = FALSE /\ known = TRUE
  /\ change = NoWrite
  /\ tab = [revision |-> 0, fresh |-> TRUE, sameLife |-> TRUE]
  /\ slipped = FALSE
  /\ events = 0
-----------------------------------------------------------------------------
(* refresh_locked: an edit of the file is taken before anything else.        *)
ReloadedAsIs(f) == f
Reloaded(f) == [f EXCEPT !.revision = IF f.revision > library.revision THEN f.revision ELSE library.revision + 1]

Refreshed == IF known \/ onDisk = Unreadable THEN library ELSE Reloaded(onDisk)
Readable  == IF known THEN ~broken ELSE onDisk # Unreadable

\* What the tab holds after a load, or after the answer to its change.
TabAt(r) == [revision |-> r, fresh |-> TRUE, sameLife |-> TRUE]

\* The tab is as it was, unless the library is not.
TabSees(l) == IF [l EXCEPT !.revision = 0] = [library EXCEPT !.revision = 0] THEN tab ELSE [tab EXCEPT !.fresh = FALSE]

Refreshes == /\ Unlocked
             /\ Refreshed.revision <= MaxRevision
             /\ library' = Refreshed
             /\ broken' = ~Readable
             /\ known' = TRUE
             /\ slipped' = (slipped /\ known)
             /\ UNCHANGED <<onDisk, events>>

\* A read, and a change that is refused.
Reads == Refreshes /\ tab' = TabSees(Refreshed) /\ UNCHANGED change

\* The tab loads the library.
TabLoads == Refreshes /\ tab' = TabAt(Refreshed.revision) /\ UNCHANGED change

\* require_editable, check_if_match and the start of commit_locked.
Commits(by, next) ==
  /\ Refreshes
  /\ Readable
  /\ by = Tab => tab.revision = Refreshed.revision
  /\ Refreshed.revision < MaxRevision
  /\ change' = [step |-> "writes", by |-> by, next |-> [next EXCEPT !.revision = Refreshed.revision + 1]]
  /\ tab' = TabSees(Refreshed)

CreateFolder(by, f) ==
  LET l == Refreshed IN
  /\ Unlocked
  /\ RefersTo(l, f.parent, f.host)
  /\ Depth(l, f.parent) + 1 <= MaxDepth
  /\ ~FolderNameTaken(l, f, {})
  /\ \E i \in FolderIds \ Folders(l) : Commits(by, [l EXCEPT !.folders[i] = f])

UpdateFolder(by, i, name, parent) ==
  LET l == Refreshed IN
  /\ Unlocked
  /\ i \in Folders(l)
  /\ LET f == [l.folders[i] EXCEPT !.name = name, !.parent = parent] IN
     /\ f # l.folders[i]
     /\ parent # l.folders[i].parent =>
          /\ RefersTo(l, parent, f.host)
          /\ parent \notin Subtree(l, i)
          /\ SubtreeFits(l, parent, i)
     /\ ~FolderNameTaken(l, f, {i})
     /\ Commits(by, [l EXCEPT !.folders[i] = f])

\* Without "recursive" only an empty folder goes.
DeleteFolder(by, i, recursive) ==
  LET l      == Refreshed
      doomed == Subtree(l, i)
      below  == {q \in Queries(l) : l.queries[q].folder \in doomed}
  IN /\ Unlocked
     /\ i \in Folders(l)
     /\ recursive \/ (doomed = {i} /\ below = {})
     /\ Commits(by, [l EXCEPT !.folders = [j \in FolderIds |-> IF j \in doomed THEN NoItem ELSE @[j]],
                              !.queries = [q \in QueryIds |-> IF q \in below THEN NoItem ELSE @[q]]])

CreateQuery(by, q) ==
  LET l == Refreshed IN
  /\ Unlocked
  /\ RefersTo(l, q.folder, q.host)
  /\ ~QueryNameTaken(l, q, {})
  /\ \E i \in QueryIds \ Queries(l) : Commits(by, [l EXCEPT !.queries[i] = q])

UpdateQuery(by, i, name, folder) ==
  LET l == Refreshed IN
  /\ Unlocked
  /\ i \in Queries(l)
  /\ LET q == [l.queries[i] EXCEPT !.name = name, !.folder = folder] IN
     /\ q # l.queries[i]
     /\ RefersTo(l, folder, q.host)
     /\ ~QueryNameTaken(l, q, {i})
     /\ Commits(by, [l EXCEPT !.queries[i] = q])

DeleteQuery(by, i) ==
  /\ Unlocked /\ i \in Queries(Refreshed)
  /\ Commits(by, [Refreshed EXCEPT !.queries[i] = NoItem])
-----------------------------------------------------------------------------
(* commit_locked: the file is replaced as a whole, or the write fails.       *)

Renames == /\ change.step = "writes"
           /\ onDisk' = change.next
           /\ known' = FALSE
           /\ slipped' = FALSE
           /\ change' = [change EXCEPT !.step = "renamed"]
           /\ UNCHANGED <<library, broken, tab, events>>

RenameFailsLate == /\ change.step = "writes"
                   /\ library' = change.next
                   /\ change' = NoWrite
                   /\ UNCHANGED <<broken, onDisk, known, tab, slipped, events>>

RenameFails == /\ change.step = "writes"
               /\ change' = NoWrite
               /\ UNCHANGED <<library, broken, onDisk, known, tab, slipped, events>>

\* The stat after the rename is that of the file, whoever wrote it last.
Publishes == /\ change.step = "renamed"
             /\ library' = change.next
             /\ known' = TRUE
             /\ tab' = IF change.by = Tab THEN TabAt(library'.revision) ELSE [tab EXCEPT !.fresh = FALSE]
             /\ change' = NoWrite
             /\ UNCHANGED <<broken, onDisk, slipped, events>>
-----------------------------------------------------------------------------
(* External: somebody edits the file.  An item is written, changed or taken  *)
(* out, in any way that the loader accepts, and the revision is kept; the    *)
(* file can be removed, or be one that the loader refuses.                   *)
Edits ==
  /\ events < MaxEvents /\ events' = events + 1
  /\ \/ onDisk' = Unreadable
     \/ onDisk' = NoLibrary
     \/ /\ onDisk # Unreadable
        /\ \/ \E i \in FolderIds, f \in Folder \cup {NoItem} : onDisk' = [onDisk EXCEPT !.folders[i] = f]
           \/ \E i \in QueryIds, q \in Query \cup {NoItem} : onDisk' = [onDisk EXCEPT !.queries[i] = q]
        /\ Accepted(onDisk')
  /\ known' = FALSE
  /\ slipped' = (slipped \/ change.step = "renamed")
  /\ UNCHANGED <<library, broken, change, tab>>

\* The process ends at any moment, and its next start reads the file.
Restarts ==
  /\ events < MaxEvents /\ events' = events + 1
  /\ library' = IF onDisk = Unreadable THEN NoLibrary ELSE onDisk
  /\ broken' = (onDisk = Unreadable)
  /\ known' = TRUE /\ slipped' = FALSE
  /\ change' = NoWrite
  /\ tab' = [tab EXCEPT !.sameLife = FALSE, !.fresh = @ /\ TabSees(library').fresh]
  /\ UNCHANGED onDisk

LibraryNext ==
  \/ Reads \/ TabLoads
  \/ \E by \in {Tab, Others} :
       \/ \E f \in Folder : CreateFolder(by, f)
       \/ \E i \in FolderIds, name \in LibraryNames, parent \in FolderIds \cup {Top} : UpdateFolder(by, i, name, parent)
       \/ \E i \in FolderIds, recursive \in BOOLEAN : DeleteFolder(by, i, recursive)
       \/ \E q \in Query : CreateQuery(by, q)
       \/ \E i \in QueryIds, name \in LibraryNames, folder \in FolderIds \cup {Top} : UpdateQuery(by, i, name, folder)
       \/ \E i \in QueryIds : DeleteQuery(by, i)
  \/ Renames \/ RenameFails \/ Publishes
  \/ Edits \/ Restarts

LibrarySpec == LibraryInit /\ [][LibraryNext]_libraryVars
-----------------------------------------------------------------------------
\* Every change of a library that the loader accepts makes one that it accepts,
\* and no change puts an item out of order: none makes a folder its own ancestor,
\* moves a folder below the depth limit, gives two siblings one name, or leaves
\* an item in a folder that is gone or of another host.  An edited file may have
\* folders too deep and siblings of one name, and the changes after it leave what
\* is in order as it is (ensure_depth, update_folder, delete_folder).
TreeIsSound ==
  /\ Accepted(library)
  /\ change # NoWrite =>
       LET l == library  m == change.next IN
       /\ Accepted(m)
       /\ \A i \in Folders(m) : (i \in Folders(l) => FolderInOrder(l, i)) => FolderInOrder(m, i)
       /\ \A i \in Queries(m) : (i \in Queries(l) => QueryInOrder(l, i)) => QueryInOrder(m, i)

\* Between two requests the process has what the file has, or sees that it does
\* not, whatever write failed: but for an edit between the rename of a change and
\* the stat after it, which stays unseen (commit_locked, refresh_locked).
FileIsKnown ==
  Unlocked /\ known /\ ~slipped =>
    IF onDisk = Unreadable THEN broken ELSE ~broken /\ [onDisk EXCEPT !.revision = 0] = [library EXCEPT !.revision = 0]

\* A change of the tab is accepted only over the library that the tab loaded or
\* made itself, whatever was changed or edited since, as long as the process
\* lives (check_if_match_locked, refresh_locked).
EditorsKeepUpdates ==
  [][Unlocked /\ change'.step = "writes" /\ change'.by = Tab /\ tab.sameLife => tab'.fresh]_libraryVars
=============================================================================
