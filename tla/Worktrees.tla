----------------------------- MODULE Worktrees -----------------------------
(* /worktree new, use and remove: the git worktrees a chat may work in        *)
(* (worktrees.rs and the worktree commands of app.rs). Four places must agree *)
(* and none of them changes together with another: the directories, git's own *)
(* list of them, the records in the listener's memory and in worktrees.json,  *)
(* written whole. Another program that opens the stores writes back what it   *)
(* has read.                                                                  *)
EXTENDS Naturals, FiniteSets

CONSTANTS
    Desk,         \* chats
    Repo,         \* repositories
    TreeName,     \* worktree names, after sanitize_name
    MaxTrees,     \* bound: worktrees made
    MaxTreeFaults \* bound: failures, kills, openings, directories removed by hand

ASSUME TreeAssumption == MaxTrees \in Nat /\ MaxTreeFaults \in Nat

Place == Repo \X TreeName      \* a worktree's path and branch follow from these
Tree == [id : 1..MaxTrees, place : Place]
NoTree == [id |-> 0]

VARIABLES
    dirs,       \* the directories under the worktree directory
    gitKnows,   \* the worktrees git has registered
    trees,      \* the listener's records
    treeFile,   \* worktrees.json
    chosen,     \* the worktree each chat works in
    doing,      \* what the listener is doing
    lent,       \* what another program has read and will write back
    treesMade, treeFaults,
    told,       \* history: worktrees a chat was told it works in
    unsafe      \* ghost: told worktrees that a failed save or a copy written back may lose

treeVars == <<dirs, gitKnows, trees, treeFile, chosen, doing, lent, treesMade, treeFaults,
              told, unsafe>>

Waiting == [at |-> "waiting"]
NotLent == [on |-> FALSE, was |-> {}]
TreeInit ==
    /\ dirs = {} /\ gitKnows = {} /\ trees = {} /\ treeFile = {}
    /\ chosen = [d \in Desk |-> NoTree]
    /\ doing = Waiting /\ lent = NotLent /\ treesMade = 0 /\ treeFaults = 0
    /\ told = {} /\ unsafe = {}

TreeFault == treeFaults < MaxTreeFaults /\ treeFaults' = treeFaults + 1
Places(some) == {t.place : t \in some}
At(place) == {t \in trees : t.place = place}       \* find

(* WorktreeStore::save: the whole list, into a new file that is renamed. When *)
(* it fails the memory keeps the change and the sender is told of the error.  *)
TreesSaved(now) == treeFile' = now /\ unsafe' = unsafe \ Places(now)
TreesNotSaved(now) ==
    /\ TreeFault /\ UNCHANGED treeFile
    /\ unsafe' = unsafe \cup (Places(now) \ Places(treeFile))

(*---------------------------------- new -----------------------------------*)

(* switch_to_worktree: when the session cannot be saved the chat is told.     *)
Switches(desk, tree) ==
    \/ /\ chosen' = [chosen EXCEPT ![desk] = tree]
       /\ told' = told \cup {tree.place} /\ UNCHANGED treeFaults
    \/ TreeFault /\ UNCHANGED <<chosen, told>>

(* create with a record whose directory is there: that one, without a save.   *)
TakesExisting(desk, place) ==
    /\ doing = Waiting /\ place \in dirs
    /\ \E tree \in At(place) : Switches(desk, tree)
    /\ UNCHANGED <<dirs, gitKnows, trees, treeFile, doing, lent, treesMade, unsafe>>

(* git worktree add refuses a place it still has registered, and may fail in  *)
(* other ways; a path that exists without a record is refused before. Then    *)
(* the path is made canonical, which may fail and leave it without a record.  *)
AddsTree(desk, place) ==
    /\ doing = Waiting /\ place \notin dirs \cup gitKnows /\ treesMade < MaxTrees
    /\ dirs' = dirs \cup {place} /\ gitKnows' = gitKnows \cup {place}
    /\ \/ /\ treesMade' = treesMade + 1 /\ UNCHANGED treeFaults
          /\ doing' = [at |-> "added", desk |-> desk,
                       tree |-> [id |-> treesMade + 1, place |-> place]]
       \/ TreeFault /\ UNCHANGED <<doing, treesMade>>
    /\ UNCHANGED <<trees, treeFile, chosen, lent, told, unsafe>>

(* Mutant of RecordsTree: every record of that name makes way.                *)
RecordsTreeAlone ==
    /\ doing.at = "added"
    /\ trees' = {t \in trees : t.place[2] # doing.tree.place[2]} \cup {doing.tree}
    /\ TreesSaved(trees') /\ Switches(doing.desk, doing.tree)
    /\ doing' = Waiting
    /\ UNCHANGED <<dirs, gitKnows, lent, treesMade>>

(* The record takes the place of an older one, and the list is saved.         *)
RecordsTree ==
    /\ doing.at = "added"
    /\ trees' = (trees \ At(doing.tree.place)) \cup {doing.tree}
    /\ \/ TreesSaved(trees') /\ Switches(doing.desk, doing.tree)
       \/ TreesNotSaved(trees') /\ UNCHANGED <<chosen, told>>
    /\ doing' = Waiting
    /\ UNCHANGED <<dirs, gitKnows, lent, treesMade>>

(*------------------------------ use and remove ----------------------------*)

(* use does not look at the directory.                                        *)
UsesTree(desk, place) ==
    /\ doing = Waiting
    /\ \E tree \in At(place) : Switches(desk, tree)
    /\ UNCHANGED <<dirs, gitKnows, trees, treeFile, doing, lent, treesMade, unsafe>>

(* remove confirm: git removes the worktree, or refuses (changes in it, or a  *)
(* worktree it no longer knows).                                              *)
RemovesTree(desk, place) ==
    /\ doing = Waiting /\ place \in gitKnows
    /\ \E tree \in At(place) : doing' = [at |-> "removed", desk |-> desk, tree |-> tree]
    /\ dirs' = dirs \ {place} /\ gitKnows' = gitKnows \ {place}
    /\ UNCHANGED <<trees, treeFile, chosen, lent, treesMade, treeFaults, told, unsafe>>

(* Then its record goes. Only the chat that asked leaves the worktree, and    *)
(* not when the save fails.                                                   *)
ForgetsTree ==
    LET tree == doing.tree IN
    /\ doing.at = "removed"
    /\ trees' = trees \ {tree}
    /\ told' = told \ {tree.place}
    /\ \/ /\ TreesSaved(trees') /\ UNCHANGED treeFaults
          /\ chosen' = [chosen EXCEPT ![doing.desk] =
                 IF @.id # 0 /\ @.place = tree.place THEN NoTree ELSE @]
       \/ TreesNotSaved(trees') /\ UNCHANGED chosen
    /\ doing' = Waiting
    /\ UNCHANGED <<dirs, gitKnows, lent, treesMade>>

(*---------------------------- Restarts and others -------------------------*)

(* The listener is killed, between any two steps, and started again: open     *)
(* reads the list and saves it.                                               *)
ListenerRestarts ==
    /\ TreeFault
    /\ trees' = treeFile /\ doing' = Waiting
    /\ UNCHANGED <<dirs, gitKnows, treeFile, chosen, lent, treesMade, told, unsafe>>

OpenerReadsTrees ==
    /\ ~lent.on /\ TreeFault
    /\ lent' = [on |-> TRUE, was |-> treeFile]
    /\ UNCHANGED <<dirs, gitKnows, trees, treeFile, chosen, doing, treesMade, told, unsafe>>

OpenerWritesTrees ==
    /\ lent.on
    /\ treeFile' = lent.was /\ lent' = NotLent
    /\ unsafe' = unsafe \cup (Places(treeFile) \ Places(lent.was))
    /\ UNCHANGED <<dirs, gitKnows, trees, chosen, doing, treesMade, treeFaults, told>>

DirectoryRemoved(place) ==
    /\ place \in dirs /\ TreeFault /\ dirs' = dirs \ {place}
    /\ UNCHANGED <<gitKnows, trees, treeFile, chosen, doing, lent, treesMade, told, unsafe>>

GitPrunes(place) ==
    /\ place \in gitKnows \ dirs /\ gitKnows' = gitKnows \ {place}
    /\ UNCHANGED <<dirs, trees, treeFile, chosen, doing, lent, treesMade, treeFaults, told, unsafe>>

TreeNext ==
    \/ \E desk \in Desk, place \in Place :
          \/ TakesExisting(desk, place) \/ AddsTree(desk, place)
          \/ UsesTree(desk, place) \/ RemovesTree(desk, place)
    \/ RecordsTree \/ ForgetsTree \/ ListenerRestarts
    \/ OpenerReadsTrees \/ OpenerWritesTrees
    \/ \E place \in Place : DirectoryRemoved(place) \/ GitPrunes(place)

TreeSpec == TreeInit /\ [][TreeNext]_treeVars

(*------------------------------- Properties -------------------------------*)

(* A worktree a chat was told it works in is found again by its name, in this *)
(* listener and after any restart, until it is removed: worktrees of other    *)
(* names, and of other repositories, come and go without it. What may lose it *)
(* is a save that failed, with none that succeeded since, or an old list      *)
(* written back by another program.                                           *)
ToldIsKept ==
    \A place \in told : \/ place \in unsafe
                        \/ place \in Places(trees) \cap Places(treeFile)
                        \/ doing.at = "removed" /\ doing.tree.place = place
=============================================================================
