----------------------------- MODULE MCMachines -----------------------------
(* Five machines that share no state, checked side by side: each behaviour is *)
(* one of them, named by "scene", while the others stay at their beginnings.  *)
EXTENDS Setup, Attachments, Replies, Worktrees, Watcher, TLC

CONSTANTS p1, p2, k1, k2, g1, none, l1, l2, l3, t1, t2

(* Setup: one command line that may be any of four, and a plain setup or a    *)
(* rename beside it.                                                          *)
Plain == [kind |-> "setup", force |-> FALSE, burner |-> FALSE, phone |-> FALSE,
          daemon |-> TRUE, launcher |-> FALSE, named |-> FALSE, group |-> none]
MCRequest ==
    p1 :> {[Plain EXCEPT !.force = TRUE, !.phone = TRUE],
           [Plain EXCEPT !.burner = TRUE, !.launcher = TRUE],
           [Plain EXCEPT !.kind = "up", !.group = g1, !.daemon = FALSE],
           [Plain EXCEPT !.kind = "up"]}
    @@ p2 :> {Plain,
              [Plain EXCEPT !.kind = "rename", !.named = TRUE],
              [Plain EXCEPT !.kind = "rename", !.named = TRUE, !.daemon = FALSE]}

(* Attachments: a file whose hash is an object deeper, and one that is gone;  *)
(* two files of which one is here; one told by url, by hash and by both,      *)
(* first under a type that is no media; two in one object, of which one is    *)
(* only a url; two that the object over them mixes.                           *)
NoFile == [kind |-> "file", name |-> Absent, type |-> Absent, url |-> Absent,
           hash |-> Absent, path |-> Absent]
Part(own) == [own |-> own, marked |-> TRUE, tag |-> FALSE]
Told(own) == [own |-> own, marked |-> TRUE, tag |-> FALSE, inner |-> <<>>]
Tag(own) == [own |-> own, marked |-> TRUE, tag |-> TRUE, inner |-> <<>>]
Holding(own, inner) == [own |-> own, marked |-> TRUE, tag |-> FALSE, inner |-> inner]
MCPayload ==
    LET gone == [NoFile EXCEPT !.path = "gone", !.type = "media"]
        here == [NoFile EXCEPT !.path = "there", !.type = "media"]
        at(url, hash) == [NoFile EXCEPT !.url = url, !.hash = hash]
        named == [NoFile EXCEPT !.hash = "hash 1", !.name = "name 2"]
        outer == [at("url 1", Absent) EXCEPT !.type = "media"]
    IN  {<<Told(gone), Holding(outer, <<Part(at("url 1", "hash 1"))>>)>>,
         <<Told(here), Told([gone EXCEPT !.hash = "hash 2"])>>,
         <<Tag([at("url 2", Absent) EXCEPT !.type = "other"]), Told(named),
           Tag(at("url 2", "hash 1"))>>,
         <<Holding(at("url 1", Absent),
                   <<[Part(at("url 2", "hash 2")) EXCEPT !.marked = FALSE],
                     Part([at("url 1", "hash 1") EXCEPT !.kind = "image"])>>)>>,
         <<Holding(NoFile, <<Part(at("url 1", "hash 1")),
                             Part([at("url 3", "hash 2") EXCEPT !.path = "there"])>>)>>}

(* Replies: an answer of one part, and one of three, cut at a limit of 3.     *)
MCText == {<<1>>, <<5, 2>>}

(* Watcher: two sessions with the same short id, one with its own.            *)
MCShortOf == l1 :> t1 @@ l2 :> t1 @@ l3 :> t2

VARIABLE scene

Scenes == {"setup", "media", "replies", "trees", "watcher"}

Init ==
    /\ scene \in Scenes
    /\ SetupInit /\ MediaInit /\ ReplyInit /\ TreeInit /\ WatchInit
    /\ scene # "replies" => mode = "normal"     \* what a machine that rests begins with
    /\ scene # "watcher" => paired

Next ==
    \/ /\ scene = "setup" /\ SetupNext
       /\ UNCHANGED <<scene, mediaVars, replyVars, treeVars, watchVars>>
    \/ /\ scene = "media" /\ MediaNext
       /\ UNCHANGED <<scene, setupVars, replyVars, treeVars, watchVars>>
    \/ /\ scene = "replies" /\ ReplyNext
       /\ UNCHANGED <<scene, setupVars, mediaVars, treeVars, watchVars>>
    \/ /\ scene = "trees" /\ TreeNext
       /\ UNCHANGED <<scene, setupVars, mediaVars, replyVars, watchVars>>
    \/ /\ scene = "watcher" /\ WatchNext
       /\ UNCHANGED <<scene, setupVars, mediaVars, replyVars, treeVars>>

vars == <<scene, setupVars, mediaVars, replyVars, treeVars, watchVars>>
Spec == Init /\ [][Next]_vars

(* Chats are told apart by nothing but their records.                         *)
Symmetry == Permutations(Room)
=============================================================================
