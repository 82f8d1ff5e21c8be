------------------------------ MODULE GitHubFs ------------------------------
(***************************************************************************)
(* The virtual filesystem a session's file tools work on                   *)
(* (GitHubFsProvider in src/src/server/github-fs.ts) and its commit and    *)
(* push: an overlay of edits over a snapshot of the branch, a cache of     *)
(* file contents, and flush, which turns the edits into one commit while   *)
(* other tools keep running and other people keep pushing.                 *)
(*                                                                         *)
(* Directories are one level deep.  A content is the set of the chunks     *)
(* written to a file.  Renaming a directory, and the pull request that may *)
(* follow a flush, are left out.                                           *)
(***************************************************************************)
EXTENDS Naturals

CONSTANTS
    Files, Dirs,  \* paths
    DirOf,        \* per file, its directory, or None at the root
    Reserved,     \* reservedPrefix and what is under it
    Chunks,       \* what may be written
    Base,         \* the provider's branch
    Branches,     \* branches a flush may push to
    Ops,          \* file operations that may wait at the same time
    Flushes,      \* flush calls that may run at the same time
    MaxEdits,     \* bound: file operations
    MaxFlushes,   \* bound: flushes
    MaxPushes,    \* bound: other people's pushes
    Deleted,      \* null in the overlay
    None

Paths    == Files \cup Dirs
Contents == SUBSET Chunks
Trees    == [Files -> {None} \cup Contents]

ASSUME FsAssumption ==
    /\ DirOf \in [Files -> Dirs \cup {None}]
    /\ Files \cap Dirs = {} /\ None \notin Dirs
    /\ Reserved \subseteq Paths
    /\ \A f \in Files \cap Reserved : DirOf[f] \in Reserved \cup {None}
    /\ Base \in Branches
    /\ MaxEdits \in Nat /\ MaxFlushes \in Nat /\ MaxPushes \in Nat
    /\ Deleted # None /\ \A c \in Contents : c # Deleted /\ c # None

VARIABLES
    heads,     \* GitHub: per branch, its newest commit, or None
    commits,   \* GitHub: commits so far
    overlay,   \* this.overlay: per path, a content, Deleted, or None
    cache,     \* this.blobContentCache
    dirs,      \* this.virtualDirs
    tree,      \* this.tree
    load,      \* this.loadingTree, and what became of it
    snap,      \* the tree it is bringing
    ops,       \* per waiting file operation, where it is
    flush,     \* per flush call, where it is
    edits, flushes, pushes,
    wrote,     \* history: per file, what the session last did to it
    saved,     \* history: per file, what the last flush that reached GitHub did to it
    raced,     \* history: files edited while a flush that includes them ran
    cut        \* history: files an append cut short

remoteVars == <<heads, commits, pushes>>
editVars   == <<overlay, wrote, raced>>
viewVars   == <<cache, dirs>>
treeVars   == <<tree, load, snap>>
vars       == <<remoteVars, editVars, viewVars, treeVars, ops, flush, edits, flushes, saved, cut>>

Commit == [n : Nat, tree : Trees]
Op     == [kind : {"read", "append", "rm", "rename"}, path : Paths, dest : Paths, chunk : Chunks,
           phase : {"waiting", "have", "blob"}, tree : {None} \cup Trees]
Flush  == [phase : {"base", "check", "create", "target", "build", "pushed"}, branch : Branches,
           batch : [Paths -> {Deleted, None} \cup Contents], from : {None} \cup Commit]

ASSUME NoneAssumption == None \notin Commit

TypeOK ==
    /\ heads \in [Branches -> {None} \cup Commit]
    /\ commits \in Nat
    /\ overlay \in [Paths -> {Deleted, None} \cup Contents]
    /\ cache \in [Files -> {None} \cup Contents]
    /\ dirs \subseteq Dirs
    /\ tree \in {None} \cup Trees
    /\ load \in {"none", "asked", "read", "done", "failed"}
    /\ snap \in {None} \cup Trees
    /\ ops \in [Ops -> {None} \cup Op]
    /\ flush \in [Flushes -> {None} \cup Flush]
    /\ edits \in 0 .. MaxEdits
    /\ flushes \in 0 .. MaxFlushes
    /\ pushes \in 0 .. MaxPushes
    /\ wrote \in [Files -> {Deleted, None} \cup Contents]
    /\ saved \in [Files -> {Deleted, None} \cup Contents]
    /\ raced \subseteq Files
    /\ cut \subseteq Files

Init ==
    /\ \E t \in [Files -> {None} \cup {{k} : k \in Chunks}] :
         /\ \A f \in Files \cap Reserved : t[f] = None
         /\ heads = [b \in Branches |-> IF b = Base THEN [n |-> 1, tree |-> t] ELSE None]
    /\ commits = 1
    /\ overlay = [p \in Paths |-> None]
    /\ cache = [f \in Files |-> None]
    /\ dirs = {}
    /\ tree = None
    /\ load = "none"
    /\ snap = None
    /\ ops = [o \in Ops |-> None]
    /\ flush = [u \in Flushes |-> None]
    /\ edits = 0
    /\ flushes = 0
    /\ pushes = 0
    /\ wrote = [f \in Files |-> None]
    /\ saved = [f \in Files |-> None]
    /\ raced = {}
    /\ cut = {}

-----------------------------------------------------------------------------
(* The session's view.                                                     *)

isDeleted(p) == overlay[p] = Deleted
Under(d)     == {f \in Files : DirOf[f] = d}

(* t.has(p): git lists a directory when there is a file in it.             *)
Has(t, p) == IF p \in Files THEN t[p] # None ELSE \E f \in Under(p) : t[f] # None

dirExists(p, t) ==
    /\ p \in Dirs
    /\ \/ p \in dirs /\ ~ isDeleted(p)
       \/ Has(t, p) /\ ~ isDeleted(p)
       \/ \E f \in Under(p) : (overlay[f] # None \/ t[f] # None) /\ ~ isDeleted(f)

exists(p, t) ==
    IF overlay[p] # None THEN ~ isDeleted(p) ELSE Has(t, p) \/ dirExists(p, t)

(* stat(p) answers rather than throws.                                     *)
statAnswers(p, t) ==
    \/ overlay[p] \notin {None, Deleted}
    \/ dirExists(p, t)
    \/ p \in Files /\ Has(t, p) /\ ~ isDeleted(p)

(* this.overlay.set for every path of e.                                   *)
Edit(e) ==
    /\ overlay' = [p \in Paths |-> IF p \in DOMAIN e THEN e[p] ELSE overlay[p]]
    /\ wrote' = [f \in Files |-> IF f \in DOMAIN e THEN e[f] ELSE wrote[f]]
    /\ raced' = (raced \ DOMAIN e)
          \cup {f \in Files \cap DOMAIN e : \E u \in Flushes : flush[u] # None /\ flush[u].batch[f] # None}

rootIsAParent(f) == {DirOf[f]}

parentDirs(f) == {DirOf[f]} \ {None}

(* writeFile                                                               *)
writeFile(f, c) ==
    /\ Edit([p \in {f} |-> c])
    /\ cache' = [cache EXCEPT ![f] = None]
    /\ dirs' = dirs \cup parentDirs(f)

-----------------------------------------------------------------------------
(* The snapshot.                                                           *)

(* ensureTree: ask for the tree unless it is there or was asked for.       *)
AskTree == load' = IF tree = None /\ load = "none" THEN "asked" ELSE load

(* The operation waits while the tree is on its way; otherwise it goes on  *)
(* with this.tree, null included.                                          *)
Arrival == IF tree = None /\ load \in {"none", "asked", "read"} THEN "waiting" ELSE "have"

(* The branch's head has been read.                                        *)
ReadRef ==
    /\ load = "asked"
    /\ load' = "read"
    /\ snap' = heads[Base].tree
    /\ UNCHANGED <<remoteVars, editVars, viewVars, tree, ops, flush, edits, flushes, saved, cut>>

WakeWith(t) ==
    ops' = [o \in Ops |-> IF ops[o] # None /\ ops[o].phase = "waiting"
                            THEN [ops[o] EXCEPT !.phase = "have", !.tree = t]
                            ELSE ops[o]]

TreeArrives ==
    /\ load = "read"
    /\ load' = "done"
    /\ tree' = snap
    /\ snap' = None
    /\ WakeWith(snap)
    /\ UNCHANGED <<remoteVars, editVars, viewVars, flush, edits, flushes, saved, cut>>

(* GitHub refuses.  The rejected promise stays in loadingTree.             *)
LoadFails ==
    /\ load \in {"asked", "read"}
    /\ load' = "failed"
    /\ snap' = None
    /\ WakeWith(None)
    /\ UNCHANGED <<remoteVars, editVars, viewVars, tree, flush, edits, flushes, saved, cut>>

-----------------------------------------------------------------------------
(* File operations.                                                        *)

(* What readFile finds without a tree; None when it has to ask for one.    *)
AtHand(f) == IF overlay[f] # None THEN overlay[f] ELSE cache[f]

Start(o, kind, p, d, k) ==
    /\ ops[o] = None
    /\ ops' = [ops EXCEPT ![o] = [kind |-> kind, path |-> p, dest |-> d, chunk |-> k,
                                  phase |-> Arrival, tree |-> tree]]
    /\ AskTree
    /\ UNCHANGED <<remoteVars, editVars, viewVars, tree, snap, flush, flushes, saved, cut>>

NewEdit == edits < MaxEdits /\ edits' = edits + 1

Write(f, k) ==
    /\ NewEdit
    /\ writeFile(f, {k})
    /\ UNCHANGED <<remoteVars, treeVars, ops, flush, flushes, saved, cut>>

Mkdir(d) ==
    /\ NewEdit
    /\ d \notin dirs
    /\ dirs' = dirs \cup {d}
    /\ UNCHANGED <<remoteVars, editVars, cache, treeVars, ops, flush, flushes, saved, cut>>

(* appendFile, when the content is at hand or known to be deleted.         *)
AppendAtHand(f, k) ==
    /\ NewEdit
    /\ AtHand(f) # None
    /\ writeFile(f, IF AtHand(f) = Deleted THEN {k} ELSE AtHand(f) \cup {k})
    /\ UNCHANGED <<remoteVars, treeVars, ops, flush, flushes, saved, cut>>

(* readFile and appendFile of what is not at hand; rm and rename, which    *)
(* begin with the tree in any case.                                        *)
StartOp(o) ==
    /\ NewEdit
    /\ \E k \in Chunks :
         \/ \E f \in Files : AtHand(f) = None /\ (Start(o, "read", f, f, k) \/ Start(o, "append", f, f, k))
         \/ \E p \in Paths : Start(o, "rm", p, p, k)
         \/ \E f, g \in Files : Start(o, "rename", f, g, k)

At(o, phase) == ops[o] # None /\ ops[o].phase = phase

(* The operation goes on with a tree.                                      *)
HasTree(o) == At(o, "have") /\ ops[o].tree # None

Finish(o) == ops' = [ops EXCEPT ![o] = None]

(* There is no tree to look at: the operation throws.  appendFile catches  *)
(* that as well.                                                           *)
NoTree(o) ==
    /\ At(o, "have") /\ ops[o].tree = None
    /\ Finish(o)
    /\ IF ops[o].kind = "append"
          THEN LET f == ops[o].path IN
                 /\ writeFile(f, {ops[o].chunk})
                 /\ cut' = IF AtHand(f) = None /\ heads[Base].tree[f] # None THEN cut \cup {f} ELSE cut
          ELSE UNCHANGED <<editVars, viewVars, cut>>
    /\ UNCHANGED <<remoteVars, treeVars, flush, edits, flushes, saved>>

(* rm: with recursive, a directory has every path that the snapshot or the *)
(* overlay knows under it marked; a file is marked and leaves the cache.   *)
(* A directory without recursive, or what does not exist, is left alone.   *)
Rm(o) ==
    /\ HasTree(o) /\ ops[o].kind = "rm"
    /\ Finish(o)
    /\ LET p == ops[o].path
           t == ops[o].tree
       IN  \/ /\ dirExists(p, t)
              /\ Edit([q \in {q \in {p} \cup Under(p) : Has(t, q) \/ overlay[q] # None} |-> Deleted])
              /\ dirs' = dirs \ {p}
              /\ UNCHANGED cache
           \/ /\ ~ dirExists(p, t) /\ exists(p, t)
              /\ Edit([q \in {p} |-> Deleted])
              /\ cache' = [f \in Files |-> IF f = p THEN None ELSE cache[f]]
              /\ UNCHANGED dirs
           \/ (dirExists(p, t) \/ ~ exists(p, t)) /\ UNCHANGED <<editVars, viewVars>>
    /\ UNCHANGED <<remoteVars, treeVars, flush, edits, flushes, saved, cut>>

(* The end of readFile, appendFile and rename, with the content c that was *)
(* read, or Deleted for ENOENT.                                            *)
Deliver(o, c) ==
    LET f == ops[o].path
        g == ops[o].dest
    IN  CASE ops[o].kind = "append" ->
               writeFile(f, IF c = Deleted THEN {ops[o].chunk} ELSE c \cup {ops[o].chunk})
          [] ops[o].kind = "rename" /\ c # Deleted ->
               /\ Edit([p \in {f, g} |-> IF p = f THEN Deleted ELSE c])
               /\ cache' = [cache EXCEPT ![f] = None, ![g] = None]
               /\ dirs' = dirs \cup parentDirs(g)
          [] OTHER -> UNCHANGED <<editVars, viewVars>>

(* readFile goes on: rename looks at the overlay and the cache now, the    *)
(* other two did before; then the entry is looked up and its blob fetched. *)
LookUp(o) ==
    /\ HasTree(o) /\ ops[o].kind # "rm"
    /\ LET f == ops[o].path
           here == IF ops[o].kind = "rename" THEN AtHand(f) ELSE None
       IN  \/ here # None /\ Finish(o) /\ Deliver(o, here)
           \/ here = None /\ ops[o].tree[f] = None /\ Finish(o) /\ Deliver(o, Deleted)
           \/ /\ here = None /\ ops[o].tree[f] # None
              /\ ops' = [ops EXCEPT ![o].phase = "blob"]
              /\ UNCHANGED <<editVars, viewVars>>
    /\ UNCHANGED <<remoteVars, treeVars, flush, edits, flushes, saved, cut>>

(* The blob has arrived: it is cached, and the operation ends.             *)
BlobArrives(o) ==
    /\ At(o, "blob")
    /\ Finish(o)
    /\ LET f == ops[o].path
           c == ops[o].tree[f]
       IN  IF ops[o].kind = "read"
             THEN cache' = [cache EXCEPT ![f] = c] /\ UNCHANGED <<editVars, dirs>>
             ELSE Deliver(o, c)
    /\ UNCHANGED <<remoteVars, treeVars, flush, edits, flushes, saved, cut>>

(* GitHub refuses the blob: readFile and rename throw, appendFile writes.  *)
BlobFails(o) ==
    /\ At(o, "blob")
    /\ Finish(o)
    /\ IF ops[o].kind = "append"
          THEN /\ writeFile(ops[o].path, {ops[o].chunk})
               /\ cut' = cut \cup {ops[o].path}
          ELSE UNCHANGED <<editVars, viewVars, cut>>
    /\ UNCHANGED <<remoteVars, treeVars, flush, edits, flushes, saved>>

-----------------------------------------------------------------------------
(* flush                                                                   *)

committableAll == overlay

(* The pending changes, without the reserved path.                         *)
committable == [p \in Paths |-> IF p \in Reserved THEN None ELSE overlay[p]]

FlushAt(u, phase) == flush[u] # None /\ flush[u].phase = phase

localVars == <<editVars, viewVars, treeVars, ops, edits, cut>>

BeginFlush(u) ==
    /\ flush[u] = None
    /\ flushes < MaxFlushes
    /\ \E p \in Paths : committable[p] # None
    /\ flushes' = flushes + 1
    /\ \E b \in Branches :
         flush' = [flush EXCEPT ![u] = [phase |-> "base", branch |-> b, batch |-> committable, from |-> None]]
    /\ UNCHANGED <<remoteVars, localVars, saved>>

(* The head of the provider's branch has been read.                        *)
ReadBase(u) ==
    /\ FlushAt(u, "base")
    /\ flush' = [flush EXCEPT ![u].phase = IF flush[u].branch = Base THEN "build" ELSE "check",
                              ![u].from = heads[Base]]
    /\ UNCHANGED <<remoteVars, localVars, flushes, saved>>

(* Does the feature branch exist?  An error counts as no.                  *)
CheckBranch(u) ==
    /\ FlushAt(u, "check")
    /\ \/ heads[flush[u].branch] # None /\ flush' = [flush EXCEPT ![u].phase = "target"]
       \/ flush' = [flush EXCEPT ![u].phase = "create"]
    /\ UNCHANGED <<remoteVars, localVars, flushes, saved>>

CreateBranch(u) ==
    /\ FlushAt(u, "create")
    /\ heads[flush[u].branch] = None
    /\ heads' = [heads EXCEPT ![flush[u].branch] = flush[u].from]
    /\ flush' = [flush EXCEPT ![u].phase = "target"]
    /\ UNCHANGED <<commits, pushes, localVars, flushes, saved>>

(* The head of the feature branch has been read.                           *)
ReadTarget(u) ==
    /\ FlushAt(u, "target")
    /\ flush' = [flush EXCEPT ![u].phase = "build", ![u].from = heads[flush[u].branch]]
    /\ UNCHANGED <<remoteVars, localVars, flushes, saved>>

(* createBlob, createTree and createCommit on top of tree t.               *)
NewTree(t, batch) ==
    [f \in Files |->
        IF batch[f] = Deleted THEN None
        ELSE IF batch[f] # None THEN batch[f]
        ELSE IF DirOf[f] # None /\ batch[DirOf[f]] = Deleted THEN None
        ELSE t[f]]

Push(u) ==
    LET b == flush[u].branch IN
    /\ commits' = commits + 1
    /\ heads' = [heads EXCEPT ![b] = [n |-> commits + 1, tree |-> NewTree(flush[u].from.tree, flush[u].batch)]]
    /\ saved' = [f \in Files |-> IF flush[u].batch[f] # None THEN flush[u].batch[f] ELSE saved[f]]
    /\ flush' = [flush EXCEPT ![u].phase = "pushed"]

forcedUpdate(u) ==
    /\ FlushAt(u, "build")
    /\ Push(u)
    /\ UNCHANGED <<pushes, localVars, flushes>>

(* updateRef without force: GitHub takes the commit only if the branch is  *)
(* still where its parent is.                                              *)
UpdateRef(u) ==
    /\ FlushAt(u, "build")
    /\ heads[flush[u].branch] = flush[u].from
    /\ Push(u)
    /\ UNCHANGED <<pushes, localVars, flushes>>

(* GitHub's answer: the batch's paths leave the overlay, the snapshot goes.*)
Acknowledge(u) ==
    /\ FlushAt(u, "pushed")
    /\ overlay' = [p \in Paths |-> IF flush[u].batch[p] # None THEN None ELSE overlay[p]]
    /\ tree' = None
    /\ flush' = [flush EXCEPT ![u] = None]
    /\ UNCHANGED <<remoteVars, wrote, raced, viewVars, load, snap, ops, edits, flushes, saved, cut>>

clearOnFailure(u) ==
    /\ flush[u] # None
    /\ overlay' = [p \in Paths |-> IF flush[u].batch[p] # None THEN None ELSE overlay[p]]
    /\ flush' = [flush EXCEPT ![u] = None]
    /\ UNCHANGED <<remoteVars, wrote, raced, viewVars, treeVars, ops, edits, flushes, saved, cut>>

(* Any request is refused, or its answer is lost: flush throws, and the    *)
(* edits stay.                                                             *)
FailFlush(u) ==
    /\ flush[u] # None
    /\ flush' = [flush EXCEPT ![u] = None]
    /\ UNCHANGED <<remoteVars, localVars, flushes, saved>>

(* Somebody else pushes to a branch.                                       *)
ExternalPush ==
    /\ pushes < MaxPushes
    /\ pushes' = pushes + 1
    /\ commits' = commits + 1
    /\ \E b \in Branches, f \in Files, c \in {None} \cup {{k} : k \in Chunks} :
         /\ heads[b] # None
         /\ heads[b].tree[f] # c
         /\ heads' = [heads EXCEPT ![b] = [n |-> commits + 1, tree |-> [heads[b].tree EXCEPT ![f] = c]]]
    /\ UNCHANGED <<localVars, flush, flushes, saved>>

FileSteps ==
    \/ \E f \in Files, k \in Chunks : Write(f, k) \/ AppendAtHand(f, k)
    \/ \E d \in Dirs : Mkdir(d)
    \/ \E o \in Ops :
         \/ StartOp(o)
         \/ NoTree(o) \/ Rm(o) \/ LookUp(o) \/ BlobArrives(o) \/ BlobFails(o)

FlushSteps ==
    \E u \in Flushes :
         \/ BeginFlush(u)
         \/ ReadBase(u) \/ CheckBranch(u) \/ CreateBranch(u) \/ ReadTarget(u)
         \/ UpdateRef(u) \/ Acknowledge(u) \/ FailFlush(u)

Next == FileSteps \/ FlushSteps \/ ReadRef \/ TreeArrives \/ LoadFails \/ ExternalPush

Spec == Init /\ [][Next]_vars
-----------------------------------------------------------------------------
(* Properties.                                                             *)

(* What the session last did to a file is still in the overlay, or reached *)
(* GitHub in a flush, however flushes and file tools interleave and        *)
(* whichever requests fail or answers are lost.  The one exception is an   *)
(* edit of a path while a flush that includes it is running.               *)
EditsKeptUnlessRaced ==
    \A f \in Files :
        wrote[f] # None => wrote[f] = overlay[f] \/ wrote[f] = saved[f] \/ f \in raced

(* A flush takes nothing from a branch that others pushed to meanwhile:    *)
(* outside the batch, the branch keeps what it has at that very moment     *)
(* (updateRef without force).                                              *)
PushesSurvive ==
    [][\A u \in Flushes :
         FlushAt(u, "build") /\ FlushAt(u, "pushed")'
           => LET b == flush[u].branch IN
              heads[b] # None /\ heads'[b].tree = NewTree(heads[b].tree, flush[u].batch)]_vars

(* "runtime internals never end up committed to the target repo"           *)
(* (session-manager.ts): whatever is written, renamed or flushed, a flush  *)
(* leaves the reserved files of its branch as they are.                    *)
ReservedStaysHome ==
    [][\A u \in Flushes, f \in Files \cap Reserved :
         LET b == flush[u].branch IN
         FlushAt(u, "build") /\ FlushAt(u, "pushed")' /\ heads[b] # None
           => heads'[b].tree[f] = heads[b].tree[f]]_vars

(* "force a fresh snapshot on next read" (flush): whoever asks for the     *)
(* tree when it has been loaded gets one.                                  *)
LoadedTreeIsThere == load = "done" => tree # None

(* "File doesn't exist yet" (appendFile): an append that starts from       *)
(* nothing has no file to append to.                                       *)
AppendKeepsTheFile == cut = {}

-----------------------------------------------------------------------------
(* What the repository also says, and what TLC refutes at once when one   *)
(* of these takes the place of the property a small configuration checks.  *)

(* "overlaid with this session's uncommitted edits so read-after-write is  *)
(* consistent": an edit is never lost between the overlay and GitHub.      *)
EditsKept ==
    \A f \in Files : wrote[f] # None => wrote[f] = overlay[f] \/ wrote[f] = saved[f]

(* The same sentence, for the cache: a content that readFile serves from   *)
(* the cache is not one the session has overwritten or deleted.            *)
CacheIsCurrent ==
    \A f \in Files :
        overlay[f] = None /\ cache[f] # None /\ wrote[f] # None => cache[f] = wrote[f]

(* The same sentence, for the two ways of asking about a path: exists and  *)
(* stat agree.                                                             *)
ExistsAgreesWithStat ==
    tree # None => \A p \in Paths : exists(p, tree) <=> statAnswers(p, tree)
=============================================================================
