--------------------------- MODULE GitHubFsProofs ---------------------------
(***************************************************************************)
(* What GitHubFs promises for any number of files, directories, branches,  *)
(* waiting operations, flushes, edits and foreign pushes.                  *)
(***************************************************************************)
EXTENDS GitHubFs, TLAPS

Batches == [Paths -> {Deleted, None} \cup Contents]

(* Only rm works on directories; an operation that waits for a blob found  *)
(* its entry in a tree.                                                    *)
OpsOK ==
    \A o \in Ops : ops[o] # None =>
        /\ ops[o].kind # "rm" => ops[o].path \in Files /\ ops[o].dest \in Files
        /\ ops[o].phase = "blob" =>
              ops[o].kind # "rm" /\ ops[o].tree # None /\ ops[o].tree[ops[o].path] # None

(* A flush holds the commit it builds on, the branch it pushes to exists,  *)
(* and nothing reserved is in its batch.                                   *)
FlushOK ==
    /\ heads[Base] # None
    /\ \A u \in Flushes : flush[u] # None =>
         /\ flush[u].phase # "base" => flush[u].from # None
         /\ flush[u].phase \in {"target", "build", "pushed"} => heads[flush[u].branch] # None
         /\ \A p \in Reserved : flush[u].batch[p] = None

(* The overlay has what was written last; so has the batch of every flush  *)
(* under way, unless the file was edited since it began, and so has GitHub *)
(* once it has taken the batch.                                            *)
OverlayOK == \A f \in Files : overlay[f] # None => wrote[f] = overlay[f]
BatchOK ==
    \A f \in Files \ raced : \A u \in Flushes :
        flush[u] # None /\ flush[u].batch[f] # None =>
            /\ wrote[f] = flush[u].batch[f]
            /\ flush[u].phase = "pushed" => saved[f] = wrote[f]
Kept == OverlayOK /\ BatchOK /\ EditsKeptUnlessRaced

(* The inductive invariant.                                                *)
IInv == TypeOK /\ OpsOK /\ FlushOK /\ Kept

-----------------------------------------------------------------------------
LEMMA InitOK == Init => IInv
<1> SUFFICES ASSUME Init PROVE IInv
  OBVIOUS
<1>1. PICK t \in [Files -> {None} \cup {{k} : k \in Chunks}] :
         heads = [b \in Branches |-> IF b = Base THEN [n |-> 1, tree |-> t] ELSE None]
  BY DEF Init
<1>2. t \in Trees
  BY <1>1 DEF Trees, Contents
<1>3. heads \in [Branches -> {None} \cup Commit] /\ heads[Base] = [n |-> 1, tree |-> t]
  BY <1>1, <1>2, FsAssumption DEF Commit
<1>4. heads[Base] # None
  BY <1>2, <1>3, NoneAssumption DEF Commit
<1>5. TypeOK
  BY <1>3, FsAssumption DEF Init, TypeOK
<1>6. OpsOK /\ FlushOK
  BY <1>4 DEF Init, OpsOK, FlushOK
<1>7. Kept
  BY DEF Init, Kept, OverlayOK, BatchOK, EditsKeptUnlessRaced, Paths
<1> QED
  BY <1>5, <1>6, <1>7 DEF IInv

-----------------------------------------------------------------------------
(* The file tools.  An edit is a set of paths, each written or deleted.    *)
Edits(S) == [S -> {Deleted} \cup Contents]
EditsOrNot ==
    \/ \E S \in SUBSET Paths : \E e \in Edits(S) : Edit(e)
    \/ UNCHANGED editVars

LEMMA EditTypes ==
    ASSUME TypeOK, EditsOrNot
    PROVE  /\ overlay' \in Batches
           /\ wrote' \in [Files -> {Deleted, None} \cup Contents]
           /\ raced' \subseteq Files
<1>1. CASE UNCHANGED editVars
  BY <1>1 DEF TypeOK, editVars, Batches
<1>2. ASSUME NEW S \in SUBSET Paths, NEW e \in Edits(S), Edit(e)
      PROVE  /\ overlay' \in Batches
             /\ wrote' \in [Files -> {Deleted, None} \cup Contents]
             /\ raced' \subseteq Files
  <2>1. DOMAIN e = S /\ \A p \in S : e[p] \in {Deleted} \cup Contents
    BY DEF Edits
  <2> QED
    BY <1>2, <2>1 DEF TypeOK, Edit, Batches, Paths
<1> QED
  BY <1>1, <1>2 DEF EditsOrNot

(* Whatever is edited is in the overlay, or was edited under a flush.      *)
LEMMA EditKeeps ==
    ASSUME IInv, EditsOrNot, UNCHANGED <<flush, saved>>
    PROVE  Kept'
<1>1. CASE UNCHANGED editVars
  BY <1>1 DEF IInv, Kept, OverlayOK, BatchOK, EditsKeptUnlessRaced, editVars
<1>2. ASSUME NEW S \in SUBSET Paths, NEW e \in Edits(S), Edit(e) PROVE Kept'
  <2>1. DOMAIN e = S /\ \A p \in S : e[p] # None
    BY FsAssumption DEF Edits
  <2>2. \A f \in Files : IF f \in S THEN overlay'[f] = e[f] /\ wrote'[f] = e[f]
                                    ELSE overlay'[f] = overlay[f] /\ wrote'[f] = wrote[f]
    BY <1>2, <2>1 DEF Edit, Paths
  <2>3. \A f \in Files \cap S : f \notin raced' => \A u \in Flushes : flush[u] = None \/ flush[u].batch[f] = None
    BY <1>2, <2>1 DEF Edit
  <2>4. \A f \in Files \ S : f \in raced' <=> f \in raced
    BY <1>2, <2>1 DEF Edit
  <2>5. OverlayOK'
    BY <2>2 DEF IInv, Kept, OverlayOK
  <2>6. BatchOK'
    BY <2>2, <2>3, <2>4 DEF IInv, Kept, BatchOK
  <2>7. EditsKeptUnlessRaced'
    BY <2>2, <2>4 DEF IInv, Kept, EditsKeptUnlessRaced
  <2> QED
    BY <2>5, <2>6, <2>7 DEF Kept
<1> QED
  BY <1>1, <1>2 DEF EditsOrNot

(* What a step of the file tools leaves of the rest.                       *)
ViewStep ==
    /\ EditsOrNot
    /\ cache' \in [Files -> {None} \cup Contents]
    /\ dirs' \subseteq Dirs
FileStep ==
    /\ ViewStep
    /\ ops' \in [Ops -> {None} \cup Op]
    /\ OpsOK'
    /\ load' \in {"none", "asked", "read", "done", "failed"}
    /\ edits' \in 0 .. MaxEdits
    /\ cut' \subseteq Files
    /\ UNCHANGED <<remoteVars, tree, snap, flush, flushes, saved>>

LEMMA FileStepKeeps == ASSUME IInv, FileStep PROVE IInv'
<1>1. TypeOK'
  BY EditTypes DEF IInv, FileStep, ViewStep, TypeOK, remoteVars, Batches
<1>2. Kept'
  BY EditKeeps DEF FileStep, ViewStep
<1>3. FlushOK'
  BY DEF IInv, FileStep, ViewStep, FlushOK, remoteVars
<1> QED
  BY <1>1, <1>2, <1>3 DEF IInv, FileStep, ViewStep

LEMMA WriteFile ==
    ASSUME TypeOK, NEW f \in Files, NEW c \in Contents, writeFile(f, c)
    PROVE  ViewStep
<1>1. [p \in {f} |-> c] \in Edits({f}) /\ {f} \in SUBSET Paths
  BY DEF Edits, Paths
<1>2. EditsOrNot
  BY <1>1 DEF writeFile, EditsOrNot
<1>3. parentDirs(f) \subseteq Dirs
  BY FsAssumption DEF parentDirs
<1> QED
  BY <1>2, <1>3 DEF TypeOK, writeFile, ViewStep

(* An operation ends, or none changes.                                     *)
LEMMA Finished ==
    ASSUME TypeOK, OpsOK, NEW o \in Ops, Finish(o) \/ UNCHANGED ops
    PROVE  ops' \in [Ops -> {None} \cup Op] /\ OpsOK'
<1>1. ops' \in [Ops -> {None} \cup Op] /\ \A q \in Ops : ops'[q] \in {None, ops[q]}
  BY DEF TypeOK, Finish
<1> QED
  BY <1>1 DEF OpsOK

LEMMA DeliverOK ==
    ASSUME TypeOK, NEW o \in Ops, ops[o] # None, ops[o].kind # "rm",
           ops[o].path \in Files, ops[o].dest \in Files,
           NEW c \in {Deleted} \cup Contents, Deliver(o, c)
    PROVE  ViewStep
<1> DEFINE f == ops[o].path
           g == ops[o].dest
<1>1. CASE ops[o].kind = "append"
  <2>1. ops[o].chunk \in Chunks
    BY DEF TypeOK, Op
  <2>2. (IF c = Deleted THEN {ops[o].chunk} ELSE c \cup {ops[o].chunk}) \in Contents
    BY <2>1 DEF Contents
  <2>3. writeFile(f, IF c = Deleted THEN {ops[o].chunk} ELSE c \cup {ops[o].chunk})
    BY <1>1 DEF Deliver
  <2> QED
    BY <2>2, <2>3, WriteFile
<1>2. CASE ops[o].kind = "rename" /\ c # Deleted
  <2>1. [p \in {f, g} |-> IF p = f THEN Deleted ELSE c] \in Edits({f, g}) /\ {f, g} \in SUBSET Paths
    BY DEF Edits, Paths
  <2>2. Edit([p \in {f, g} |-> IF p = f THEN Deleted ELSE c])
        /\ cache' = [cache EXCEPT ![f] = None, ![g] = None] /\ dirs' = dirs \cup parentDirs(g)
    BY <1>2 DEF Deliver
  <2>3. parentDirs(g) \subseteq Dirs
    BY FsAssumption DEF parentDirs
  <2>4. EditsOrNot
    BY <2>1, <2>2 DEF EditsOrNot
  <2> QED
    BY <2>2, <2>3, <2>4 DEF TypeOK, ViewStep
<1>3. CASE ops[o].kind # "append" /\ ~ (ops[o].kind = "rename" /\ c # Deleted)
  <2>1. UNCHANGED <<editVars, viewVars>>
    BY <1>3 DEF Deliver
  <2> QED
    BY <2>1 DEF TypeOK, EditsOrNot, viewVars, ViewStep
<1> QED
  BY <1>1, <1>2, <1>3

(* A new operation, and a batch of paths a recursive rm marks.             *)
LEMMA StartKeeps ==
    ASSUME IInv, NEW o \in Ops, StartOp(o)
    PROVE  FileStep
<1>1. PICK k \in Chunks, p \in Paths, d \in Paths, kind \in {"read", "append", "rm", "rename"} :
         Start(o, kind, p, d, k) /\ (kind # "rm" => p \in Files /\ d \in Files)
  BY DEF StartOp, Paths
<1>2. [kind |-> kind, path |-> p, dest |-> d, chunk |-> k, phase |-> Arrival, tree |-> tree] \in Op
  BY <1>1 DEF IInv, TypeOK, Op, Arrival
<1>3. ops' \in [Ops -> {None} \cup Op] /\ ops'[o].kind = kind /\ ops'[o].phase # "blob"
      /\ ops'[o].path = p /\ ops'[o].dest = d /\ \A q \in Ops \ {o} : ops'[q] = ops[q]
  BY <1>1, <1>2 DEF IInv, TypeOK, Start, Arrival
<1>4. OpsOK'
  BY <1>1, <1>3 DEF IInv, OpsOK
<1>5. EditsOrNot /\ cache' = cache /\ dirs' = dirs /\ cut' = cut
      /\ UNCHANGED <<remoteVars, tree, snap, flush, flushes, saved>>
  BY <1>1 DEF Start, EditsOrNot, viewVars
<1>6. load' \in {"none", "asked", "read", "done", "failed"}
  BY <1>1 DEF Start, AskTree, IInv, TypeOK
<1>7. edits' \in 0 .. MaxEdits
  BY FsAssumption DEF StartOp, NewEdit, IInv, TypeOK
<1> QED
  BY <1>3, <1>4, <1>5, <1>6, <1>7 DEF FileStep, ViewStep, IInv, TypeOK

LEMMA NoTreeKeeps ==
    ASSUME IInv, NEW o \in Ops, NoTree(o)
    PROVE  FileStep
<1> DEFINE f == ops[o].path
<1>1. ops[o] # None /\ Finish(o) /\ UNCHANGED <<remoteVars, treeVars, flush, edits, flushes, saved>>
  BY DEF NoTree, At
<1>2. ops' \in [Ops -> {None} \cup Op] /\ OpsOK'
  BY <1>1, Finished DEF IInv
<1>3. CASE ops[o].kind = "append"
  <2>1. f \in Files /\ {ops[o].chunk} \in Contents
    BY <1>1, <1>3 DEF IInv, TypeOK, OpsOK, Op, Contents
  <2>2. writeFile(f, {ops[o].chunk}) /\ cut' \in {cut \cup {f}, cut}
    BY <1>3 DEF NoTree
  <2>3. cut' \subseteq Files
    BY <2>1, <2>2 DEF IInv, TypeOK
  <2> QED
    BY <1>1, <1>2, <2>1, <2>2, <2>3, WriteFile DEF FileStep, ViewStep, IInv, TypeOK, treeVars
<1>4. CASE ops[o].kind # "append"
  BY <1>1, <1>2, <1>4 DEF NoTree, FileStep, ViewStep, EditsOrNot, viewVars, treeVars, IInv, TypeOK
<1> QED
  BY <1>3, <1>4

LEMMA RmKeeps ==
    ASSUME IInv, NEW o \in Ops, Rm(o)
    PROVE  FileStep
<1> DEFINE p == ops[o].path
           S == {q \in {p} \cup Under(p) : Has(ops[o].tree, q) \/ overlay[q] # None}
<1>1. ops[o] # None /\ Finish(o) /\ UNCHANGED <<remoteVars, treeVars, flush, edits, flushes, saved, cut>>
  BY DEF Rm, HasTree, At
<1>2. ops' \in [Ops -> {None} \cup Op] /\ OpsOK'
  BY <1>1, Finished DEF IInv
<1>3. p \in Paths /\ S \in SUBSET Paths /\ {p} \in SUBSET Paths
  BY <1>1 DEF IInv, TypeOK, Op, Under, Paths
<1>4. [q \in S |-> Deleted] \in Edits(S) /\ [q \in {p} |-> Deleted] \in Edits({p})
  BY DEF Edits
<1>5. /\ Edit([q \in S |-> Deleted]) \/ Edit([q \in {p} |-> Deleted]) \/ UNCHANGED editVars
      /\ cache' \in {cache, [f \in Files |-> IF f = p THEN None ELSE cache[f]]}
      /\ dirs' \in {dirs, dirs \ {p}}
  BY DEF Rm, viewVars
<1>6. EditsOrNot
  BY <1>3, <1>4, <1>5 DEF EditsOrNot
<1>7. cache' \in [Files -> {None} \cup Contents] /\ dirs' \subseteq Dirs
  BY <1>5 DEF IInv, TypeOK
<1> QED
  BY <1>1, <1>2, <1>6, <1>7 DEF FileStep, ViewStep, IInv, TypeOK, treeVars

LEMMA LookUpKeeps ==
    ASSUME IInv, NEW o \in Ops, LookUp(o)
    PROVE  FileStep
<1> DEFINE f == ops[o].path
           here == IF ops[o].kind = "rename" THEN AtHand(f) ELSE None
<1>1. /\ ops[o] # None /\ ops[o].tree # None /\ ops[o].kind # "rm"
      /\ UNCHANGED <<remoteVars, treeVars, flush, edits, flushes, saved, cut>>
  BY DEF LookUp, HasTree, At
<1>2. ops[o] \in Op /\ f \in Files /\ ops[o].dest \in Files
  BY <1>1 DEF IInv, TypeOK, OpsOK
<1>3. here = None \/ here \in {Deleted} \cup Contents
  BY <1>2 DEF AtHand, IInv, TypeOK, Paths
<1>4. ASSUME NEW c \in {Deleted} \cup Contents, Finish(o), Deliver(o, c) PROVE FileStep
  BY <1>1, <1>2, <1>4, Finished, DeliverOK DEF FileStep, ViewStep, IInv, TypeOK, treeVars
<1>5. ASSUME ops' = [ops EXCEPT ![o].phase = "blob"], ops[o].tree[f] # None, UNCHANGED <<editVars, viewVars>>
      PROVE  FileStep
  <2>1. ops'[o] = [ops[o] EXCEPT !.phase = "blob"] /\ \A q \in Ops \ {o} : ops'[q] = ops[q]
    BY <1>5 DEF IInv, TypeOK
  <2>2. /\ ops'[o] \in Op /\ ops'[o].tree = ops[o].tree /\ ops'[o].kind = ops[o].kind
        /\ ops'[o].path = f /\ ops'[o].dest = ops[o].dest
    BY <1>2, <2>1 DEF Op
  <2>3. ops' \in [Ops -> {None} \cup Op]
    BY <1>5, <2>1, <2>2 DEF IInv, TypeOK
  <2>4. OpsOK'
    BY <1>1, <1>2, <1>5, <2>1, <2>2 DEF IInv, OpsOK
  <2> QED
    BY <1>1, <1>5, <2>3, <2>4 DEF FileStep, ViewStep, EditsOrNot, viewVars, treeVars, IInv, TypeOK
<1> QED
  BY <1>3, <1>4, <1>5 DEF LookUp

LEMMA BlobKeeps ==
    ASSUME IInv, NEW o \in Ops, BlobArrives(o) \/ BlobFails(o)
    PROVE  FileStep
<1> DEFINE f == ops[o].path
<1>1. /\ ops[o] # None /\ ops[o].phase = "blob" /\ Finish(o)
      /\ UNCHANGED <<remoteVars, treeVars, flush, edits, flushes, saved>>
  BY DEF BlobArrives, BlobFails, At
<1>2. ops[o] \in Op /\ f \in Files /\ ops[o].dest \in Files /\ ops[o].kind # "rm" /\ {ops[o].chunk} \in Contents
  BY <1>1 DEF IInv, TypeOK, OpsOK, Op, Contents
<1>3. ops[o].tree[f] \in Contents
  BY <1>1, <1>2 DEF IInv, OpsOK, Op, Trees
<1>4. ops' \in [Ops -> {None} \cup Op] /\ OpsOK'
  BY <1>1, Finished DEF IInv
<1>5. ViewStep /\ cut' \subseteq Files
  <2>1. CASE BlobArrives(o) /\ ops[o].kind = "read"
    BY <1>3, <2>1 DEF BlobArrives, ViewStep, EditsOrNot, IInv, TypeOK
  <2>2. CASE BlobArrives(o) /\ ops[o].kind # "read"
    <3>1. Deliver(o, ops[o].tree[f]) /\ cut' = cut
      BY <2>2 DEF BlobArrives
    <3> QED
      BY <1>1, <1>2, <1>3, <3>1, DeliverOK DEF IInv, TypeOK
  <2>3. CASE BlobFails(o) /\ ops[o].kind = "append"
    <3>1. writeFile(f, {ops[o].chunk}) /\ cut' = cut \cup {f}
      BY <2>3 DEF BlobFails
    <3> QED
      BY <1>2, <3>1, WriteFile DEF IInv, TypeOK
  <2>4. CASE BlobFails(o) /\ ops[o].kind # "append"
    BY <2>4 DEF BlobFails, ViewStep, EditsOrNot, viewVars, IInv, TypeOK
  <2> QED
    BY <2>1, <2>2, <2>3, <2>4
<1> QED
  BY <1>1, <1>4, <1>5 DEF FileStep, ViewStep, IInv, TypeOK, treeVars

(* writeFile, appendFile of what is at hand, and mkdir need no tree.       *)
LEMMA AtOnceKeeps ==
    ASSUME IInv,
           \/ \E f \in Files, k \in Chunks : Write(f, k) \/ AppendAtHand(f, k)
           \/ \E d \in Dirs : Mkdir(d)
    PROVE  FileStep
<1>1. UNCHANGED <<remoteVars, treeVars, ops, flush, flushes, saved, cut>> /\ NewEdit
  BY DEF Write, AppendAtHand, Mkdir
<1>2. ViewStep
  <2>1. ASSUME NEW f \in Files, NEW k \in Chunks, Write(f, k) PROVE ViewStep
    <3>1. {k} \in Contents
      BY DEF Contents
    <3> QED
      BY <2>1, <3>1, WriteFile DEF Write, IInv, ViewStep
  <2>2. ASSUME NEW f \in Files, NEW k \in Chunks, AppendAtHand(f, k) PROVE ViewStep
    <3>1. (IF AtHand(f) = Deleted THEN {k} ELSE AtHand(f) \cup {k}) \in Contents
      BY <2>2 DEF AppendAtHand, AtHand, Contents, Paths, IInv, TypeOK
    <3> QED
      BY <2>2, <3>1, WriteFile DEF AppendAtHand, IInv
  <2>3. ASSUME NEW d \in Dirs, Mkdir(d) PROVE ViewStep
    BY <2>3 DEF Mkdir, ViewStep, EditsOrNot, IInv, TypeOK
  <2> QED
    BY <2>1, <2>2, <2>3
<1>3. edits' \in 0 .. MaxEdits
  BY <1>1, FsAssumption DEF NewEdit, IInv, TypeOK
<1>4. OpsOK'
  BY <1>1 DEF OpsOK, IInv
<1> QED
  BY <1>1, <1>2, <1>3, <1>4 DEF FileStep, ViewStep, IInv, TypeOK, treeVars

LEMMA FileToolsKeep == IInv /\ FileSteps => FileStep
  BY AtOnceKeeps, StartKeeps, NoTreeKeeps, RmKeeps, LookUpKeeps, BlobKeeps DEF FileSteps

-----------------------------------------------------------------------------
(* The snapshot, and other people.                                         *)
LEMMA WakeKeeps ==
    ASSUME TypeOK, OpsOK, NEW t \in {None} \cup Trees, WakeWith(t)
    PROVE  ops' \in [Ops -> {None} \cup Op] /\ OpsOK'
<1>1. \A o \in Ops : ops'[o] = IF ops[o] # None /\ ops[o].phase = "waiting"
                                 THEN [ops[o] EXCEPT !.phase = "have", !.tree = t] ELSE ops[o]
  BY DEF WakeWith
<1>2. ASSUME NEW o \in Ops, ops[o] # None, ops[o].phase = "waiting"
      PROVE  /\ ops'[o] \in Op /\ ops'[o].phase = "have" /\ ops'[o].kind = ops[o].kind
             /\ ops'[o].path = ops[o].path /\ ops'[o].dest = ops[o].dest
  BY <1>1, <1>2 DEF TypeOK, Op
<1>3. ops' \in [Ops -> {None} \cup Op]
  BY <1>1, <1>2 DEF TypeOK, WakeWith
<1>4. OpsOK'
  BY <1>1, <1>2 DEF OpsOK
<1> QED
  BY <1>3, <1>4

(* A step that touches neither the overlay, nor a flush, nor GitHub.       *)
LEMMA ElsewhereKeeps ==
    ASSUME IInv, UNCHANGED <<remoteVars, editVars, viewVars, flush, edits, flushes, saved, cut>>,
           ops' \in [Ops -> {None} \cup Op], OpsOK',
           tree' \in {None} \cup Trees, snap' \in {None} \cup Trees,
           load' \in {"none", "asked", "read", "done", "failed"}
    PROVE  IInv'
<1>1. TypeOK'
  BY DEF IInv, TypeOK, remoteVars, editVars, viewVars
<1>2. FlushOK'
  BY DEF IInv, FlushOK, remoteVars
<1>3. Kept'
  BY DEF IInv, Kept, OverlayOK, BatchOK, EditsKeptUnlessRaced, editVars
<1> QED
  BY <1>1, <1>2, <1>3 DEF IInv

LEMMA SnapshotKeeps ==
    ASSUME IInv, ReadRef \/ TreeArrives \/ LoadFails
    PROVE  IInv'
<1>1. CASE ReadRef
  <2>1. heads[Base].tree \in Trees
    BY FsAssumption DEF IInv, TypeOK, FlushOK, Commit
  <2>2. OpsOK'
    BY <1>1 DEF ReadRef, IInv, OpsOK
  <2> QED
    BY <1>1, <2>1, <2>2, ElsewhereKeeps DEF ReadRef, IInv, TypeOK
<1>2. CASE TreeArrives
  <2>1. snap \in {None} \cup Trees
    BY DEF IInv, TypeOK
  <2>2. ops' \in [Ops -> {None} \cup Op] /\ OpsOK'
    BY <1>2, <2>1, WakeKeeps DEF TreeArrives, IInv
  <2> QED
    BY <1>2, <2>1, <2>2, ElsewhereKeeps DEF TreeArrives
<1>3. CASE LoadFails
  <2>1. ops' \in [Ops -> {None} \cup Op] /\ OpsOK'
    BY <1>3, WakeKeeps DEF LoadFails, IInv
  <2>2. tree' \in {None} \cup Trees
    BY <1>3 DEF LoadFails, IInv, TypeOK
  <2> QED
    BY <1>3, <2>1, <2>2, ElsewhereKeeps DEF LoadFails
<1> QED
  BY <1>1, <1>2, <1>3

LEMMA PushByOthersKeeps ==
    ASSUME IInv, ExternalPush
    PROVE  IInv'
<1>1. PICK b \in Branches, f \in Files, c \in {None} \cup {{k} : k \in Chunks} :
         heads[b] # None /\ heads' = [heads EXCEPT ![b] = [n |-> commits + 1, tree |-> [heads[b].tree EXCEPT ![f] = c]]]
  BY DEF ExternalPush
<1>2. [heads[b].tree EXCEPT ![f] = c] \in Trees
  BY <1>1 DEF IInv, TypeOK, Commit, Trees, Contents
<1>3. [n |-> commits + 1, tree |-> [heads[b].tree EXCEPT ![f] = c]] \in Commit
  BY <1>2 DEF IInv, TypeOK, Commit
<1>4. heads' \in [Branches -> {None} \cup Commit] /\ \A a \in Branches : heads[a] # None => heads'[a] # None
  BY <1>1, <1>3, NoneAssumption DEF IInv, TypeOK
<1>5. TypeOK'
  BY <1>4, FsAssumption DEF ExternalPush, IInv, TypeOK, localVars, editVars, viewVars, treeVars
<1>6. OpsOK' /\ Kept'
  BY DEF ExternalPush, IInv, OpsOK, Kept, OverlayOK, BatchOK, EditsKeptUnlessRaced, localVars, editVars
<1>7. FlushOK'
  BY <1>4, FsAssumption DEF ExternalPush, IInv, TypeOK, FlushOK, Flush
<1> QED
  BY <1>5, <1>6, <1>7 DEF IInv

-----------------------------------------------------------------------------
(* flush, up to the push: one call changes, and perhaps a branch appears.  *)
Progress(u, new) ==
    /\ flush' = [flush EXCEPT ![u] = new]
    /\ \A b \in Branches : heads[b] # None => heads'[b] # None
    /\ heads' \in [Branches -> {None} \cup Commit]
    /\ UNCHANGED <<commits, pushes, localVars, saved>>

LEMMA ProgressKeeps ==
    ASSUME IInv, NEW u \in Flushes, NEW new \in Flush, Progress(u, new), flushes' \in 0 .. MaxFlushes,
           new.phase \notin {"base", "pushed"} => new.from # None,
           new.phase \in {"target", "build"} => heads'[new.branch] # None,
           new.phase # "pushed",
           IF flush[u] = None THEN new.batch = committable ELSE new.batch = flush[u].batch
    PROVE  IInv'
<1>1. flush' \in [Flushes -> {None} \cup Flush] /\ flush'[u] = new /\ \A v \in Flushes \ {u} : flush'[v] = flush[v]
  BY DEF IInv, TypeOK, Progress
<1>2. TypeOK'
  BY <1>1 DEF IInv, TypeOK, Progress, localVars, editVars, viewVars, treeVars
<1>3. OpsOK'
  BY DEF IInv, OpsOK, Progress, localVars
<1>4. \A p \in Reserved : new.batch[p] = None
  BY FsAssumption DEF IInv, FlushOK, committable
<1>5. FlushOK'
  BY <1>1, <1>4, FsAssumption DEF IInv, TypeOK, FlushOK, Flush, Progress
<1>6. \A f \in Files \ raced : new.batch[f] # None => wrote[f] = new.batch[f]
  <2>1. CASE flush[u] = None
    BY <2>1 DEF committable, Paths, IInv, Kept, OverlayOK
  <2>2. CASE flush[u] # None
    BY <2>2 DEF IInv, Kept, BatchOK
  <2> QED
    BY <2>1, <2>2
<1>7. Kept'
  <2>1. UNCHANGED <<overlay, wrote, raced, saved>>
    BY DEF Progress, localVars, editVars
  <2>2. BatchOK'
    BY <1>1, <1>6, <2>1 DEF IInv, Kept, BatchOK
  <2> QED
    BY <2>1, <2>2 DEF IInv, Kept, OverlayOK, EditsKeptUnlessRaced
<1> QED
  BY <1>2, <1>3, <1>5, <1>7 DEF IInv

LEMMA BeginFlushKeeps ==
    ASSUME IInv, NEW u \in Flushes, BeginFlush(u)
    PROVE  IInv'
<1>1. PICK b \in Branches : flush' = [flush EXCEPT ![u] = [phase |-> "base", branch |-> b, batch |-> committable, from |-> None]]
  BY DEF BeginFlush
<1> DEFINE new == [phase |-> "base", branch |-> b, batch |-> committable, from |-> None]
<1>2. new \in Flush
  BY DEF Flush, committable, IInv, TypeOK
<1>3. flushes' \in 0 .. MaxFlushes
  BY FsAssumption DEF BeginFlush, IInv, TypeOK
<1>4. Progress(u, new)
  BY <1>1 DEF BeginFlush, Progress, remoteVars, IInv, TypeOK
<1> HIDE DEF new
<1>5. new.phase = "base" /\ new.batch = committable /\ flush[u] = None
  BY DEF new, BeginFlush
<1> QED
  BY <1>2, <1>3, <1>4, <1>5, ProgressKeeps

LEMMA TowardsPushKeeps ==
    ASSUME IInv, NEW u \in Flushes, ReadBase(u) \/ CheckBranch(u) \/ CreateBranch(u) \/ ReadTarget(u)
    PROVE  IInv'
<1> DEFINE now == flush[u]
<1>1. now # None /\ now \in Flush /\ flushes' \in 0 .. MaxFlushes /\ UNCHANGED <<commits, pushes, localVars, saved>>
  BY DEF ReadBase, CheckBranch, CreateBranch, ReadTarget, FlushAt, remoteVars, IInv, TypeOK
<1>2. heads[Base] # None /\ heads[Base] \in Commit /\ Base \in Branches /\ now.branch \in Branches
  BY <1>1, FsAssumption DEF IInv, TypeOK, FlushOK, Flush
<1>3. CASE ReadBase(u)
  <2> DEFINE new == [now EXCEPT !.phase = IF now.branch = Base THEN "build" ELSE "check", !.from = heads[Base]]
  <2>1. new \in Flush /\ new.batch = now.batch /\ new.branch = now.branch /\ new.from = heads[Base]
        /\ new.phase = IF now.branch = Base THEN "build" ELSE "check"
    BY <1>1, <1>2 DEF Flush
  <2>2. flush' = [flush EXCEPT ![u] = new]
    BY <1>3 DEF ReadBase
  <2>3. Progress(u, new) /\ heads' = heads
    BY <1>1, <1>3, <2>2 DEF ReadBase, Progress, remoteVars, IInv, TypeOK
  <2> HIDE DEF new
  <2> QED
    BY <1>1, <1>2, <2>1, <2>3, ProgressKeeps
<1>4. CASE CheckBranch(u)
  <2>1. PICK next \in {"target", "create"} :
           flush' = [flush EXCEPT ![u].phase = next] /\ (next = "target" => heads[now.branch] # None)
    BY <1>4 DEF CheckBranch
  <2> DEFINE new == [now EXCEPT !.phase = next]
  <2>2. new \in Flush /\ new.batch = now.batch /\ new.branch = now.branch /\ new.from = now.from /\ new.phase = next
    BY <1>1 DEF Flush
  <2>3. flush' = [flush EXCEPT ![u] = new]
    BY <2>1
  <2>4. Progress(u, new) /\ heads' = heads
    BY <1>1, <1>4, <2>3 DEF CheckBranch, Progress, remoteVars, IInv, TypeOK
  <2>5. now.from # None
    BY <1>1, <1>4 DEF CheckBranch, FlushAt, IInv, FlushOK
  <2> HIDE DEF new
  <2> QED
    BY <1>1, <2>1, <2>2, <2>4, <2>5, ProgressKeeps
<1>5. CASE CreateBranch(u)
  <2> DEFINE new == [now EXCEPT !.phase = "target"]
  <2>1. now.from # None /\ now.from \in Commit
    BY <1>1, <1>5 DEF CreateBranch, FlushAt, IInv, FlushOK, Flush
  <2>2. new \in Flush /\ new.batch = now.batch /\ new.branch = now.branch /\ new.from = now.from /\ new.phase = "target"
    BY <1>1 DEF Flush
  <2>3. flush' = [flush EXCEPT ![u] = new]
    BY <1>5 DEF CreateBranch
  <2>4. heads' = [heads EXCEPT ![now.branch] = now.from]
    BY <1>5 DEF CreateBranch
  <2>5. Progress(u, new) /\ heads'[now.branch] # None
    BY <1>1, <1>2, <2>1, <2>3, <2>4 DEF Progress, IInv, TypeOK
  <2> HIDE DEF new
  <2> QED
    BY <1>1, <2>1, <2>2, <2>5, ProgressKeeps
<1>6. CASE ReadTarget(u)
  <2> DEFINE new == [now EXCEPT !.phase = "build", !.from = heads[now.branch]]
  <2>1. heads[now.branch] # None /\ heads[now.branch] \in Commit
    BY <1>1, <1>2, <1>6 DEF ReadTarget, FlushAt, IInv, TypeOK, FlushOK
  <2>2. new \in Flush /\ new.batch = now.batch /\ new.branch = now.branch /\ new.from = heads[now.branch] /\ new.phase = "build"
    BY <1>1, <2>1 DEF Flush
  <2>3. flush' = [flush EXCEPT ![u] = new]
    BY <1>6 DEF ReadTarget
  <2>4. Progress(u, new) /\ heads' = heads
    BY <1>1, <1>6, <2>3 DEF ReadTarget, Progress, remoteVars, IInv, TypeOK
  <2> HIDE DEF new
  <2> QED
    BY <1>1, <2>1, <2>2, <2>4, ProgressKeeps
<1> QED
  BY <1>3, <1>4, <1>5, <1>6

(* What createTree makes of a tree is a tree, and has the reserved files   *)
(* it had.                                                                 *)
LEMMA NewTreeOK ==
    ASSUME NEW t \in Trees, NEW batch \in Batches
    PROVE  /\ NewTree(t, batch) \in Trees
           /\ (\A p \in Reserved : batch[p] = None) => \A f \in Files \cap Reserved : NewTree(t, batch)[f] = t[f]
<1>1. NewTree(t, batch) \in Trees
  BY DEF NewTree, Trees, Batches, Paths
<1>2. ASSUME \A p \in Reserved : batch[p] = None, NEW f \in Files \cap Reserved
      PROVE  NewTree(t, batch)[f] = t[f]
  <2>1. batch[f] = None /\ batch[f] # Deleted
    BY <1>2, FsAssumption
  <2>2. DirOf[f] = None \/ batch[DirOf[f]] # Deleted
    BY <1>2, FsAssumption
  <2> QED
    BY <2>1, <2>2 DEF NewTree
<1> QED
  BY <1>1, <1>2

(* The commit goes on top of what the branch has at that moment.           *)
LEMMA UpdateRefAdds ==
    ASSUME IInv, NEW u \in Flushes, UpdateRef(u)
    PROVE  LET b == flush[u].branch
               new == [n |-> commits + 1, tree |-> NewTree(heads[b].tree, flush[u].batch)]
           IN  /\ flush[u] \in Flush /\ flush[u].phase = "build"
               /\ b \in Branches /\ heads[b] # None /\ heads[b].tree \in Trees
               /\ new \in Commit /\ heads' = [heads EXCEPT ![b] = new]
               /\ heads'[b].tree = NewTree(heads[b].tree, flush[u].batch)
<1>1. flush[u] \in Flush /\ flush[u].phase = "build" /\ flush[u].branch \in Branches /\ flush[u].batch \in Batches
  BY DEF UpdateRef, FlushAt, IInv, TypeOK, Flush, Batches
<1>2. heads[flush[u].branch] # None /\ heads[flush[u].branch] \in Commit
  BY <1>1 DEF UpdateRef, FlushAt, IInv, TypeOK, FlushOK
<1>3. heads[flush[u].branch].tree \in Trees
  BY <1>2 DEF Commit
<1>4. NewTree(heads[flush[u].branch].tree, flush[u].batch) \in Trees
  BY <1>1, <1>3, NewTreeOK
<1>5. [n |-> commits + 1, tree |-> NewTree(heads[flush[u].branch].tree, flush[u].batch)] \in Commit
  BY <1>4 DEF Commit, IInv, TypeOK
<1> DEFINE new == [n |-> commits + 1, tree |-> NewTree(heads[flush[u].branch].tree, flush[u].batch)]
<1>6. heads' = [heads EXCEPT ![flush[u].branch] = new]
  BY DEF UpdateRef, Push
<1>7. heads'[flush[u].branch] = new
  BY <1>1, <1>6 DEF IInv, TypeOK
<1>8. heads'[flush[u].branch].tree = NewTree(heads[flush[u].branch].tree, flush[u].batch)
  BY <1>7
<1> QED
  BY <1>1, <1>2, <1>3, <1>5, <1>6, <1>8

LEMMA UpdateRefKeeps ==
    ASSUME IInv, NEW u \in Flushes, UpdateRef(u)
    PROVE  IInv'
<1> DEFINE now == flush[u]
           batch == flush[u].batch
<1>1. PICK b \in Branches, new \in Commit :
         b = now.branch /\ now \in Flush /\ now # None /\ now.phase = "build" /\ heads' = [heads EXCEPT ![b] = new]
  BY UpdateRefAdds DEF UpdateRef, FlushAt
<1>2. heads' \in [Branches -> {None} \cup Commit] /\ heads'[b] # None
      /\ \A a \in Branches : heads[a] # None => heads'[a] # None
  BY <1>1, NoneAssumption DEF IInv, TypeOK
<1>3. flush' = [flush EXCEPT ![u].phase = "pushed"]
      /\ saved' = [f \in Files |-> IF batch[f] # None THEN batch[f] ELSE saved[f]]
      /\ commits' = commits + 1 /\ UNCHANGED <<pushes, localVars, flushes>>
  BY DEF UpdateRef, Push
<1>4. flush'[u] = [now EXCEPT !.phase = "pushed"] /\ \A v \in Flushes \ {u} : flush'[v] = flush[v]
  BY <1>3 DEF IInv, TypeOK
<1>5. /\ flush'[u] \in Flush /\ flush'[u].phase = "pushed" /\ flush'[u].batch = batch
      /\ flush'[u].branch = b /\ flush'[u].from = now.from /\ now.from # None
  BY <1>1, <1>4 DEF Flush, IInv, FlushOK
<1>6. TypeOK'
  <2>1. flush' \in [Flushes -> {None} \cup Flush]
    BY <1>3, <1>4, <1>5 DEF IInv, TypeOK
  <2>2. batch \in Batches
    BY <1>1 DEF Flush, Batches
  <2>3. saved' \in [Files -> {Deleted, None} \cup Contents]
    BY <1>3, <2>2 DEF IInv, TypeOK, Batches, Paths
  <2> QED
    BY <1>2, <1>3, <2>1, <2>3 DEF IInv, TypeOK, localVars, editVars, viewVars, treeVars
<1>7. OpsOK'
  BY <1>3 DEF IInv, OpsOK, localVars
<1>8. FlushOK'
  <2>1. \A v \in Flushes \ {u} : flush'[v] # None => flush'[v].branch \in Branches
    BY <1>4 DEF IInv, TypeOK, Flush
  <2>2. heads'[Base] # None
    BY <1>2, FsAssumption DEF IInv, FlushOK
  <2>3. \A p \in Reserved : batch[p] = None
    BY <1>1 DEF IInv, FlushOK
  <2>4. ASSUME NEW v \in Flushes, flush'[v] # None
        PROVE  /\ flush'[v].phase # "base" => flush'[v].from # None
               /\ flush'[v].phase \in {"target", "build", "pushed"} => heads'[flush'[v].branch] # None
               /\ \A p \in Reserved : flush'[v].batch[p] = None
    <3>1. CASE v = u
      BY <1>2, <1>5, <2>3, <3>1
    <3>2. CASE v # u
      <4>1. flush'[v] = flush[v]
        BY <1>4, <3>2
      <4> QED
        BY <1>2, <2>1, <2>4, <3>2, <4>1 DEF IInv, FlushOK
    <3> QED
      BY <3>1, <3>2
  <2> QED
    BY <2>2, <2>4 DEF FlushOK
<1>9. Kept'
  <2>1. UNCHANGED <<overlay, wrote, raced>>
    BY <1>3 DEF localVars, editVars
  <2>2. \A f \in Files : saved'[f] = IF batch[f] # None THEN batch[f] ELSE saved[f]
    BY <1>3
  <2>3. \A f \in Files \ raced : batch[f] # None => wrote[f] = batch[f]
    BY <1>1 DEF IInv, Kept, BatchOK
  <2>4. BatchOK'
    <3> SUFFICES ASSUME NEW f \in Files \ raced', NEW v \in Flushes, flush'[v] # None, flush'[v].batch[f] # None
                 PROVE  /\ wrote'[f] = flush'[v].batch[f]
                        /\ flush'[v].phase = "pushed" => saved'[f] = wrote'[f]
      BY DEF BatchOK
    <3>1. CASE v = u
      BY <1>5, <2>1, <2>2, <2>3, <3>1
    <3>2. CASE v # u
      <4>1. flush'[v] = flush[v]
        BY <1>4, <3>2
      <4>2. wrote[f] = flush[v].batch[f] /\ (flush[v].phase = "pushed" => saved[f] = wrote[f])
        BY <2>1, <4>1 DEF IInv, Kept, BatchOK
      <4> QED
        BY <2>1, <2>2, <2>3, <4>1, <4>2
    <3> QED
      BY <3>1, <3>2
  <2>5. EditsKeptUnlessRaced'
    BY <2>1, <2>2, <2>3 DEF IInv, Kept, EditsKeptUnlessRaced
  <2>6. OverlayOK'
    BY <2>1 DEF IInv, Kept, OverlayOK
  <2> QED
    BY <2>4, <2>5, <2>6 DEF Kept
<1> QED
  BY <1>6, <1>7, <1>8, <1>9 DEF IInv

(* The end of a flush: its paths leave the overlay when GitHub has them.   *)
LEMMA EndOfFlushKeeps ==
    ASSUME IInv, NEW u \in Flushes, Acknowledge(u) \/ FailFlush(u)
    PROVE  IInv'
<1> DEFINE batch == flush[u].batch
<1>1. flush[u] # None /\ flush' = [flush EXCEPT ![u] = None]
      /\ UNCHANGED <<remoteVars, wrote, raced, viewVars, load, snap, ops, edits, flushes, saved, cut>>
  BY DEF Acknowledge, FailFlush, FlushAt, localVars, editVars, treeVars
<1>2. \/ flush[u].phase = "pushed" /\ overlay' = [p \in Paths |-> IF batch[p] # None THEN None ELSE overlay[p]] /\ tree' = None
      \/ overlay' = overlay /\ tree' = tree
  BY DEF Acknowledge, FailFlush, FlushAt, localVars, editVars, treeVars
<1>3. \A v \in Flushes : flush'[v] \in {None, flush[v]}
  BY <1>1 DEF IInv, TypeOK
<1>4. TypeOK'
  BY <1>1, <1>2 DEF IInv, TypeOK, remoteVars, viewVars
<1>5. OpsOK'
  BY <1>1 DEF IInv, OpsOK
<1>6. FlushOK'
  BY <1>1, <1>3 DEF IInv, FlushOK, remoteVars
<1>7. Kept'
  <2>1. UNCHANGED <<wrote, raced, saved>>
    BY <1>1
  <2>2. \A f \in Files : overlay'[f] \in {None, overlay[f]}
    BY <1>2 DEF Paths
  <2>3. ASSUME NEW f \in Files \ raced, wrote[f] # None
        PROVE  wrote[f] = overlay'[f] \/ wrote[f] = saved[f]
    <3>1. CASE overlay'[f] = overlay[f]
      BY <2>3, <3>1 DEF IInv, Kept, EditsKeptUnlessRaced
    <3>2. CASE overlay'[f] # overlay[f]
      <4>1. flush[u].phase = "pushed" /\ batch[f] # None
        BY <1>2, <3>2 DEF Paths
      <4> QED
        BY <1>1, <4>1 DEF IInv, Kept, BatchOK
    <3> QED
      BY <3>1, <3>2
  <2>4. EditsKeptUnlessRaced'
    BY <2>1, <2>3 DEF EditsKeptUnlessRaced
  <2>5. OverlayOK'
    BY <2>1, <2>2 DEF IInv, Kept, OverlayOK
  <2>6. BatchOK'
    BY <1>3, <2>1 DEF IInv, Kept, BatchOK
  <2> QED
    BY <2>4, <2>5, <2>6 DEF Kept
<1> QED
  BY <1>4, <1>5, <1>6, <1>7 DEF IInv

-----------------------------------------------------------------------------
LEMMA NextOK == IInv /\ [Next]_vars => IInv'
<1> SUFFICES ASSUME IInv, [Next]_vars PROVE IInv'
  OBVIOUS
<1>1. CASE FileSteps
  BY <1>1, FileToolsKeep, FileStepKeeps
<1>2. CASE FlushSteps
  BY <1>2, BeginFlushKeeps, TowardsPushKeeps, UpdateRefKeeps, EndOfFlushKeeps DEF FlushSteps
<1>3. CASE ReadRef \/ TreeArrives \/ LoadFails
  BY <1>3, SnapshotKeeps
<1>4. CASE ExternalPush
  BY <1>4, PushByOthersKeeps
<1>5. CASE UNCHANGED vars
  <2>1. UNCHANGED <<remoteVars, editVars, viewVars, flush, edits, flushes, saved, cut, ops, tree, snap, load>>
    BY <1>5 DEF vars, treeVars
  <2>2. OpsOK'
    BY <2>1 DEF IInv, OpsOK
  <2> QED
    BY <2>1, <2>2, ElsewhereKeeps DEF IInv, TypeOK
<1> QED
  BY <1>1, <1>2, <1>3, <1>4, <1>5 DEF Next

LEMMA InvariantHolds == Spec => []IInv
<1>1. Init => IInv
  BY InitOK
<1>2. IInv /\ [Next]_vars => IInv'
  BY NextOK
<1> QED
  BY <1>1, <1>2, PTL DEF Spec

(* Every variable keeps its type: what is read before an await is what is  *)
(* used after it.                                                          *)
THEOREM FilesTypeCorrect == Spec => []TypeOK
<1>1. IInv => TypeOK
  BY DEF IInv
<1> QED
  BY <1>1, InvariantHolds, PTL

(* No edit is lost between the overlay and GitHub, but one of a file that  *)
(* a running flush took with it (flush deletes the path from the overlay   *)
(* whatever it holds by then).                                             *)
THEOREM EditsSurvive == Spec => []EditsKeptUnlessRaced
<1>1. IInv => EditsKeptUnlessRaced
  BY DEF IInv, Kept
<1> QED
  BY <1>1, InvariantHolds, PTL

(* A step that pushes the commit of a flush is its UpdateRef.              *)
LEMMA OnlyUpdateRefPushes ==
    ASSUME IInv, [Next]_vars, NEW u \in Flushes, FlushAt(u, "build"), FlushAt(u, "pushed")'
    PROVE  UpdateRef(u)
<1>1. flush'[u] # flush[u] /\ flush[u] # None /\ flush[u].phase = "build" /\ flush'[u] # None /\ flush'[u].phase = "pushed"
  BY DEF FlushAt
<1>2. flush' # flush
  BY <1>1
<1>3. FlushSteps
  <2>1. FileSteps => UNCHANGED flush
    BY FileToolsKeep DEF FileStep, ViewStep
  <2>2. ReadRef \/ TreeArrives \/ LoadFails \/ ExternalPush \/ UNCHANGED vars => UNCHANGED flush
    BY DEF ReadRef, TreeArrives, LoadFails, ExternalPush, vars
  <2> QED
    BY <1>2, <2>1, <2>2 DEF Next
<1>4. PICK v \in Flushes :
         \/ BeginFlush(v) \/ ReadBase(v) \/ CheckBranch(v) \/ CreateBranch(v) \/ ReadTarget(v)
         \/ UpdateRef(v) \/ Acknowledge(v) \/ FailFlush(v)
  BY <1>3 DEF FlushSteps
<1>5. \A w \in Flushes \ {v} : flush'[w] = flush[w]
  <2>1. flush \in [Flushes -> {None} \cup Flush]
    BY DEF IInv, TypeOK
  <2>2. CASE BeginFlush(v)
    BY <2>1, <2>2 DEF BeginFlush
  <2>3. CASE ReadBase(v) \/ CheckBranch(v) \/ CreateBranch(v) \/ ReadTarget(v)
    BY <2>1, <2>3 DEF ReadBase, CheckBranch, CreateBranch, ReadTarget
  <2>4. CASE UpdateRef(v) \/ Acknowledge(v) \/ FailFlush(v)
    BY <2>1, <2>4 DEF UpdateRef, Push, Acknowledge, FailFlush
  <2> QED
    BY <1>4, <2>2, <2>3, <2>4
<1>6. v = u
  BY <1>1, <1>5
<1>7. ~ (BeginFlush(u) \/ ReadBase(u) \/ CheckBranch(u) \/ CreateBranch(u) \/ ReadTarget(u) \/ Acknowledge(u))
  BY <1>1 DEF BeginFlush, ReadBase, CheckBranch, CreateBranch, ReadTarget, Acknowledge, FlushAt
<1>8. ~ FailFlush(u)
  BY <1>1 DEF FailFlush, IInv, TypeOK
<1> QED
  BY <1>4, <1>6, <1>7, <1>8

(* What others pushed to a branch survives every flush to it: the commit   *)
(* changes its own batch of what the branch has at that moment.            *)
THEOREM FlushesAddToPushes == Spec => PushesSurvive
<1>1. ASSUME IInv, [Next]_vars
      PROVE  [\A u \in Flushes : FlushAt(u, "build") /\ FlushAt(u, "pushed")'
                => LET b == flush[u].branch IN
                   heads[b] # None /\ heads'[b].tree = NewTree(heads[b].tree, flush[u].batch)]_vars
  <2> SUFFICES ASSUME NEW u \in Flushes, FlushAt(u, "build"), FlushAt(u, "pushed")'
               PROVE  LET b == flush[u].branch IN
                      heads[b] # None /\ heads'[b].tree = NewTree(heads[b].tree, flush[u].batch)
    OBVIOUS
  <2>1. UpdateRef(u)
    BY <1>1, OnlyUpdateRefPushes
  <2> QED
    BY <1>1, <2>1, UpdateRefAdds
<1> QED
  BY <1>1, InvariantHolds, PTL DEF Spec, PushesSurvive

(* The runtime's own files stay out of the repository: no flush changes a  *)
(* reserved path of the branch, by a write, a deletion or the deletion of  *)
(* its directory.                                                          *)
THEOREM ReservedFilesStay == Spec => ReservedStaysHome
<1>1. ASSUME IInv, [Next]_vars
      PROVE  [\A u \in Flushes, f \in Files \cap Reserved :
                LET b == flush[u].branch IN
                FlushAt(u, "build") /\ FlushAt(u, "pushed")' /\ heads[b] # None
                  => heads'[b].tree[f] = heads[b].tree[f]]_vars
  <2> SUFFICES ASSUME NEW u \in Flushes, NEW f \in Files \cap Reserved,
                      FlushAt(u, "build"), FlushAt(u, "pushed")'
               PROVE  heads'[flush[u].branch].tree[f] = heads[flush[u].branch].tree[f]
    OBVIOUS
  <2> DEFINE b == flush[u].branch
  <2>1. UpdateRef(u)
    BY <1>1, OnlyUpdateRefPushes
  <2>2. heads'[b].tree = NewTree(heads[b].tree, flush[u].batch) /\ heads[b].tree \in Trees
    BY <1>1, <2>1, UpdateRefAdds
  <2>3. flush[u].batch \in Batches /\ \A p \in Reserved : flush[u].batch[p] = None
    BY <1>1 DEF FlushAt, IInv, TypeOK, FlushOK, Flush, Batches
  <2> QED
    BY <2>2, <2>3, NewTreeOK
<1> QED
  BY <1>1, InvariantHolds, PTL DEF Spec, ReservedStaysHome
=============================================================================
