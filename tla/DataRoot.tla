-------------------------------- MODULE DataRoot --------------------------------
(***************************************************************************)
(* The data root: the lock its writers share (atlas/data_lock.py), the       *)
(* registry (registry.py), projections (projection.py) and personal          *)
(* snapshots (local_markdown.py, personal_directory_import.py) they write    *)
(* file by file, and the backup and the restored copy that are made of it    *)
(* (data_protection.py).                                                      *)
(*                                                                           *)
(* A file is replaced by a rename, so a write is one step; a section under   *)
(* the lock is a sequence of them, and may fail or die between any two.      *)
(* Contents are versions and a digest is the content it is taken of.  One    *)
(* project is registered and all its sources are enabled.                    *)
(***************************************************************************)
EXTENDS Naturals, Sequences, FiniteSets

CONSTANTS
    Writers,     \* processes that work on the data root
    Canonical,   \* sources on GitHub
    Personal,    \* sources imported from a Markdown directory
    Contents,    \* versions of a source
    Dests,       \* where backups and restored copies go
    Absent,
    MaxDeaths,   \* bound: processes that die or fail within a section or a copy
    MaxTasks     \* bound: operations begun

ASSUME RootAssumption ==
    /\ Absent \notin Contents \union Writers
    /\ "failed" \notin Contents
    /\ Canonical \cap Personal = {}

Sources == Canonical \union Personal

\* The directories that the path of the data root may lead to.
Directories == {1, 2}

VARIABLES
    tree,       \* per directory: what it holds
    rootPath,   \* the directory at the path of the data root
    lockedBy,   \* per directory: who holds the lock file in it
    task,       \* per process: the operation in progress
    copies,     \* per destination: backup or restored copy, published or partial
    harmed,     \* per directory: a section failed or died in it (history)
    deaths,
    begun

rootVars == <<tree, rootPath, lockedBy, task, copies, harmed, deaths, begun>>

Free == [is |-> "free"]

-----------------------------------------------------------------------------
(* What a directory holds.                                                   *)

NoIndex == [s \in Sources |-> Absent]

Empty ==
    [registry |-> {},                            \* registered sources
     snapshots |-> [s \in Personal |-> Absent],
     documents |-> [s \in Sources |-> Absent],   \* projected documents
     index |-> NoIndex,                          \* projections.json: digests, or "failed"
     indexed |-> FALSE,                          \* projections.json is there
     marker |-> FALSE]                           \* a .tmp of a process that is gone

\* Whether _collect_snapshot accepts it: nothing half written, and each document that
\* projections.json names is there with the digest it names.
Readable(t) ==
    /\ ~t.marker
    /\ t.indexed \/ \A s \in Sources : t.documents[s] = Absent
    /\ \A s \in Sources : t.index[s] \in {Absent, "failed", t.documents[s]}

-----------------------------------------------------------------------------
(* Sections under the lock.                                                  *)

Write(file, src, value) == [file |-> file, src |-> src, value |-> value]

\* sync_one after the fetch: the document, then projections.json; when the fetch
\* failed the digest that is there is kept.
Projecting(t, s, v) ==
    IF v # "failed"
    THEN <<Write("document", s, v), Write("index", s, v)>>
    ELSE <<Write("index", s, IF t.index[s] = Absent THEN "failed" ELSE t.index[s])>>

\* Variant: a source is registered before its snapshot is published.
Importing_RegistersFirst(t, s, v) ==
    IF s \notin t.registry
    THEN <<Write("registry", s, v), Write("snapshot", s, v),
           Write("document", s, v), Write("index", s, v)>>
    ELSE IF t.snapshots[s] = v THEN Projecting(t, s, v)
    ELSE <<Write("snapshot", s, v), Write("document", s, v), Write("index", s, v)>>

\* A file of the directory is new, unchanged or updated; in each case it is projected.
Importing(t, s, v) ==
    IF s \notin t.registry
    THEN <<Write("snapshot", s, v), Write("registry", s, v),
           Write("document", s, v), Write("index", s, v)>>
    ELSE IF t.snapshots[s] = v THEN Projecting(t, s, v)
    ELSE <<Write("snapshot", s, v), Write("document", s, v), Write("index", s, v)>>

\* The writes of a section, from what it reads once it holds the lock.
Writes(t, job) ==
    CASE job.kind = "register" ->
            IF job.src \in t.registry THEN <<>> ELSE <<Write("registry", job.src, Absent)>>
      [] job.kind = "sync" -> Projecting(t, job.src, job.value)
      [] job.kind = "import" ->
            IF job.src \in t.registry THEN <<>>
            ELSE <<Write("snapshot", job.src, job.value), Write("registry", job.src, job.value)>>
      [] job.kind = "directory" -> Importing(t, job.src, job.value)
      [] job.kind = "clear" ->
            <<Write("documents", Sources, Absent), Write("clear", Sources, Absent)>>

Written(t, w) ==
    CASE w.file = "registry" -> [t EXCEPT !.registry = @ \union {w.src}]
      [] w.file = "snapshot" -> [t EXCEPT !.snapshots[w.src] = w.value]
      [] w.file = "document" -> [t EXCEPT !.documents[w.src] = w.value]
      [] w.file = "index" -> [t EXCEPT !.index[w.src] = w.value, !.indexed = TRUE]
      [] w.file = "documents" ->
            [t EXCEPT !.documents = [s \in Sources |-> IF s \in w.src THEN Absent ELSE @[s]]]
      [] w.file = "clear" -> [t EXCEPT !.index = NoIndex, !.indexed = TRUE]

\* What a write that does not complete leaves: nothing, a marker, or some of the
\* documents of the project removed.
Torn(t, w) ==
    IF w.file = "documents"
    THEN {Written(t, [w EXCEPT !.src = gone]) : gone \in SUBSET Sources}
    ELSE {t, [t EXCEPT !.marker = TRUE]}

\* A failing registration takes the new snapshot with it.
CleanedUp(t, w, job) ==
    IF w.file = "registry" /\ job.kind \in {"import", "directory"}
    THEN [t EXCEPT !.snapshots[w.src] = Absent] ELSE t

-----------------------------------------------------------------------------
Takes(p, what) == task' = [task EXCEPT ![p] = what]

Begins(p, job, after) ==
    /\ task[p] = Free /\ begun < MaxTasks
    /\ begun' = begun + 1
    /\ Takes(p, [is |-> "ready", job |-> job, after |-> after])
    /\ UNCHANGED <<tree, rootPath, lockedBy, copies, harmed, deaths>>

\* A registered source is fetched without the lock: from GitHub, where it changes and
\* where the fetch may fail, or from its snapshot.
SyncSource(p) ==
    \E s \in tree[rootPath].registry :
    \E v \in IF s \in Canonical THEN Contents \union {"failed"}
             ELSE {tree[rootPath].snapshots[s]} :
        Begins(p, [kind |-> "sync", src |-> s, value |-> IF v = Absent THEN "failed" ELSE v],
               Absent)

\* register_project_github_markdown syncs what it fetched before it registered the
\* source; add_source registers one and no more.
Register(p) ==
    \E s \in Canonical, v \in Contents \union {Absent} :
        Begins(p, [kind |-> "register", src |-> s],
               IF v = Absent THEN Absent ELSE [kind |-> "sync", src |-> s, value |-> v])

\* One file of the import root, or those of a directory.
Import(p) ==
    \E kind \in {"import", "directory"}, s \in Personal, v \in Contents :
        Begins(p, [kind |-> kind, src |-> s, value |-> v], Absent)

\* clear_project, the first half of a rebuild.
Clear(p) == Begins(p, [kind |-> "clear"], Absent)

\* The directory at the path is opened, and with it the lock file in it.
OpenRoot(p) ==
    /\ task[p].is = "ready"
    /\ Takes(p, [is |-> "waiting", job |-> task[p].job, after |-> task[p].after,
                 dir |-> rootPath])
    /\ UNCHANGED <<tree, rootPath, lockedBy, copies, harmed, deaths, begun>>

\* Variant: the lock is that of the directory that was opened.
SameRoot_Opened(dir) == TRUE

\* The path may lead to another directory by the time the lock is there.
SameRoot(dir) == dir = rootPath

Enter(p) ==
    /\ task[p].is = "waiting" /\ task[p].job.kind # "backup"
    /\ lockedBy[task[p].dir] = Absent
    /\ IF SameRoot(task[p].dir)
       THEN /\ lockedBy' = [lockedBy EXCEPT ![task[p].dir] = p]
            /\ Takes(p, [is |-> "inside", job |-> task[p].job, after |-> task[p].after,
                         dir |-> task[p].dir, todo |-> Writes(tree[rootPath], task[p].job)])
       ELSE Takes(p, Free) /\ UNCHANGED lockedBy
    /\ UNCHANGED <<tree, rootPath, copies, harmed, deaths, begun>>

\* Files are written by their path.
WriteFile(p) ==
    /\ task[p].is = "inside" /\ task[p].todo # <<>>
    /\ tree' = [tree EXCEPT ![rootPath] = Written(@, Head(task[p].todo))]
    /\ Takes(p, [task[p] EXCEPT !.todo = Tail(@)])
    /\ UNCHANGED <<rootPath, lockedBy, copies, harmed, deaths, begun>>

Released(p) == lockedBy' = [lockedBy EXCEPT ![task[p].dir] = Absent]

Leave(p) ==
    /\ task[p].is = "inside" /\ task[p].todo = <<>>
    /\ Released(p)
    /\ Takes(p, IF task[p].after = Absent THEN Free
                ELSE [is |-> "ready", job |-> task[p].after, after |-> Absent])
    /\ UNCHANGED <<tree, rootPath, copies, harmed, deaths, begun>>

Trouble == deaths < MaxDeaths /\ deaths' = deaths + 1

\* A write raises, or the process dies; either way the lock is free again.
BreakOff(p) ==
    /\ task[p].is = "inside" /\ task[p].todo # <<>>
    /\ Trouble
    /\ \E t \in Torn(tree[rootPath], Head(task[p].todo)) :
       \E u \in {t, CleanedUp(t, Head(task[p].todo), task[p].job)} :
          tree' = [tree EXCEPT ![rootPath] = u]
    /\ harmed' = [harmed EXCEPT ![rootPath] = TRUE]
    /\ Released(p)
    /\ Takes(p, Free)
    /\ UNCHANGED <<rootPath, copies, begun>>

-----------------------------------------------------------------------------
(* Backup and restore.                                                       *)

Nothing == [is |-> "nothing"]
Half == [is |-> "half"]
Damaged == [is |-> "damaged"]
Whole(t) == [is |-> "whole", tree |-> t]

Vacant == [target |-> Nothing, partial |-> Nothing, from |-> "root"]

Backup(p, d) ==
    /\ copies[d] = Vacant
    /\ Begins(p, [kind |-> "backup", dest |-> d], Absent)

Copying(t, d, from) == [is |-> "copying", what |-> t, dest |-> d, from |-> from]

\* Everything is read under the lock; what is refused is refused as a whole.
Collect(p) ==
    /\ task[p].is = "waiting" /\ task[p].job.kind = "backup"
    /\ lockedBy[task[p].dir] = Absent
    /\ Takes(p, IF SameRoot(task[p].dir) /\ Readable(tree[rootPath])
                THEN Copying(tree[rootPath], task[p].job.dest, "root") ELSE Free)
    /\ UNCHANGED <<tree, rootPath, lockedBy, copies, harmed, deaths, begun>>

\* A published backup is checked against its manifest before it is restored elsewhere.
RestoreTest(p, b, d) ==
    /\ task[p] = Free /\ begun < MaxTasks
    /\ copies[b].target.is = "whole"
    /\ copies[d] = Vacant
    /\ begun' = begun + 1
    /\ Takes(p, Copying(copies[b].target.tree, d, "backup"))
    /\ UNCHANGED <<tree, rootPath, lockedBy, copies, harmed, deaths>>

\* The partial directory is made exclusively, and filled.
MakeCopy(p) ==
    LET d == task[p].dest IN
    /\ task[p].is = "copying"
    /\ IF copies[d].partial = Nothing
       THEN /\ copies' = [copies EXCEPT ![d].partial = Half]
            /\ Takes(p, [task[p] EXCEPT !.is = "filling"])
       ELSE Takes(p, Free) /\ UNCHANGED copies
    /\ UNCHANGED <<tree, rootPath, lockedBy, harmed, deaths, begun>>
FillCopy(p) ==
    /\ task[p].is = "filling"
    /\ copies' = [copies EXCEPT ![task[p].dest].partial = Whole(task[p].what)]
    /\ Takes(p, [task[p] EXCEPT !.is = "publishing"])
    /\ UNCHANGED <<tree, rootPath, lockedBy, harmed, deaths, begun>>

\* The rename fails on a destination that somebody else published meanwhile, and then
\* leaves the partial directory.
PublishCopy(p) ==
    LET d == task[p].dest IN
    /\ task[p].is = "publishing"
    /\ copies' = IF copies[d].target = Nothing
                 THEN [copies EXCEPT ![d] = [target |-> copies[d].partial,
                                             partial |-> Nothing, from |-> task[p].from]]
                 ELSE copies
    /\ Takes(p, Free)
    /\ UNCHANGED <<tree, rootPath, lockedBy, harmed, deaths, begun>>

\* A failure removes the partial directory, a death leaves it.
AbandonCopy(p) ==
    /\ task[p].is \in {"filling", "publishing"}
    /\ Trouble
    /\ copies' \in {copies, [copies EXCEPT ![task[p].dest].partial = Nothing]}
    /\ Takes(p, Free)
    /\ UNCHANGED <<tree, rootPath, lockedBy, harmed, begun>>

\* A backup that lies about loses or changes a file.
Damage(d) ==
    /\ copies[d].target.is = "whole" /\ copies[d].from = "root"
    /\ Trouble
    /\ copies' = [copies EXCEPT ![d].target = Damaged]
    /\ UNCHANGED <<tree, rootPath, lockedBy, task, harmed, begun>>

\* The operator puts a restored copy at the path while no section is open; others may
\* have opened the directory that was there.
Replace(d) ==
    /\ rootPath = 1 /\ lockedBy[1] = Absent
    /\ copies[d].target.is = "whole" /\ copies[d].from = "backup"
    /\ rootPath' = 2
    /\ tree' = [tree EXCEPT ![2] = copies[d].target.tree]
    /\ UNCHANGED <<lockedBy, task, copies, harmed, deaths, begun>>

-----------------------------------------------------------------------------
RootInit ==
    /\ tree = [dir \in Directories |-> Empty]
    /\ rootPath = 1
    /\ lockedBy = [dir \in Directories |-> Absent]
    /\ task = [p \in Writers |-> Free]
    /\ copies = [d \in Dests |-> Vacant]
    /\ harmed = [dir \in Directories |-> FALSE]
    /\ deaths = 0
    /\ begun = 0

RootNext ==
    \/ \E p \in Writers :
         \/ SyncSource(p) \/ Register(p) \/ Import(p) \/ Clear(p)
         \/ OpenRoot(p) \/ Enter(p) \/ WriteFile(p) \/ Leave(p) \/ BreakOff(p)
         \/ Collect(p) \/ MakeCopy(p) \/ FillCopy(p) \/ PublishCopy(p) \/ AbandonCopy(p)
         \/ \E d \in Dests : Backup(p, d) \/ \E b \in Dests : RestoreTest(p, b, d)
    \/ \E d \in Dests : Damage(d) \/ Replace(d)

RootSpec == RootInit /\ [][RootNext]_rootVars

-----------------------------------------------------------------------------
(* Properties.                                                               *)

\* A published backup and a restored copy are whole, whatever failed or died between two
\* writes: nothing is half written, projections.json and the documents it names agree,
\* and each personal source that is registered, which nothing can rebuild, has its
\* snapshot.  A damaged backup is never restored.
CopiesAreWhole ==
    \A d \in Dests :
        LET c == copies[d] IN
        /\ c.target # Half
        /\ c.from = "backup" => c.target # Damaged
        /\ c.target.is = "whole" =>
              /\ Readable(c.target.tree)
              /\ \A s \in Personal \cap c.target.tree.registry :
                    c.target.tree.snapshots[s] # Absent

\* A data root is in a state that can be backed up whenever nobody is writing, unless a
\* write failed or a writer died in it, also after another directory took its place.
QuietRootIsReadable ==
    lockedBy[rootPath] = Absent /\ ~harmed[rootPath] => Readable(tree[rootPath])

\* What can be backed up, and what was backed up, is whole.
RootIsWhole == CopiesAreWhole /\ QuietRootIsReadable
=================================================================================
