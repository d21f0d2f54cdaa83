--------------------------- MODULE SourceDiscovery ---------------------------
(***************************************************************************)
(* Which files belong to the target of an entry file: the index of the     *)
(* project's files, the selection among them and the cached answer.        *)
(*                                                                         *)
(* A path is a value; a text is what discovery reads out of a file: its    *)
(* quoted and angle includes (names, in order), whether it defines main,   *)
(* the module it declares and the modules it imports.                      *)
(***************************************************************************)
EXTENDS Integers, Sequences, FiniteSets, SequencesExt

CONSTANTS
    Root,          \* the project's directory
    Directories,   \* Root and the directories below it, in the order of the walk
    Paths,         \* files that may exist, in the order of the walk
    DirOf(_),      \* directory of a file
    NameOf(_),     \* name by which it is included
    StemOf(_),     \* name without extension
    KindOf(_)      \* "header", "source" or "interface"

Absent == [there |-> FALSE]
NoModule == ""
\* A text that could not be read: it is indexed, as if it were empty.
Unread == [there |-> TRUE, quoted |-> <<>>, angle |-> <<>>, main |-> FALSE,
           module |-> NoModule, imports |-> {}]

Exists(disk, p) == p \in DOMAIN disk /\ disk[p].there
TranslationUnits == {p \in ToSet(Paths) : KindOf(p) # "header"}
\* Before another in the walk over the project.
Earlier(p, q) ==
    \E i, j \in DOMAIN Paths : i < j /\ Paths[i] = p /\ Paths[j] = q
-----------------------------------------------------------------------------
(* Requests *)

\* What a discovery was asked: also the identity of its cached answer.
Request(entry, includes, forced, excludedDirs, extras, excluded) ==
    [entry |-> entry, includes |-> includes, forced |-> forced,
     excludedDirs |-> ToSet(excludedDirs), extras |-> ToSet(extras) \ {entry},
     excluded |-> ToSet(excluded)]

SourceCorrection(disk, p) == Exists(disk, p) /\ p \in TranslationUnits

\* The corrections of mqb.json must fit the project, the entry and each other.
RequestValid(disk, r) ==
    /\ SourceCorrection(disk, r.entry)
    /\ r.excludedDirs \subseteq ToSet(Directories) \ {Root}
    /\ \A p \in r.excluded \cup r.extras : SourceCorrection(disk, p)
    /\ DirOf(r.entry) \notin r.excludedDirs
    /\ r.entry \notin r.excluded
    /\ r.extras \cap r.excluded = {}
    /\ \A p \in r.extras : DirOf(p) \notin r.excludedDirs

\* Extra sources are read before the index is made.
ExtrasValid(disk, r) ==
    \A p \in r.extras : KindOf(p) = "source" => ~disk[p].main
-----------------------------------------------------------------------------
(* The index: a walk that snapshots each directory and file before it reads it *)

\* Excluded directories are not entered.
Walk(r) ==
    FlattenSeq([i \in DOMAIN Directories |->
        IF Directories[i] \in r.excludedDirs THEN <<>>
        ELSE <<[dir |-> Directories[i], file |-> FALSE]>>
             \o SelectSeq([j \in DOMAIN Paths |-> [dir |-> DirOf(Paths[j]), file |-> TRUE,
                                                   path |-> Paths[j]]],
                          LAMBDA e : e.dir = Directories[i])])

NewIndex(r) == [left |-> Walk(r), opened |-> FALSE, read |-> <<>>, evidence |-> {},
                stale |-> {}, unsure |-> {}, cacheable |-> TRUE, sealed |-> FALSE,
                whole |-> TRUE]

\* A directory is snapshotted before its entries are listed.
IndexDirectory(idx) ==
    [idx EXCEPT !.left = Tail(@), !.evidence = @ \cup {Head(idx.left).dir}]

\* increment(error_code) fails, which makes the iterator the end: the loop is over before it
\* looks at the error. "whole" is a ghost.
CutWalk(idx) == [idx EXCEPT !.left = <<>>, !.whole = FALSE]

\* A listed file is snapshotted. One that came or went since its directory was may be listed
\* or not: a listed one that is gone is indexed unread.
SnapshotFile(idx, disk) ==
    LET p == Head(idx.left).path
        passed == [idx EXCEPT !.left = Tail(@)]
        lost == [passed EXCEPT !.cacheable = FALSE, !.read = (p :> Unread) @@ @]
        opened == [idx EXCEPT !.opened = TRUE, !.evidence = @ \cup {p}]
    IN  {IF Exists(disk, p) THEN opened ELSE passed}
        \cup (IF p \in idx.unsure THEN {passed, IF Exists(disk, p) THEN opened ELSE lost} ELSE {})

\* read_source_analysis; what cannot be read is a warning and forbids caching.
ReadFile(idx, disk) ==
    LET p == Head(idx.left).path
    IN  [idx EXCEPT !.left = Tail(@), !.opened = FALSE,
                    !.cacheable = @ /\ Exists(disk, p),
                    !.read = (p :> IF Exists(disk, p) THEN disk[p] ELSE Unread) @@ @]

\* seal_snapshots: nothing moved since it was snapshotted.
SealIndex(idx) == [idx EXCEPT !.sealed = TRUE, !.cacheable = @ /\ idx.stale = {}]

\* What a change of p moves: its own time, its directory's when it appears or goes.
Moves(p, before, after) ==
    {p} \cup (IF before.there = after.there THEN {} ELSE {DirOf(p)})
Noticed(x, moved) == [x EXCEPT !.stale = @ \cup (moved \cap x.evidence)]
\* p comes or goes while its directory is walked.
Overtaken(idx, p, moved) ==
    [Noticed(idx, moved) EXCEPT !.unsure = IF DirOf(p) \in moved \cap idx.evidence
                                           THEN @ \cup {p} ELSE @]
-----------------------------------------------------------------------------
(* Selection: select_source_closure. `files` maps each indexed path to its text. *)

FirstIn(files, dirs, name) ==
    LET at(d) == {p \in DOMAIN files : DirOf(p) = d /\ NameOf(p) = name}
        hits == SelectSeq(dirs, LAMBDA d : at(d) # {})
    IN  IF hits = <<>> THEN {} ELSE at(hits[1])

\* The file's own directory first for a quoted name; no hit outside the project.
IncludeTarget(files, r, from, name, quoted) ==
    FirstIn(files, (IF quoted THEN <<DirOf(from)>> ELSE <<>>) \o r.includes, name)

IncludeEdges(files, r) ==
    UNION {UNION {{{p, q} : q \in IncludeTarget(files, r, p, n, TRUE)} : n \in ToSet(files[p].quoted)}
           \cup UNION {{{p, q} : q \in IncludeTarget(files, r, p, n, FALSE)} :
                         n \in ToSet(files[p].angle)} : p \in DOMAIN files}

\* A forced include, <<"name", n>> or <<"path", p>>, counts from the entry only, and is a
\* header of the project.
ForcedHeaders(files, r, forced) ==
    {h \in (IF forced[1] = "path" THEN {forced[2]} \cap DOMAIN files
             ELSE IncludeTarget(files, r, r.entry, forced[2], TRUE)) : KindOf(h) = "header"}
ForcedEdges(files, r) ==
    UNION {{{r.entry, h} : h \in ForcedHeaders(files, r, f)} : f \in ToSet(r.forced)}
ForcedResolved(files, r) == \A f \in ToSet(r.forced) : ForcedHeaders(files, r, f) # {}

\* x.h and x.cpp in one directory belong together.
OwnerEdges(files) ==
    UNION {{{h, s} : s \in {s \in DOMAIN files : /\ KindOf(s) = "source"
                                                 /\ DirOf(h) = DirOf(s) /\ StemOf(h) = StemOf(s)}}
           : h \in {h \in DOMAIN files : KindOf(h) = "header"}}

Units(files) == DOMAIN files \cap TranslationUnits
ImportEdges(files) ==
    UNION {{{p, q} : q \in {q \in Units(files) : /\ KindOf(q) = "interface"
                                                 /\ files[q].module \in files[p].imports \ {NoModule}}}
           : p \in Units(files)}

\* The units of a module hang together at the first of them.
ModuleEdges(files) ==
    LET together(p) == {q \in Units(files) : files[q].module = files[p].module}
        first(p) == CHOOSE q \in together(p) : \A u \in together(p) : ~Earlier(u, q)
    IN  {{p, first(p)} : p \in {p \in Units(files) : files[p].module # NoModule}}

Edges(files, r) ==
    IncludeEdges(files, r) \cup ForcedEdges(files, r) \cup OwnerEdges(files)
    \cup ImportEdges(files) \cup ModuleEdges(files)

SecondMain(files, r, p) == p # r.entry /\ KindOf(p) = "source" /\ files[p].main
\* Another program and an excluded source are neither taken nor passed through.
Passable(files, r, p) == ~SecondMain(files, r, p) /\ p \notin r.excluded

Closure(files, r) ==
    LET edges == Edges(files, r)
        reach[n \in Nat] ==
            IF n = 0 THEN {r.entry}
            ELSE LET seen == reach[n - 1]
                 IN  seen \cup UNION {e \in edges : \E p \in e : p \in seen /\ Passable(files, r, p)}
    IN  reach[Cardinality(DOMAIN files)]

\* Mutant of SelectedSources: headers are selected too.
SelectedFiles(files, r) ==
    {p \in Closure(files, r) : Passable(files, r, p)} \cup r.extras

SelectedSources(files, r) ==
    {p \in Closure(files, r) \cap TranslationUnits : Passable(files, r, p)} \cup r.extras

\* file_requires_module_pipeline
ModuleFile(files, p) ==
    KindOf(p) = "interface" \/ files[p].module # NoModule \/ files[p].imports # {}

Answer(files, r) ==
    LET sources == SelectedSources(files, r)
    IN  [sources |-> sources,
         modules |-> \E p \in sources \cap DOMAIN files : ModuleFile(files, p)]

\* What a discovery that nobody disturbs answers.
IndexedNow(disk, r) ==
    [p \in {q \in ToSet(Paths) : Exists(disk, q) /\ DirOf(q) \notin r.excludedDirs} |-> disk[p]]
AnswerNow(disk, r) == Answer(IndexedNow(disk, r), r)
-----------------------------------------------------------------------------
(* The cached answer *)

NoRecord == [kind |-> "none"]

\* Saved when nothing moved, nothing was unreadable and every extra source is indexed.
RecordWanted(idx, r) == idx.cacheable /\ r.extras \subseteq DOMAIN idx.read
RecordOf(idx, r) ==
    [kind |-> "record", request |-> r, answer |-> Answer(idx.read, r),
     evidence |-> idx.evidence, stale |-> idx.stale, whole |-> idx.whole]

\* Mutant of RecordReusable: directories are not looked at.
RecordReusableFiles(record, r) ==
    record.kind = "record" /\ record.request = r /\ record.stale \cap ToSet(Paths) = {}

\* try_reuse_discovery_cache: the same request, and every file and directory unmoved.
RecordReusable(record, r) ==
    record.kind = "record" /\ record.request = r /\ record.stale = {}
=============================================================================
