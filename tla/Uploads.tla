------------------------------ MODULE Uploads ------------------------------
(***************************************************************************)
(* What a scan is made from: the body of a request, a zip archive or a     *)
(* clone.                                                                  *)
(*                                                                         *)
(* An entry of an archive is [path, plain, encrypted, symlink, dir, size,  *)
(* stream]: path its segments, <<>> for the archive's root; plain tells a  *)
(* relative path without "..", a drive or backslashes; size is the size it *)
(* declares, and stream how reading it ends.                               *)
(***************************************************************************)
LOCAL INSTANCE Integers
LOCAL INSTANCE Sequences
LOCAL INSTANCE FiniteSets
LOCAL INSTANCE FiniteSetsExt
LOCAL INSTANCE SequencesExt
LOCAL INSTANCE Functions

CONSTANTS MAX_FILES, MAX_TOTAL, MAX_FILE

Sum(sizes) == FoldLeft(LAMBDA a, b : a + b, 0, sizes)

\* declared is the Content-Length, -1 without one; chunks are the sizes that arrive.
BodySizeLimit(declared, chunks, max_bytes) ==
    declared <= max_bytes /\ \A n \in DOMAIN chunks : Sum(SubSeq(chunks, 1, n)) <= max_bytes
validate_upload(zip_name, size, max_bytes) == zip_name /\ size # 0 /\ size <= max_bytes

Files(entries) == SelectSeq(entries, LAMBDA e : ~e.dir)
Sizes(entries) == [i \in DOMAIN Files(entries) |-> Files(entries)[i].size]
WithinLimits(sizes) ==
    /\ Len(sizes) <= MAX_FILES
    /\ \A i \in DOMAIN sizes : sizes[i] <= MAX_FILE
    /\ Sum(sizes) <= MAX_TOTAL
inspect_zip(entries) ==
    /\ \A i \in DOMAIN entries : entries[i].plain /\ ~entries[i].encrypted /\ ~entries[i].symlink
    /\ Files(entries) # <<>>
    /\ WithinLimits(Sizes(entries))

(***************************************************************************)
(* Extraction: the state is [tree, written, outcome], tree maps a path to  *)
(* 0 for a directory or to the number of the entry whose bytes it holds.  *)
(***************************************************************************)
Parents(path) == {SubSeq(path, 1, n) : n \in 0 .. (Len(path) - 1)}
IsFile(tree, path) == path \in DOMAIN tree /\ tree[path] # 0
Ended(run, outcome) == [run EXCEPT !.outcome = outcome]
Directories(tree, paths) ==
    [p \in DOMAIN tree \union paths |-> IF p \in DOMAIN tree THEN tree[p] ELSE 0]
Written(run, path, n) ==
    [run EXCEPT !.tree = [p \in DOMAIN @ \union {path} |-> IF p = path THEN n ELSE @[p]]]

\* Making a directory where a file is raises FileExistsError, which nothing translates.
ExtractDirectory(run, path) ==
    IF \E p \in Parents(path) \union {path} : IsFile(run.tree, p) THEN Ended(run, "crashed")
    ELSE [run EXCEPT !.tree = Directories(@, Parents(path) \union {path})]

\* The reader stops at the declared size; bytes that do not match, or an entry it cannot open, are
\* its errors, and running out of bytes is one nothing translates.
ExtractFile(run, entry, n) ==
    LET made == [run EXCEPT !.tree = Directories(@, Parents(entry.path))]
        opened == Written(made, entry.path, n)
        total == run.written + entry.size
    IN CASE \E p \in Parents(entry.path) : IsFile(run.tree, p) -> Ended(run, "crashed")
         [] entry.stream = "unreadable" -> Ended(made, "refused")
         [] entry.path \in DOMAIN made.tree /\ ~IsFile(made.tree, entry.path) -> Ended(made, "refused")
         [] entry.size > MAX_FILE \/ total > MAX_TOTAL -> Ended(opened, "refused")
         [] entry.stream = "ends" -> Ended(opened, "crashed")
         [] entry.stream = "mismatch" -> Ended(opened, "refused")
         [] OTHER -> [opened EXCEPT !.written = total]
Extract(run, entry, n) ==
    IF run.outcome # "extracted" THEN run
    ELSE IF entry.dir THEN ExtractDirectory(run, entry.path) ELSE ExtractFile(run, entry, n)

Root == <<>>
safe_extract(entries) ==
    LET numbered == [i \in DOMAIN entries |-> <<entries[i], i>>]
        empty == [tree |-> [p \in {Root} |-> 0], written |-> 0, outcome |-> "extracted"]
    IN IF ~inspect_zip(entries) THEN Ended(empty, "refused")
       ELSE FoldLeft(LAMBDA run, e : Extract(run, e[1], e[2]), empty, numbered)

\* A clone is checked after the fact, whatever order its directories are walked in.
enforce_tree_limits(sizes, symlinks) == symlinks = {} /\ WithinLimits(sizes)

(***************************************************************************)
(* Properties.                                                             *)
(***************************************************************************)
Conflict(e, f) ==
    \/ ~e.dir /\ e.path \in Parents(f.path)
    \/ ~e.dir /\ f.dir /\ e.path = f.path
    \/ ~e.dir /\ e.path = Root

\* An archive that passed inspection is extracted whole unless its bytes are damaged or two of its
\* names cannot be a file and a directory at once, in whatever order they come; and then the tree
\* is exactly its directories and the last entry of each name.
ExtractionIsWhole(entries) ==
    LET run == safe_extract(entries)
        named == {entries[i].path : i \in DOMAIN entries}
        last(path) == Max({i \in DOMAIN entries : entries[i].path = path})
    IN /\ run.outcome = "extracted" <=>
             /\ inspect_zip(entries)
             /\ \A i \in DOMAIN entries : entries[i].dir \/ entries[i].stream = "whole"
             /\ \A i, j \in DOMAIN entries : ~Conflict(entries[i], entries[j])
       /\ run.outcome = "extracted" =>
             /\ DOMAIN run.tree = {Root} \union named \union UNION {Parents(p) : p \in named}
             /\ \A p \in DOMAIN run.tree :
                   run.tree[p] = IF p \in named /\ ~entries[last(p)].dir THEN last(p) ELSE 0

\* Whatever an archive holds and however its extraction ends, no more bytes than the limit are
\* written into no more files than the limit.
ExtractionIsBounded(entries) ==
    LET run == safe_extract(entries)
    IN /\ run.written <= MAX_TOTAL
       /\ Cardinality({p \in DOMAIN run.tree : IsFile(run.tree, p)}) <= MAX_FILES
=============================================================================
