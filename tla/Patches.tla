------------------------------ MODULE Patches ------------------------------
(***************************************************************************)
(* The check of a proposed patch and what is shown of it.                  *)
(*                                                                         *)
(* A patch is a sequence of lines [lead, path, cr]: lead is "---", "+++",  *)
(* "@@", " ", "-", "+", "" or "other"; path is what follows "---" or       *)
(* "+++", "null" for /dev/null; cr tells a carriage return at the end.     *)
(* The last line is "" where the patch ends with a newline.                *)
(***************************************************************************)
LOCAL INSTANCE Integers
LOCAL INSTANCE Sequences
LOCAL INSTANCE FiniteSets
LOCAL INSTANCE FiniteSetsExt
LOCAL INSTANCE SequencesExt
LOCAL INSTANCE Functions

CONSTANTS EXCERPT_CONTEXT_LINES, MAX_EXCERPT_LINES

Line(lead, path, cr) == [lead |-> lead, path |-> path, cr |-> cr]

\* A line of a hunk that looks like a header is taken for one.
DiffPaths(patch) == {patch[i].path : i \in {j \in DOMAIN patch : patch[j].lead \in {"---", "+++"}}}
patch_paths(patch) == DiffPaths(patch) \ {"null"}

(***************************************************************************)
(* Line endings.  crlf_files are the files of the repository that use      *)
(* carriage returns; the state is [in_hunk, crlf, out].                    *)
(***************************************************************************)
IsHunkLine(lead) == lead \in {" ", "-", "+", "", "---"}
Matched(patch, crlf_files, state, i) ==
    LET line == patch[i]
        bare == [line EXCEPT !.cr = FALSE]
        ended == IF line.lead = "" THEN Line(" ", line.path, TRUE) ELSE [line EXCEPT !.cr = TRUE]
        write(written) == [state EXCEPT !.out = Append(@, written)]
    IN CASE line.lead = "---" /\ i < Len(patch) /\ patch[i + 1].lead = "+++" -> [write(bare) EXCEPT !.in_hunk = FALSE]
         [] line.lead = "+++" -> [write(bare) EXCEPT !.crlf = line.path \in crlf_files]
         [] line.lead = "@@" -> [write(bare) EXCEPT !.in_hunk = TRUE]
         [] state.in_hunk /\ IsHunkLine(line.lead) ->
                write(IF line.lead = "" /\ i = Len(patch) THEN bare ELSE IF state.crlf THEN ended ELSE bare)
         [] OTHER -> write(line)
match_line_endings(patch, crlf_files) ==
    FoldLeft(LAMBDA state, i : Matched(patch, crlf_files, state, i),
             [in_hunk |-> FALSE, crlf |-> FALSE, out |-> <<>>], [i \in DOMAIN patch |-> i]).out

(***************************************************************************)
(* What is shown: the lines [start, end_old] of the file and               *)
(* [start, end_new] of the patched one.  ranges are those the hunks name.  *)
(***************************************************************************)
_changed_ranges(hunks) == {<<h.start, h.start + Max({h.length, 1}) - 1>> : h \in hunks}
_excerpts(old_lines, new_lines, hunks) ==
    LET ranges == IF hunks = {} THEN {<<1, Len(new_lines)>>} ELSE _changed_ranges(hunks)
        start == Max({1, Min({r[1] : r \in ranges}) - EXCERPT_CONTEXT_LINES})
        end_new == Min({Max({r[2] : r \in ranges}) + EXCERPT_CONTEXT_LINES, start + MAX_EXCERPT_LINES - 1})
    IN [start |-> start, end_new |-> end_new,
        end_old |-> Max({start, end_new - (Len(new_lines) - Len(old_lines))})]
Lines(lines, first, last) == SubSeq(lines, first, Min({last, Len(lines)}))

(***************************************************************************)
(* The verdict.  applies says what git makes of the patch at its first     *)
(* try, with context, and its second, without.                             *)
(***************************************************************************)
_apply(applies) ==
    IF applies[1] = "timeout" \/ (applies[1] # "ok" /\ applies[2] = "timeout") THEN "timeout"
    ELSE IF "ok" \in {applies[1], applies[2]} THEN "ok" ELSE "rejected"
validate_patch(patch, too_large, safe_files, applies, broken, broken_before) ==
    CASE patch = <<>> -> "no_patch"
      [] \/ too_large
         \/ "null" \in DiffPaths(patch)
         \/ patch_paths(patch) = {}
         \/ ~(patch_paths(patch) \subseteq safe_files)
         \/ _apply(applies) # "ok" -> "failed_to_apply"
      [] (broken \ broken_before) \intersect patch_paths(patch) # {} -> "syntax_error"
      [] OTHER -> "valid"
\* Before a pull request is written the same patch is applied to the files GitHub has.
apply_patch_in_place(patch, safe_files, applies) ==
    patch_paths(patch) \subseteq safe_files /\ _apply(applies) = "ok"

(***************************************************************************)
(* Properties.                                                             *)
(***************************************************************************)
\* A diff is built of files, each with hunks; what the lines of a hunk end with is the affair of the
\* file they belong to, whatever stood before, and headers end plainly.
Flat(diff) ==
    LET raw(part) ==
            IF part.form = "file" THEN <<Line("---", part.from, FALSE), Line("+++", part.name, FALSE)>>
            ELSE IF part.form = "hunk" THEN <<Line("@@", "", FALSE)>>
            ELSE <<Line(part.form, part.name, FALSE)>>
    IN FlattenSeq([i \in DOMAIN diff |-> raw(diff[i])]) \o <<Line("", "", FALSE)>>
WellFormed(diff) ==
    /\ diff # <<>> /\ diff[1].form = "file"
    /\ \A i \in 2 .. Len(diff) :
          /\ diff[i - 1].form = "file" => diff[i].form = "hunk"
          /\ diff[i - 1].form = "hunk" => diff[i].form \notin {"file", "hunk"}
    /\ Last(diff).form \notin {"file", "hunk", ""}
EndingsFollowTheFile(diff, crlf_files) ==
    LET out == match_line_endings(Flat(diff), crlf_files)
        before(i) == Len(Flat(SubSeq(diff, 1, i))) - 1
        owner(i) == diff[Max({j \in 1 .. i : diff[j].form = "file"})].name
    IN WellFormed(diff) =>
          /\ Len(out) = Len(Flat(diff)) /\ ~Last(out).cr
          /\ \A i \in DOMAIN diff :
                IF diff[i].form \in {"file", "hunk"} THEN ~out[before(i)].cr
                ELSE out[before(i)].cr <=> owner(i) \in crlf_files

\* edits keeps, drops or adds a line.  Where hunks name the lines they change, replacing the one
\* excerpt by the other turns the file into the patched one, unless the excerpt was cut.
Side(edits, gone) == SelectSeq([i \in DOMAIN edits |-> <<i, edits[i]>>], LAMBDA e : e[2] # gone)
Added(edits, i) == Len(SelectSeq(SubSeq(edits, 1, i), LAMBDA e : e # "drop"))
\* Without context a hunk that adds nothing names the line before it.
Hunks(edits) ==
    {LET length == Added(edits, run[2]) - Added(edits, run[1] - 1)
     IN [start |-> Added(edits, run[1] - 1) + (IF length = 0 THEN 0 ELSE 1), length |-> length] :
        run \in {r \in (DOMAIN edits) \X (DOMAIN edits) :
                    /\ r[1] <= r[2] /\ \A i \in r[1] .. r[2] : edits[i] # "keep"
                    /\ r[1] > 1 => edits[r[1] - 1] = "keep"
                    /\ r[2] < Len(edits) => edits[r[2] + 1] = "keep"}}
ExcerptsAlign(edits) ==
    LET old == Side(edits, "add")
        new == Side(edits, "drop")
        shown == _excerpts(old, new, Hunks(edits))
        cut == shown.end_new = shown.start + MAX_EXCERPT_LINES - 1
    IN Hunks(edits) # {} /\ ~cut =>
          SubSeq(old, 1, shown.start - 1) \o Lines(new, shown.start, shown.end_new)
              \o SubSeq(old, shown.end_old + 1, Len(old)) = new

\* A patch found valid changes files that exist and are the repository's, and neither creates nor
\* deletes one, whatever its lines look like; and it can be applied to the same files again.
ValidChangesKnownFiles(diff, safe_files, applies) ==
    LET patch == Flat(diff)
        headers == {diff[i] : i \in {j \in DOMAIN diff : diff[j].form = "file"}}
    IN WellFormed(diff) /\ validate_patch(patch, FALSE, safe_files, applies, {}, {}) = "valid" =>
          /\ \A h \in headers : {h.from, h.name} \subseteq safe_files
          /\ apply_patch_in_place(patch, safe_files, applies)
=============================================================================
