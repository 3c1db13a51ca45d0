------------------------------ MODULE A2lViewer ------------------------------
(***************************************************************************)
(* The A2L viewer, mqb-a2l-viewer: a description file and two images, the  *)
(* list of characteristics with its filters, and the comparison of the     *)
(* images.  `update` handles one message at a time; file dialogs, loads    *)
(* and comparisons are tasks whose answers come back as messages, in any   *)
(* order, while the user goes on: no button waits for a task.              *)
(*                                                                         *)
(* Left out: paths and error texts, the percent switch and the split pane. *)
(* The address map is the one of the module, which alone is kept.          *)
(***************************************************************************)
EXTENDS Integers, Sequences

CONSTANTS
  Nothing,
  A2ls, Bins,          \* the files that parse; another one fails to load
  Length,              \* Length[a]: how many characteristics a2l a describes
  Functions,           \* Functions[a][f]: the FUNCTION f of a, [subs, chars]
  Axes,                \* Axes[a][i]: the AXIS_PTS characteristic i refers to
  Texts, Matches(_, _, _),   \* does characteristic i of a match the search text?
  Read(_, _, _, _),    \* what characteristic i of a reads in bin b of module m:
                       \* [axis, data], or Nothing
  Uniform,             \* the data in which all values are the same
  Signatures,          \* Signatures[b]: the project prefixes found in image b
  MAX_DISPLAY,
  MaxLoads             \* bound: how many file dialogs are opened

ASSUME FilesAssumption ==
  /\ Length \in [A2ls -> Nat]
  /\ Signatures \in [Bins -> SUBSET {"SC8", "SCG"}]
  /\ Nothing \notin A2ls \union Bins /\ "" \in Texts
ASSUME BoundsAssumption == MAX_DISPLAY \in Nat \ {0} /\ MaxLoads \in Nat

Slots == {"a2l", "bin", "bin2"}
FilesOf(slot) == IF slot = "a2l" THEN A2ls ELSE Bins

VARIABLES
  loaded,              \* loaded[slot]: a2l, binary, binary2
  loading,             \* loading_a2l, loading_bin, loading_bin2
  module,
  filter,              \* [category, text, axis]
  show,                \* [compare_mode, changed_only, rescale_only, hide_uniform]
  filtered,            \* the indices listed
  selected,
  cached,              \* cached_values, cached_values2
  changes,             \* [changed, axis_same, uniform]: sets of indices
  computing,           \* computing_changes
  tasks,               \* dialogs, loads and comparisons on their way
  loads                \* how many dialogs were opened

viewer_vars == <<loaded, loading, module, filter, show, filtered, selected, cached, changes,
          computing, tasks, loads>>
files == <<loaded, loading, module, loads>>
list == <<filter, show, filtered>>
pane == <<selected, cached>>

NoChanges == [changed |-> {}, axis_same |-> {}, uniform |-> {}]
NoValues == [bin |-> Nothing, bin2 |-> Nothing]

ViewerInit ==
  /\ loaded = [s \in Slots |-> Nothing] /\ loading = [s \in Slots |-> FALSE]
  /\ module = "Simos18"
  /\ filter = [category |-> Nothing, text |-> "", axis |-> Nothing]
  /\ show = [compare_mode |-> FALSE, changed_only |-> FALSE, rescale_only |-> FALSE,
             hide_uniform |-> TRUE]
  /\ filtered = <<>> /\ selected = Nothing /\ cached = NoValues
  /\ changes = NoChanges /\ computing = FALSE /\ tasks = {} /\ loads = 0

-----------------------------------------------------------------------------
(***************************************************************************)
(* The categories: a function with sub-functions holds its own and their   *)
(* characteristics, a function that is nobody's sub-function its own.      *)
(***************************************************************************)
CharsOf(a, f) == IF f \in DOMAIN Functions[a] THEN Functions[a][f].chars ELSE {}

build_categories(a) ==
  LET fs == Functions[a]
      children == UNION {fs[f].subs : f \in DOMAIN fs}
      heads == {f \in DOMAIN fs : fs[f].subs # {} \/ f \notin children}
      chars == [f \in heads |-> UNION {CharsOf(a, g) : g \in fs[f].subs \union {f}}]
  IN  [f \in {h \in heads : chars[h] # {}} |-> chars[f]]

detect_module_from_bin(b) ==
  IF "SC8" \in Signatures[b] THEN "Simos18"
  ELSE IF "SCG" \in Signatures[b] THEN "Simos1810" ELSE Nothing

(***************************************************************************)
(* rebuild_filter and read_selected, as functions of the state they read.  *)
(***************************************************************************)
Admits(a, i, fl, sh, ch) ==
  /\ fl.category # Nothing =>
       fl.category \in DOMAIN build_categories(a) /\ i \in build_categories(a)[fl.category]
  /\ sh.changed_only /\ ch.changed # {} => i \in ch.changed
  /\ sh.rescale_only /\ ch.axis_same # {} =>
       i \in ch.axis_same /\ ~(sh.hide_uniform /\ i \in ch.uniform)
  /\ fl.axis # Nothing => fl.axis \in Axes[a][i]
  /\ Matches(a, i, fl.text)

\* What enumerate, filter and collect leave of the indices up to n.
Collected(S, n) ==
  LET upto[i \in 0..n] == IF i = 0 THEN <<>>
                          ELSE IF i \in S THEN Append(upto[i - 1], i) ELSE upto[i - 1]
  IN  upto[n]

rebuild_filter(a, fl, sh, ch) ==
  IF a = Nothing THEN <<>>
  ELSE LET all == Collected({i \in 1..Length[a] : Admits(a, i, fl, sh, ch)}, Length[a])
       IN  IF Len(all) <= MAX_DISPLAY THEN all ELSE SubSeq(all, 1, MAX_DISPLAY)

Value(fs, m, sel, slot) ==
  IF sel = Nothing \/ fs["a2l"] = Nothing \/ fs[slot] = Nothing THEN Nothing
  ELSE Read(fs["a2l"], sel, fs[slot], m)

read_selected(fs, m, sel) ==
  [bin |-> Value(fs, m, sel, "bin"), bin2 |-> Value(fs, m, sel, "bin2")]

compute_changed_set(a, b1, b2, m) ==
  LET v1(i) == Read(a, i, b1, m)
      v2(i) == Read(a, i, b2, m)
      axis_same == {i \in 1..Length[a] :
                      /\ v1(i) # Nothing /\ v2(i) # Nothing
                      /\ v1(i).axis # v2(i).axis /\ v1(i).data = v2(i).data}
  IN  [changed   |-> {i \in 1..Length[a] : v1(i) # v2(i)},
       axis_same |-> axis_same,
       uniform   |-> {i \in axis_same : v1(i).data \in Uniform}]

-----------------------------------------------------------------------------
(***************************************************************************)
(* Tasks.                                                                  *)
(***************************************************************************)
Dialog(slot) == [kind |-> "dialog", slot |-> slot]
Load(slot, f) == [kind |-> "load", slot |-> slot, file |-> f]
Compare(a, b1, b2, m) == [kind |-> "compare", a2l |-> a, bin |-> b1, bin2 |-> b2, module |-> m]

\* Starts a comparison when everything it needs is loaded; rest are the tasks
\* that are still on their way.
maybe_compute_changes(fs, m, rest) ==
  IF Nothing \in {fs[s] : s \in Slots}
  THEN UNCHANGED <<changes, computing>> /\ tasks' = rest
  ELSE /\ computing' = TRUE /\ changes' = NoChanges
       /\ tasks' = rest \union {Compare(fs["a2l"], fs["bin"], fs["bin2"], m)}

\* LoadA2l, LoadBin, LoadBin2; the button of the second image appears with the
\* first.
OpenDialog(slot) ==
  /\ loads < MaxLoads /\ (slot = "bin2" => loaded["bin"] # Nothing)
  /\ loading' = [loading EXCEPT ![slot] = TRUE]
  /\ tasks' = tasks \union {Dialog(slot)} /\ loads' = loads + 1
  /\ UNCHANGED <<loaded, module, list, pane, changes, computing>>

Picked(slot) ==
  /\ Dialog(slot) \in tasks
  /\ \/ /\ loading' = [loading EXCEPT ![slot] = FALSE]
        /\ tasks' = tasks \ {Dialog(slot)}
     \/ \E f \in FilesOf(slot) \union {Nothing} :
          tasks' = (tasks \ {Dialog(slot)}) \union {Load(slot, f)} /\ UNCHANGED loading
  /\ UNCHANGED <<loaded, module, loads, list, pane, changes, computing>>

\* A file that cannot be read or parsed.
LoadFails(slot) ==
  /\ Load(slot, Nothing) \in tasks /\ tasks' = tasks \ {Load(slot, Nothing)}
  /\ loading' = [loading EXCEPT ![slot] = FALSE]
  /\ UNCHANGED <<loaded, module, loads, list, pane, changes, computing>>

\* Defect: the selection, an index, outlives the file it is of.
a2l_loaded_keeps_selected(a) ==
  /\ Load("a2l", a) \in tasks /\ a # Nothing /\ tasks' = tasks \ {Load("a2l", a)}
  /\ loaded' = [loaded EXCEPT !["a2l"] = a] /\ loading' = [loading EXCEPT !["a2l"] = FALSE]
  /\ filter' = [filter EXCEPT !.category = Nothing] /\ changes' = [changes EXCEPT !.changed = {}]
  /\ filtered' = rebuild_filter(a, filter', show, changes')
  /\ UNCHANGED <<module, loads, show, pane, computing>>

\* Only the set of changed characteristics is cleared, and nothing is compared.
A2lLoaded(a) ==
  /\ Load("a2l", a) \in tasks /\ a # Nothing /\ tasks' = tasks \ {Load("a2l", a)}
  /\ loaded' = [loaded EXCEPT !["a2l"] = a] /\ loading' = [loading EXCEPT !["a2l"] = FALSE]
  /\ selected' = Nothing /\ cached' = NoValues
  /\ filter' = [filter EXCEPT !.category = Nothing] /\ changes' = [changes EXCEPT !.changed = {}]
  /\ filtered' = rebuild_filter(a, filter', show, changes')
  /\ UNCHANGED <<module, loads, show, computing>>

\* Defect: the values on the screen are not read anew.
bin_loaded_keeps_values(b) ==
  /\ Load("bin", b) \in tasks /\ b # Nothing
  /\ module' = IF detect_module_from_bin(b) = Nothing THEN module ELSE detect_module_from_bin(b)
  /\ loaded' = [loaded EXCEPT !["bin"] = b] /\ loading' = [loading EXCEPT !["bin"] = FALSE]
  /\ maybe_compute_changes(loaded', module', tasks \ {Load("bin", b)})
  /\ UNCHANGED <<loads, list, pane>>

BinLoaded(b) ==
  /\ Load("bin", b) \in tasks /\ b # Nothing
  /\ module' = IF detect_module_from_bin(b) = Nothing THEN module ELSE detect_module_from_bin(b)
  /\ loaded' = [loaded EXCEPT !["bin"] = b] /\ loading' = [loading EXCEPT !["bin"] = FALSE]
  /\ cached' = read_selected(loaded', module', selected)
  /\ maybe_compute_changes(loaded', module', tasks \ {Load("bin", b)})
  /\ UNCHANGED <<loads, list, selected>>

Bin2Loaded(b) ==
  /\ Load("bin2", b) \in tasks /\ b # Nothing
  /\ loaded' = [loaded EXCEPT !["bin2"] = b] /\ loading' = [loading EXCEPT !["bin2"] = FALSE]
  /\ show' = [show EXCEPT !.compare_mode = TRUE]
  /\ cached' = read_selected(loaded', module, selected)
  /\ maybe_compute_changes(loaded', module, tasks \ {Load("bin2", b)})
  /\ UNCHANGED <<module, loads, filter, filtered, selected>>

\* The result carries no mark of the files it is about.
ChangedSetComputed ==
  \E t \in {x \in tasks : x.kind = "compare"} :
    /\ tasks' = tasks \ {t} /\ computing' = FALSE
    /\ changes' = compute_changed_set(t.a2l, t.bin, t.bin2, t.module)
    /\ filtered' = rebuild_filter(loaded["a2l"], filter, show, changes')
    /\ UNCHANGED <<files, filter, show, pane>>

-----------------------------------------------------------------------------
(***************************************************************************)
(* The user, at the controls the screen shows.                             *)
(***************************************************************************)
Relist(fl, sh) ==
  /\ filter' = fl /\ show' = sh
  /\ filtered' = rebuild_filter(loaded["a2l"], fl, sh, changes)
  /\ UNCHANGED <<files, changes, computing, tasks>>

CategoryChanged ==
  /\ loaded["a2l"] # Nothing
  /\ \E c \in DOMAIN build_categories(loaded["a2l"]) :
       Relist([filter EXCEPT !.category = c], show)
  /\ UNCHANGED pane

ClearCategory ==
  /\ filter.category # Nothing
  /\ Relist([filter EXCEPT !.category = Nothing], show) /\ UNCHANGED pane

FilterChanged ==
  \E t \in Texts : Relist([filter EXCEPT !.text = t], show) /\ UNCHANGED pane

FilterByAxis ==
  /\ selected # Nothing
  /\ \E x \in Axes[loaded["a2l"]][selected] : Relist([filter EXCEPT !.axis = x], show)
  /\ UNCHANGED pane

ClearAxisFilter ==
  /\ filter.axis # Nothing
  /\ Relist([filter EXCEPT !.axis = Nothing], show) /\ UNCHANGED pane

ToggleCompare ==
  /\ loaded["bin2"] # Nothing
  /\ cached' = read_selected(loaded, module, selected) /\ UNCHANGED selected
  /\ Relist(filter, IF show.compare_mode
                    THEN [show EXCEPT !.compare_mode = FALSE, !.changed_only = FALSE,
                                      !.rescale_only = FALSE]
                    ELSE [show EXCEPT !.compare_mode = TRUE])

\* The checkboxes below Compare.
Comparing == loaded["bin2"] # Nothing /\ show.compare_mode

ToggleChangedOnly ==
  /\ Comparing
  /\ Relist(filter, [show EXCEPT !.changed_only = ~@]) /\ UNCHANGED pane

ToggleRescaleOnly ==
  /\ Comparing /\ changes.axis_same # {}
  /\ Relist(filter, [show EXCEPT !.rescale_only = ~@]) /\ UNCHANGED pane

ToggleHideUniform ==
  /\ Comparing /\ changes.axis_same # {} /\ show.rescale_only /\ changes.uniform # {}
  /\ Relist(filter, [show EXCEPT !.hide_uniform = ~@]) /\ UNCHANGED pane

Select(i) ==
  /\ selected' = i /\ cached' = read_selected(loaded, module, i)
  /\ UNCHANGED <<files, list, changes, computing, tasks>>

SelectChar == \E p \in DOMAIN filtered : Select(filtered[p])

\* SelectNext and SelectPrev: the selection may have been filtered away.
move_selection(delta) ==
  /\ filtered # <<>>
  /\ LET at == {p \in DOMAIN filtered : filtered[p] = selected}
         last == Len(filtered)
     IN  Select(IF at = {} THEN filtered[IF delta > 0 THEN 1 ELSE last]
                ELSE LET p == (CHOOSE q \in at : TRUE) + delta
                     IN  filtered[IF p < 1 THEN 1 ELSE IF p > last THEN last ELSE p])

ViewerNext ==
  \/ \E s \in Slots : OpenDialog(s) \/ Picked(s) \/ LoadFails(s)
  \/ \E a \in A2ls : A2lLoaded(a)
  \/ \E b \in Bins : BinLoaded(b) \/ Bin2Loaded(b)
  \/ ChangedSetComputed
  \/ CategoryChanged \/ ClearCategory \/ FilterChanged \/ FilterByAxis \/ ClearAxisFilter
  \/ ToggleCompare \/ ToggleChangedOnly \/ ToggleRescaleOnly \/ ToggleHideUniform
  \/ SelectChar \/ move_selection(1) \/ move_selection(-1)

ViewerSpec == ViewerInit /\ [][ViewerNext]_viewer_vars

-----------------------------------------------------------------------------
(***************************************************************************)
(* Properties.                                                             *)
(***************************************************************************)
Indices == IF loaded["a2l"] = Nothing THEN {} ELSE 1..Length[loaded["a2l"]]

Names == UNION {DOMAIN Functions[a] : a \in A2ls}
AxisNames == UNION {UNION {Axes[a][i] : i \in 1..Length[a]} : a \in A2ls}
Modules == {"Simos18", "Simos1810"}
Work ==
  {Dialog(s) : s \in Slots}
  \union {Load(s, f) : s \in Slots, f \in A2ls \union Bins \union {Nothing}}
  \union {Compare(a, b1, b2, m) : a \in A2ls, b1 \in Bins, b2 \in Bins, m \in Modules}

\* The variables have their types.  The list and the selection, which the view
\* uses to index the characteristics without a check, are indices of the file
\* that is loaded now, and the uniform ones, whose number is subtracted from
\* that of the suspect ones, are among these.
ViewerTypeOK ==
  /\ loaded \in [Slots -> A2ls \union Bins \union {Nothing}]
  /\ \A s \in Slots : loaded[s] \in FilesOf(s) \union {Nothing}
  /\ loading \in [Slots -> BOOLEAN] /\ computing \in BOOLEAN /\ loads \in 0..MaxLoads
  /\ module \in Modules /\ tasks \subseteq Work
  /\ filter \in [category : Names \union {Nothing}, text : Texts, axis : AxisNames \union {Nothing}]
  /\ show \in [compare_mode : BOOLEAN, changed_only : BOOLEAN, rescale_only : BOOLEAN,
               hide_uniform : BOOLEAN]
  /\ filtered \in Seq(Indices) /\ Len(filtered) <= MAX_DISPLAY
  /\ selected \in Indices \union {Nothing}
  /\ changes \in [changed : SUBSET Nat, axis_same : SUBSET Nat, uniform : SUBSET Nat]
  /\ changes.uniform \subseteq changes.axis_same

\* However loads, comparisons and clicks interleave, the values are those the
\* selected characteristic reads in the images of now with the module's address
\* map, and, unless a comparison is announced, the list is what the filters of
\* now leave of the description of now.  The changes are taken as they are held:
\* which files they compare is no part of it (see ChangesAreCurrent).
ScreenIsCurrent ==
  /\ cached = read_selected(loaded, module, selected)
  /\ ~computing => filtered = rebuild_filter(loaded["a2l"], filter, show, changes)

\* Nothing is announced forever: while a file is shown as loading its dialog or
\* its load is under way, and while changes are shown as being computed a
\* comparison is.
AnnouncedWorkIsUnderWay ==
  /\ \A s \in Slots : loading[s] => \E t \in tasks : t.kind # "compare" /\ t.slot = s
  /\ computing => \E t \in tasks : t.kind = "compare"

\* The values and the list follow the files, the switches and the changes that
\* are held, and no load or comparison is announced that is over (update).  It
\* does not say that the changes are those between the files shown: the marks,
\* the counts, the rescale banner and what "Changed only" lists come from them,
\* and after a new description or two comparisons that answer out of order they
\* are of other files (ChangesAreCurrent, which no run claims).
ScreenFollows == ScreenIsCurrent /\ AnnouncedWorkIsUnderWay

\* The changes marked in the list, counted beside "Changed only" and used by the
\* filters are those between the two images that are loaded, read with the a2l
\* that is loaded.  Does not hold: A2lLoaded starts no comparison, and the result
\* of an overtaken one is taken for that of the latest.
ChangesAreCurrent ==
  (Nothing \notin {loaded[s] : s \in Slots} /\ ~computing) =>
    changes = compute_changed_set(loaded["a2l"], loaded["bin"], loaded["bin2"], module)
=============================================================================
