---------------------------- MODULE WorkspaceFiles ----------------------------
(***************************************************************************)
(* What build-vitis.py puts into a workspace besides what Vitis generates: *)
(* the local embeddedsw repository (patched files, completed from the      *)
(* install), the application's sources and its linker script.  Only the    *)
(* origin of each file matters, and the memory of each section.            *)
(*                                                                         *)
(* The order of the steps is main's; what becomes of a workspace when one  *)
(* fails is in StandaloneFlow, from whose names those here differ:         *)
(* StandaloneFlowProofs reasons about both.                                *)
(* Definitions marked "Faulty" are mistakes the code does not make.       *)
(***************************************************************************)
EXTENDS Integers, Sequences, FiniteSets, SequencesExt

CONSTANTS
    Inputs,     \* bound: what the script may find, see InputAssumption
    Generated   \* the files Vitis generates for a new application

Sections == {".text", ".bss", ".heap"}

\* An item of a source entry is a directory with the files of it that are listed.
Items == [name : STRING, dir : SUBSET STRING, listed : SUBSET STRING]

\* A path is the sequence of its names; a memory is its kind and a number; the
\* override, if there is one, is one entry.
ASSUME InputAssumption ==
    \A i \in Inputs :
        /\ DOMAIN i = {"base", "overlay", "install", "all", "arch", "override",
                       "memories", "script", "mod"}
        /\ {i.all, i.arch} \cup ToSet(i.override) \subseteq Seq(Items)
        /\ i.override \in Seq(Seq(Items)) /\ i.memories \in Seq(STRING \X Nat)
        /\ i.script \in [Sections -> ToSet(i.memories)]
        /\ i.mod \in {"none", "relocate_to_local_mem", "relocate_to_ddr", "code_local_bss_ddr"}
\* A patch is in src or data of its component, or just below the component; no
\* component is called src or data; every file of the install is in a component.
ASSUME LayoutAssumption ==
    \A i \in Inputs :
        /\ i.base \cup i.overlay \cup i.install \subseteq Seq(STRING)
        /\ \A p \in i.base \cup i.overlay : Len(p) > 2 => p[2] \in {"src", "data"}
        /\ \A p \in i.install : Len(p) > 1 /\ p[1] \notin {"src", "data"}

VARIABLES
    input,    \* EmbeddedSw/, EmbeddedSw.<arch>/, the install; args.json; lscript.ld
    pc,       \* main's next step
    local,    \* <workspace>/embeddedsw: the origin of each file
    app,      \* <app>/src: the origin of each file
    copied,   \* how many items of the source entries have been copied to it
    section   \* lscript.ld: the memory of each output section

fileVars == <<input, pc, local, app, copied, section>>

MainSteps == {"base", "overlay", "fill", "sources", "linker", "done"}
FilesTyped ==
    /\ pc \in MainSteps
    /\ \A p \in DOMAIN local : local[p] \in {"base", "overlay", "install"}
    /\ section \in [Sections -> ToSet(input.memories)]

FilesInit ==
    /\ input \in Inputs
    /\ pc = "base" /\ local = <<>>
    /\ app = [f \in Generated |-> "vitis"] /\ copied = 0
    /\ section = input.script

\* A tree with files copied onto it, and with those it lacks filled in.
Overlaid(tree, files, origin) ==
    [p \in DOMAIN tree \cup files |-> IF p \in files THEN origin ELSE tree[p]]
Filled(tree, files, origin) ==
    [p \in DOMAIN tree \cup files |-> IF p \in DOMAIN tree THEN tree[p] ELSE origin]

----------------------------------------------------------------------------
(* setup_embeddedsw.                                                       *)

\* Files at the root of an overlay, such as README.md, are no patches.
Patches(overlay) == {p \in input[overlay] : Len(p) > 1}

Patch(overlay, next) ==
    /\ pc = overlay
    /\ local' = Overlaid(local, Patches(overlay), overlay)
    /\ pc' = next
    /\ UNCHANGED <<input, app, copied, section>>
PatchBase == Patch("base", "overlay")
PatchArch == Patch("overlay", "fill")

Dirs(tree) == UNION {{SubSeq(p, 1, n) : n \in 0..(Len(p) - 1)} : p \in tree}

\* Faulty: only the directories that have a patch themselves.
PatchedDirs == {d \in Dirs(DOMAIN local) : d # <<>> /\ Last(d) \in {"src", "data"}}
\* src and data of every directory above a patch, patched themselves or not.
SourceDirs == {Append(d, s) : d \in Dirs(DOMAIN local), s \in {"src", "data"}}

Fill ==
    /\ pc = "fill"
    /\ LET files == {p \in input.install : \E d \in SourceDirs : IsPrefix(d, p)}
       IN  local' = Filled(local, files, "install")
    /\ pc' = "sources"
    /\ UNCHANGED <<input, app, copied, section>>

----------------------------------------------------------------------------
(* The application's sources.                                              *)

\* Faulty: a file that is there already stays.
KeepItem(tree, item) == Filled(tree, item.dir \cap item.listed, item.name)
\* A listed file that the directory lacks is only warned about.
CopyItem(tree, item) == Overlaid(tree, item.dir \cap item.listed, item.name)

\* src_overrides replaces the common entry and the architecture's.
SourceItems == IF input.override # <<>> THEN input.override[1] ELSE input.all \o input.arch

CopySource ==
    /\ pc = "sources" /\ copied < Len(SourceItems)
    /\ app' = CopyItem(app, SourceItems[copied + 1])
    /\ copied' = copied + 1
    /\ UNCHANGED <<input, pc, local, section>>

CreateBoardH ==
    /\ pc = "sources" /\ copied = Len(SourceItems)
    /\ app' = Overlaid(app, {"board.h"}, "board")
    /\ pc' = "linker"
    /\ UNCHANGED <<input, local, copied, section>>

----------------------------------------------------------------------------
(* The linker script.                                                      *)

Named(kind) == {i \in DOMAIN input.memories : input.memories[i][1] = kind}
First(kind) == input.memories[CHOOSE i \in Named(kind) : \A j \in Named(kind) : i <= j]

\* Faulty: the sections of the first memory only.
RelocateFirst(to) ==
    [s \in Sections |-> IF section[s] = Head(input.memories) THEN to ELSE section[s]]
\* Every `> memory' of the script.
RelocateAll(to) == [s \in Sections |-> to]

Needs == CASE input.mod = "none" -> {}
           [] input.mod = "relocate_to_local_mem" -> {"local"}
           [] input.mod = "relocate_to_ddr" -> {"ddr"}
           [] input.mod = "code_local_bss_ddr" -> {"local", "ddr"}

Relocated ==
    section' = CASE input.mod = "none" -> section
                 [] input.mod = "relocate_to_local_mem" -> RelocateAll(First("local"))
                 [] input.mod = "relocate_to_ddr" -> RelocateAll(First("ddr"))
                 [] input.mod = "code_local_bss_ddr" ->
                        [RelocateAll(First("local")) EXCEPT
                            ![".bss"] = First("ddr"), ![".heap"] = First("ddr")]

\* A memory that the mod needs and the script lacks leaves it as it is.
ModifyLinkerScript ==
    /\ pc = "linker"
    /\ IF \A kind \in Needs : Named(kind) # {} THEN Relocated ELSE UNCHANGED section
    /\ pc' = "done"
    /\ UNCHANGED <<input, local, app, copied>>

Finished == pc = "done" /\ UNCHANGED fileVars

FilesNext ==
    \/ PatchBase \/ PatchArch \/ Fill \/ CopySource
    \/ CreateBoardH \/ ModifyLinkerScript \/ Finished
FilesSpec == FilesInit /\ [][FilesNext]_fileVars

----------------------------------------------------------------------------
\* setup_embeddedsw: the architecture's overlay wins over EmbeddedSw/ and both
\* over the install; a component with a patch has all of the install's src
\* and data beside it, wherever in the component the patch is, and a component
\* without one is not there.  A component is the first name of a path.
Components(tree) == {Head(p) : p \in tree}
RepoComplete ==
    LET patched == Patches("base") \cup Patches("overlay")
        needed == {p \in input.install : Head(p) \in Components(patched)
                                         /\ p[2] \in {"src", "data"}}
    IN  pc \notin {"base", "overlay", "fill"} =>
            /\ DOMAIN local = patched \cup needed
            /\ \A p \in DOMAIN local :
                  local[p] = IF p \in Patches("overlay") THEN "overlay"
                             ELSE IF p \in Patches("base") THEN "base" ELSE "install"

\* The sources are those args.json asks for: no file is missing, the last item
\* that has a file gives it, board.h is the target's, and the linker mod leaves
\* no section behind in a memory it empties.
Given(i) == SourceItems[i].dir \cap SourceItems[i].listed
Givers(f) == {i \in DOMAIN SourceItems : f \in Given(i)}
Latest(S) == CHOOSE i \in S : \A j \in S : j <= i
AppAsConfigured ==
    /\ FilesTyped
    /\ pc \in {"linker", "done"} =>
          /\ DOMAIN app = Generated \cup {"board.h"} \cup UNION {Given(i) : i \in DOMAIN SourceItems}
          /\ app["board.h"] = "board"
          /\ \A f \in DOMAIN app \ {"board.h"} :
                app[f] = IF Givers(f) = {} THEN "vitis"
                         ELSE SourceItems[Latest(Givers(f))].name
    /\ pc = "done" /\ (\A kind \in Needs : Named(kind) # {}) =>
          /\ input.mod = "relocate_to_local_mem" =>
                \A s \in Sections : section[s] = First("local")
          /\ input.mod = "relocate_to_ddr" => \A s \in Sections : section[s] = First("ddr")
          /\ input.mod = "code_local_bss_ddr" =>
                \A s \in Sections :
                    section[s] = First(IF s \in {".bss", ".heap"} THEN "ddr" ELSE "local")
=============================================================================
