--------------------------- MODULE MCWorkspaceFiles ---------------------------
(***************************************************************************)
(* The bare-metal flow and the files of its workspace, for TLC.  What is   *)
(* put into a workspace depends on nothing that the flow's stages change,  *)
(* so that each is checked by itself: `part' is the one a behaviour is     *)
(* about.  Of WorkspaceFiles' input each part in turn takes all values.    *)
(***************************************************************************)
EXTENDS MCStandaloneFlow, WorkspaceFiles

\* As in this repository: one target's patches, sources and linker mod.
Usual == [base |-> {<<"README">>, <<"fsbl", "src", "board.c">>},
          overlay |-> {}, install |-> {<<"fsbl", "src", "board.c">>, <<"fsbl", "data", "tcl">>},
          all |-> <<[name |-> "common", dir |-> {"main.c"}, listed |-> {"main.c"}]>>,
          arch |-> <<>>, override |-> <<>>,
          memories |-> <<<<"local", 1>>, <<"ddr", 1>>>>,
          script |-> [s \in Sections |-> IF s = ".text" THEN <<"local", 1>> ELSE <<"ddr", 1>>],
          mod |-> "relocate_to_ddr"]

\* Two components, up to two patches deep in src or in data, and another file.
Paths == {<<"lwip", "src", "contrib", "opts">>, <<"lwip", "src", "cmake">>,
          <<"lwip", "data", "yaml">>, <<"lwip", "doc">>, <<"fsbl", "src", "board.c">>}
ArchPaths == {<<"lwip", "src", "cmake">>, <<"lwip", "data", "yaml">>}
Trees(paths) == {[Usual EXCEPT !.base = b, !.overlay = o, !.install = i] :
             b \in {p \in SUBSET paths : Cardinality(p) <= 2}, o \in SUBSET ArchPaths, i \in SUBSET paths}

AppFiles == {"main.c", "board.h", "lscript.ld"}
\* Some of a directory's files are listed, or all, and one that it lacks.
Item(n, d) == {[name |-> n, dir |-> d, listed |-> l] : l \in ((SUBSET d) \ {{}}) \cup {AppFiles}}
SomeItems == Item("common", {"main.c", "board.h"}) \cup Item("mb", {"main.c", "lscript.ld"})
Entries(n) == UNION {[1..k -> SomeItems] : k \in 0..n}
Sources(common, own) ==
    {[Usual EXCEPT !.all = a, !.arch = b] : a \in Entries(common), b \in Entries(own)}
        \cup {[Usual EXCEPT !.override = <<o>>] : o \in Entries(own)}

Memories == {<<"local", 1>>, <<"ddr", 1>>, <<"ddr", 2>>, <<"other", 1>>}
Mods == {"none", "relocate_to_local_mem", "relocate_to_ddr", "code_local_bss_ddr"}
\* Of three memories, those with two of a kind.
Regions == {q \in UNION {[1..k -> Memories] : k \in 1..3} :
               IsInjective(q) /\ (Len(q) = 3 => {<<"ddr", 1>>, <<"ddr", 2>>} \subseteq Range(q))}
Scripts(mods) ==
    {[Usual EXCEPT !.memories = r[1], !.script = r[2], !.mod = d] :
        r \in {r \in Regions \X [Sections -> Memories] : Range(r[2]) \subseteq ToSet(r[1])},
        d \in mods}

AllInputs == Trees(Paths) \cup Sources(1, 2) \cup Scripts(Mods)
VitisFiles == {"lscript.ld", "CMakeLists.txt"}

VARIABLE part

OneInput == CHOOSE i \in Inputs : i.mod = "relocate_to_ddr"
OneDesign == CHOOSE d \in Designs : d.family = "microblaze"
FlowInit ==
    \/ part = "stages" /\ input = OneInput /\ Init /\ FilesInit
    \/ part = "files" /\ design = OneDesign /\ Init /\ FilesInit
FlowNext ==
    \/ part = "stages" /\ Next /\ UNCHANGED <<fileVars, part>>
    \/ part = "files" /\ FilesNext /\ UNCHANGED <<vars, part>>
FlowSpec == FlowInit /\ [][FlowNext]_<<vars, fileVars, part>>
=============================================================================
