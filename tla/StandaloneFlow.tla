---------------------------- MODULE StandaloneFlow ----------------------------
(***************************************************************************)
(* The bare-metal flow of one target in build.py: the Vivado stages, the   *)
(* Vitis workspace (build-vitis.py), the boot files (make-boot.py) and the *)
(* zip, each skipped when modification times say that it is up to date;    *)
(* cleaning, and clean --keep-boot, after which everything must still read *)
(* as built.                                                               *)
(*                                                                         *)
(* Commands hold the target's lock (BuildLock), so `run' is the one place  *)
(* in the code.  Any tool may fail; a run may be killed at the steps in    *)
(* Dies.  A plain clean takes no lock and is assumed not to be aimed at a  *)
(* target being built, nor is the IDE.                                     *)
(*                                                                         *)
(* A file's content is the build of the XSA it comes from.  Modification   *)
(* times are compared, never read: only the comparison is kept.            *)
(* Definitions marked "Faulty" are mistakes the code does not make.       *)
(***************************************************************************)
EXTENDS Integers, Sequences

CONSTANTS
    Designs,     \* the targets: FAMILY of the group, cores in the XSA's .hwh files
    MaxBuilds,   \* bound: implementation runs
    MaxRevs,     \* bound: rebuilds of the application in the IDE
    None,        \* no such file
    Partial,     \* a zip whose writing was cut short
    Dies,        \* steps at which a run may be killed
    PlanMayAge   \* commands may run while --keep-boot waits for its answer

\* The steps of build-vitis.py, each named for what it adds to the workspace.
VitisSteps == {"embeddedsw", "platform", "bsp", "xpfm", "app", "sources", "linker", "elf"}
Steps == VitisSteps \cup
    {"idle", "project", "xsa", "newxsa", "implement", "export", "standalone", "workspace",
     "compare", "makeboot", "bootgen", "copyelf", "package", "zip", "prune"}
StageNames == {"project", "xsa", "standalone", "package"}

ASSUME BoundAssumption == MaxBuilds \in Nat /\ MaxRevs \in Nat
ASSUME DesignAssumption ==
    Designs \subseteq [family : {"microblaze", "zynqmp"},
                       top : SUBSET {"microblaze", "zynq_ultra_ps_e"},
                       subs : SUBSET {"microblaze", "zynq_ultra_ps_e"}]
ASSUME NoneAssumption ==
    /\ None # Partial
    /\ None \notin [made : SUBSET VitisSteps, hw : Nat, rev : Nat] \cup [hw : Nat, rev : Nat]
ASSUME SwitchAssumption == Dies \subseteq Steps \ {"idle"} /\ PlanMayAge \in BOOLEAN

VARIABLES
    design,   \* the target
    project,  \* the Vivado project: "none", "broken" or "made"
    bit,      \* impl_1's bitstream, by its build; 0: absent
    xsa,      \* the XSA, by the build it exports; 0: absent
    built,    \* implementation runs so far
    ws,       \* the Vitis workspace
    boot,     \* the boot directory
    zip,      \* bootimages/..._standalone-....zip
    older,    \* <<f, g>>: f was modified before g
    run,      \* the run's place in the code
    stages,   \* the stages it has still to run
    plan,     \* what a --keep-boot clean still is to delete
    killed    \* the workspace is what a kill left (history)

vivado == <<project, bit, xsa, built>>
vitis == <<ws, boot, zip>>
vars == <<design, vivado, vitis, older, run, stages, plan, killed>>

\* A workspace: the XSA it is made for, the parts there are, the .elf's revision.
Workspaces == [made : SUBSET VitisSteps, hw : 1..MaxBuilds, rev : 0..MaxRevs]
\* The boot file's bitstream (0: no boot file), and the application: inside
\* BOOT.BIN on a Zynq, an .elf beside the .bit on a MicroBlaze.
Apps == [hw : 1..MaxBuilds, rev : 0..MaxRevs]
Boots == [bit : 0..MaxBuilds, app : Apps \cup {None}]
NoBoot == [bit |-> 0, app |-> None]
App == [hw |-> ws.hw, rev |-> ws.rev]

HasXpfm == ws # None /\ "xpfm" \in ws.made
HasElf == ws # None /\ "elf" \in ws.made
HasBoot == boot.bit # 0
WholeBoot == HasBoot /\ boot.app # None

\* The files whose times the code compares; "copy" is a MicroBlaze's copied .elf.
Files == {"bit", "xsa", "ws", "elf", "boot", "copy", "zip"}
Present(f) ==
    CASE f = "bit" -> bit # 0
      [] f = "xsa" -> xsa # 0
      [] f = "ws" -> ws # None
      [] f = "elf" -> HasElf
      [] f = "boot" -> HasBoot
      [] f = "copy" -> design.family = "microblaze" /\ boot.app # None
      [] f = "zip" -> zip # None
Without(F) == {c \in older : c[1] \notin F /\ c[2] \notin F}
\* f is written now.
Touched(f) == Without({f}) \cup {<<g, f>> : g \in {h \in Files \ {f} : Present(h)}}
\* f gets g's modification time, as shutil.copy2 gives it.
Copied(f, g) ==
    Without({f}) \cup {<<h, f>> : h \in {h \in Files \ {f} : <<h, g>> \in older}}
                 \cup {<<f, h>> : h \in {h \in Files \ {f} : <<g, h>> \in older}}

TypeOK ==
    /\ design \in Designs
    /\ project \in {"none", "broken", "made"}
    /\ bit \in 0..MaxBuilds /\ xsa \in 0..MaxBuilds /\ built \in 0..MaxBuilds
    /\ ws \in Workspaces \cup {None}
    /\ boot \in Boots
    /\ zip \in Boots \cup {None, Partial}
    /\ older \subseteq Files \X Files
    /\ run \in Steps /\ stages \in Seq(StageNames)
    /\ plan \subseteq {"project", "ws"}
    /\ killed \in BOOLEAN

Init ==
    /\ design \in Designs
    /\ project = "none" /\ bit = 0 /\ xsa = 0 /\ built = 0
    /\ ws = None /\ boot = NoBoot /\ zip = None
    /\ older = {}
    /\ run = "idle" /\ stages = <<>> /\ plan = {} /\ killed = FALSE

----------------------------------------------------------------------------
(* run_target.                                                             *)

StagesFor == {<<"project">>, <<"xsa">>, <<"xsa", "standalone">>, <<"package">>,
              <<"xsa", "standalone", "package">>}

\* Nothing happens to the target while a --keep-boot is confirmed.
Unplanned == run = "idle" /\ (plan = {} \/ PlanMayAge)

Command ==
    /\ Unplanned
    /\ \E s \in StagesFor : run' = Head(s) /\ stages' = Tail(s)
    /\ UNCHANGED <<design, vivado, vitis, older, plan, killed>>

\* The stage is over: on to the next.
StageOver ==
    IF stages = <<>> THEN run' = "idle" /\ UNCHANGED stages
    ELSE run' = Head(stages) /\ stages' = Tail(stages)
GoTo(step) == run' = step /\ UNCHANGED stages
\* BuildError: the command is over.
Fail == run' = "idle" /\ stages' = <<>>

\* The lock goes, the files stay.
Kill ==
    /\ run \in Dies /\ Fail
    /\ killed' = (killed \/ run \in VitisSteps)
    /\ plan' = IF run = "prune" THEN {} ELSE plan
    /\ UNCHANGED <<design, vivado, vitis, older>>

----------------------------------------------------------------------------
(* stage_project, stage_xsa.                                               *)

\* A creation that fails may leave an .xpr, and that passes for the project.
Project ==
    /\ run \in {"project", "newxsa"}
    /\ \/ /\ project' = IF project = "none" THEN "made" ELSE project
          /\ IF run = "project" THEN StageOver ELSE GoTo("implement")
       \/ project = "none" /\ project' \in {"none", "broken"} /\ Fail
    /\ UNCHANGED <<design, bit, xsa, built, vitis, older, plan, killed>>

Xsa ==
    /\ run = "xsa"
    /\ IF xsa # 0 THEN StageOver ELSE GoTo("newxsa")
    /\ UNCHANGED <<design, vivado, vitis, older, plan, killed>>

\* xsa.tcl: a complete impl_1 is not run again.
Implement ==
    /\ run = "implement"
    /\ \/ /\ project = "made" /\ bit # 0
          /\ GoTo("export") /\ UNCHANGED <<bit, built, older>>
       \/ /\ project = "made" /\ bit = 0 /\ built < MaxBuilds
          /\ built' = built + 1 /\ bit' = built + 1 /\ older' = Touched("bit")
          /\ GoTo("export")
       \/ Fail /\ UNCHANGED <<bit, built, older>>
    /\ UNCHANGED <<design, project, xsa, vitis, plan, killed>>

Export ==
    /\ run = "export"
    /\ \/ xsa' = bit /\ older' = Touched("xsa") /\ StageOver
       \/ Fail /\ UNCHANGED <<xsa, older>>
    /\ UNCHANGED <<design, project, bit, built, vitis, plan, killed>>

----------------------------------------------------------------------------
(* stage_bootfile, stage_workspace.                                        *)

\* Faulty: the .elf is always asked for.
BootNotKept == HasBoot /\ HasElf /\ ws = None
\* The boot file of a cleaned workspace is up to date unless the XSA is newer.
BootKept == HasBoot /\ ws = None /\ (xsa # 0 => <<"boot", "xsa">> \notin older)
\* With a workspace, unless the .elf is newer.
BootCurrent == HasBoot /\ HasElf /\ <<"boot", "elf">> \notin older

Standalone ==
    /\ run = "standalone"
    /\ IF BootKept THEN StageOver ELSE GoTo("workspace")
    /\ UNCHANGED <<design, vivado, vitis, older, plan, killed>>

\* Faulty: any workspace will do.
NeverOutdated == FALSE
Outdated == <<"ws", "xsa">> \in older

\* build-vitis.py begins by making the directory, for the XSA there is.
Workspace ==
    /\ run = "workspace" /\ xsa # 0
    /\ \/ /\ ws # None
          /\ IF ~Outdated /\ HasXpfm /\ HasElf THEN GoTo("compare") ELSE Fail
          /\ UNCHANGED <<ws, older>>
       \/ /\ ws = None
          /\ ws' = [made |-> {}, hw |-> xsa, rev |-> 0]
          /\ older' = Touched("ws")
          /\ GoTo("embeddedsw")
    /\ UNCHANGED <<design, vivado, boot, zip, plan, killed>>

Compare ==
    /\ run = "compare"
    /\ IF BootCurrent THEN StageOver ELSE GoTo("makeboot")
    /\ UNCHANGED <<design, vivado, vitis, older, plan, killed>>

----------------------------------------------------------------------------
(* build-vitis.py.                                                         *)

\* detect_arch_and_cpu_from_xsa, of either script: a MicroBlaze comes first.
Detected(cores) ==
    IF "microblaze" \in cores THEN "microblaze"
    ELSE IF "zynq_ultra_ps_e" \in cores THEN "zynqmp" ELSE None

\* One step; `times' are the modification times it leaves.
Make(part, times, next) ==
    /\ run = part /\ Detected(design.top) # None
    /\ ws' = [ws EXCEPT !.made = @ \cup {part}]
    /\ older' = times
    /\ GoTo(next)
    /\ UNCHANGED <<design, vivado, boot, zip, plan, killed>>

SetupEmbeddedsw == Make("embeddedsw", Touched("ws"), "platform")
CreatePlatform == Make("platform", Touched("ws"), "bsp")
ConfigureBsp == Make("bsp", older, "xpfm")
BuildPlatform == Make("xpfm", older, "app")
CreateApp == Make("app", Touched("ws"), "sources")
CopySources == Make("sources", older, "linker")
SetLinker == Make("linker", older, "elf")
BuildApp == Make("elf", Touched("elf"), "compare")

\* Faulty: what a failed build has made is left there.
LeaveWorkspace == UNCHANGED <<ws, older, killed>>
RemoveWorkspace == ws' = None /\ older' = Without({"ws", "elf"}) /\ killed' = FALSE

VitisFails ==
    /\ run \in VitisSteps
    /\ RemoveWorkspace /\ Fail
    /\ UNCHANGED <<design, vivado, boot, zip, plan>>

\* The application is rebuilt in the IDE.
RebuildApp ==
    /\ Unplanned /\ HasElf /\ ws.rev < MaxRevs
    /\ ws' = [ws EXCEPT !.rev = @ + 1]
    /\ older' = Touched("elf")
    /\ UNCHANGED <<design, vivado, boot, zip, run, stages, plan, killed>>

----------------------------------------------------------------------------
(* make-boot.py.  The .bif it writes first is left out.                    *)

MakeBoot(arch) == run = "makeboot" /\ Detected(design.top \cup design.subs) = arch
DesignSame == UNCHANGED <<design, vivado, ws, zip, plan, killed>>

\* A tool is missing or fails; it has written nothing.
MakeBootFails ==
    /\ run = "makeboot" /\ Fail
    /\ UNCHANGED <<boot, older>> /\ DesignSame

\* BOOT.BIN while bootgen writes it, and written.
StartBootgen ==
    /\ MakeBoot("zynqmp")
    /\ boot' = [bit |-> ws.hw, app |-> None]
    /\ older' = Touched("boot")
    /\ GoTo("bootgen") /\ DesignSame
Bootgen ==
    /\ run = "bootgen"
    /\ boot' = [boot EXCEPT !.app = App]
    /\ older' = Touched("boot")
    /\ StageOver /\ DesignSame

\* combine_bit_elf is false: the .bit and the .elf are copied.
CopyBit ==
    /\ MakeBoot("microblaze")
    /\ boot' = [boot EXCEPT !.bit = bit]
    /\ older' = Copied("boot", "bit")
    /\ GoTo("copyelf") /\ DesignSame
CopyElf ==
    /\ run = "copyelf"
    /\ boot' = [boot EXCEPT !.app = App]
    /\ older' = Copied("copy", "elf")
    /\ StageOver /\ DesignSame

----------------------------------------------------------------------------
(* stage_bootimage.                                                        *)

\* Faulty: any zip will do, as it once did.
ZipCurrentAny == zip # None
ZipCurrent ==
    /\ zip # None
    /\ HasBoot => <<"zip", "boot">> \notin older /\ <<"zip", "copy">> \notin older

Package ==
    /\ run = "package"
    /\ IF ZipCurrent THEN StageOver /\ UNCHANGED <<zip, older>>
       ELSE IF HasBoot
            THEN zip' = Partial /\ older' = Touched("zip") /\ GoTo("zip")
            ELSE Fail /\ UNCHANGED <<zip, older>>
    /\ UNCHANGED <<design, vivado, ws, boot, plan, killed>>

ZipWritten ==
    /\ run = "zip"
    /\ zip' = boot /\ older' = Touched("zip")
    /\ StageOver
    /\ UNCHANGED <<design, vivado, ws, boot, plan, killed>>

----------------------------------------------------------------------------
(* clean: the paths of its scope are deleted one by one.  By hand too.     *)

CleanProject ==
    /\ Unplanned /\ (project # "none" \/ bit # 0)
    /\ project' = "none" /\ bit' = 0 /\ xsa' = 0
    /\ older' = Without({"bit", "xsa"})
    /\ UNCHANGED <<design, built, vitis, run, stages, plan, killed>>

CleanWorkspace ==
    /\ Unplanned /\ ws # None
    /\ RemoveWorkspace
    /\ UNCHANGED <<design, vivado, boot, zip, run, stages, plan>>

CleanBoot ==
    /\ Unplanned /\ boot # NoBoot
    /\ boot' = NoBoot /\ older' = Without({"boot", "copy"})
    /\ UNCHANGED <<design, vivado, ws, zip, run, stages, plan, killed>>

CleanZip ==
    /\ Unplanned /\ zip # None
    /\ zip' = None /\ older' = Without({"zip"})
    /\ UNCHANGED <<design, vivado, ws, boot, run, stages, plan, killed>>

----------------------------------------------------------------------------
(* clean --keep-boot.                                                      *)

\* Faulty: everything goes.
KeptNone(entry) == FALSE
\* prune_paths keeps the XSA and impl_1's bitstream of a project; the rest
\* of it, and a workspace, go only when there is something to keep.
Kept(entry) == IF entry = "project" THEN xsa = 0 ELSE ~HasBoot
Exists(entry) == IF entry = "project" THEN project # "none" ELSE ws # None
Doomed(entry) == Exists(entry) /\ ~Kept(entry)

PlanKeepBoot ==
    /\ plan = {} /\ run # "prune" /\ (run = "idle" \/ PlanMayAge)
    /\ plan' = {e \in {"project", "ws"} : Doomed(e)}
    /\ plan' # {}
    /\ UNCHANGED <<design, vivado, vitis, older, run, stages, killed>>

\* No, or yes and the lock is had.
Confirm ==
    /\ run = "idle" /\ plan # {}
    /\ \/ plan' = {} /\ UNCHANGED run
       \/ run' = "prune" /\ UNCHANGED plan
    /\ UNCHANGED <<design, vivado, vitis, older, stages, killed>>

\* remove_paths, in the plan's order: a path that has gone meanwhile ends it.
FirstOf(entries) == IF "project" \in entries THEN "project" ELSE "ws"
RemovePlanned ==
    /\ run = "prune" /\ plan # {}
    /\ project' = IF FirstOf(plan) = "project" THEN "none" ELSE project
    /\ IF FirstOf(plan) = "ws" THEN RemoveWorkspace ELSE UNCHANGED <<ws, older, killed>>
    /\ plan' = IF Exists(FirstOf(plan)) THEN plan \ {FirstOf(plan)} ELSE {}
    /\ run' = IF plan' = {} THEN "idle" ELSE "prune"
    /\ UNCHANGED <<design, bit, xsa, built, boot, zip, stages>>

----------------------------------------------------------------------------

VivadoStage == Project \/ Xsa \/ Implement \/ Export
BuildVitis ==
    \/ SetupEmbeddedsw \/ CreatePlatform \/ ConfigureBsp \/ BuildPlatform
    \/ CreateApp \/ CopySources \/ SetLinker \/ BuildApp \/ VitisFails
BootStage ==
    \/ Standalone \/ Workspace \/ Compare \/ MakeBootFails \/ StartBootgen
    \/ Bootgen \/ CopyBit \/ CopyElf
Clean == CleanProject \/ CleanWorkspace \/ CleanBoot \/ CleanZip
KeepBoot == PlanKeepBoot \/ Confirm \/ RemovePlanned
Next ==
    \/ Command \/ Kill \/ VivadoStage \/ BuildVitis \/ BootStage
    \/ Package \/ ZipWritten \/ RebuildApp \/ Clean \/ KeepBoot

Spec == Init /\ [][Next]_vars

----------------------------------------------------------------------------
\* From the build of the workspace on, what a boot file is made from is of the
\* XSA there is: a workspace that no later XSA has outdated, the bitstream of
\* impl_1, and the boot file while it is written.
MadeForXsa ==
    /\ TypeOK
    /\ xsa # 0 => bit = xsa
    /\ run \in {"newxsa", "implement", "export"} => xsa = 0
    /\ run = "export" => bit # 0
    /\ run \in VitisSteps \cup {"compare", "makeboot", "bootgen", "copyelf"} =>
          ws # None /\ xsa # 0 /\ ws.hw = xsa
    /\ run \in {"bootgen", "copyelf"} => boot.bit = xsa
    /\ ws # None /\ xsa # 0 /\ <<"ws", "xsa">> \notin older => ws.hw = xsa

\* The boot file is a product of the XSA (BuiltFrom): made only from the one
\* there is, whatever failed, was killed or was cleaned before.
BootProduct == IF WholeBoot /\ boot.app.hw = boot.bit THEN boot.bit ELSE 0
Boot == INSTANCE BuiltFrom WITH source <- xsa, product <- BootProduct
BootBuiltFromXsa == Boot!Spec

\* stage_bootfile's "exists" and "up to date" are true: the boot file is
\* whole, of the present XSA and, with a workspace, of its present .elf.
SkipsAreTrue ==
    (run = "standalone" /\ BootKept) \/ (run = "compare" /\ BootCurrent) =>
        /\ WholeBoot /\ boot.bit = xsa /\ boot.app.hw = xsa
        /\ ws # None => boot.app = App

\* keep_boot_plan: "'status' / 'package' / 'all' still see it as built": with
\* the workspace gone, a whole boot file of the present XSA makes the stage skip.
AllIsNoOp ==
    run = "idle" /\ ws = None /\ WholeBoot /\ xsa # 0 /\ {boot.bit, boot.app.hw} = {xsa}
        => BootKept
\* True of BOOT.BIN.
KeptReadsAsBuilt == design.family = "zynqmp" => AllIsNoOp

\* _zip_current is true: such a zip holds the boot file there is.  Of
\* BOOT.BIN: a copied .bit is as old as the bitstream (see README).
ZipHoldsBoot ==
    design.family = "zynqmp" /\ run # "zip" /\ WholeBoot /\ ZipCurrent => zip = boot

\* "so the next run starts clean": only a kill, never a failed build, leaves
\* a workspace that the stage refuses to go on with.
OnlyKillsBlock == run = "idle" /\ ws # None /\ ~(HasXpfm /\ HasElf) => killed

\* Whatever failed or was cleaned, a workspace that is used is of the present
\* XSA, and one that must not be used was left by a kill.
WorkspaceTrue == MadeForXsa /\ OnlyKillsBlock

\* "an unfinished or failed build keeps its intermediates": --keep-boot
\* deletes a workspace only when its boot file exists, a project only when
\* its XSA does.
SparesUnfinished ==
    [][run = "prune" =>
        /\ project' # project => xsa # 0
        /\ ws' # ws => HasBoot]_vars
=============================================================================
