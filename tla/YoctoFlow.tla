------------------------------ MODULE YoctoFlow ------------------------------
(***************************************************************************)
(* The Yocto flow of one target in build.py: stage_yocto with its two      *)
(* freshness tests (the content stamp beside the images, the time stamp of *)
(* the configure marker), the packaging of its images, and the two ways of *)
(* cleaning up after it.                                                   *)
(*                                                                         *)
(* The user edits inputs at any time, in other terminals too.  Commands    *)
(* that build, and clean --keep-boot while it deletes, hold the target's   *)
(* lock (BuildLock), so `run' is the one place in the code; a run may die  *)
(* (a kill, a failing tool) at the steps in Dies.  The plan of a           *)
(* --keep-boot is made before its prompt, without the lock.  A plain clean *)
(* takes no lock and is assumed not to be aimed at a target being built.   *)
(*                                                                         *)
(* Contents are numbers: a larger one is a later one.  Modification times  *)
(* are compared, never read, so only the comparisons are kept.             *)
(* Definitions marked "Faulty" are mistakes the code does not make.       *)
(***************************************************************************)
EXTENDS Integers

CONSTANTS
    Confs,          \* bound: contents of local.conf.append, in the order it gets them
    NoConf,         \* those of them that stand for its absence
    Recipes,        \* bound: contents of the other inputs, in order
    MaxXsa,         \* bound: builds of the XSA
    MaxChanges,     \* bound: conf, recipe and XSA builds, summed
    None,           \* no such file
    Partial,        \* a zip whose writing was cut short
    Dies,           \* steps at which a run may die
    MayRaceMarker,  \* conf may be edited between configure-build.sh and the marker
    PlanMayAge      \* commands may run while --keep-boot waits for its answer

Steps == {"idle", "xsa", "check", "again", "handoff", "configure", "mark", "bitbake",
          "boot", "wic", "bmap", "stamp", "package", "zip", "prune"}

ASSUME BoundAssumption ==
    /\ Confs \subseteq Nat /\ NoConf \subseteq Confs /\ Recipes \subseteq Nat
    /\ MaxXsa \in Nat /\ MaxChanges \in Nat
ASSUME NoneAssumption ==
    None \notin Nat /\ None # Partial /\ None \notin [conf : Nat, xsa : Nat]
ASSUME SwitchAssumption ==
    /\ Dies \subseteq Steps
    /\ MayRaceMarker \in BOOLEAN /\ PlanMayAge \in BOOLEAN

VARIABLES
    conf,      \* what only configure reads: conf/local.conf.append
    recipe,    \* what bitbake itself reads: meta-user/, the overlay
    xsa,       \* the XSA, by its build; 0: absent
    built,     \* XSAs built so far
    hwXsa,     \* the copy in work/hw; 0: absent
    build,     \* build/conf: what it was configured from
    done,      \* configdone.txt exists
    deploy,    \* bitbake's results: what they were built from
    images,    \* images/linux: what each file was built from
    stamp,     \* .inputs-sha256
    zip,       \* bootimages/..._yocto-....zip: the files in it
    older,     \* <<f, g>>: f is older than g
    run,       \* the run's place in the code
    inputs,    \* stage_yocto's snapshot of its inputs, while it runs
    gather,    \* the command goes on to package
    plan,      \* what a --keep-boot clean still is to delete
    adopted    \* the stamp was not written by a build (history)

sources == <<conf, recipe>>
hardware == <<xsa, built>>
work == <<hwXsa, build, done, deploy>>
products == <<images, stamp, zip>>
local == <<inputs, gather>>
vars == <<sources, hardware, work, products, older, run, local, plan, adopted>>

\* The files of images/linux, in the order they are gathered: BOOT.BIN, the disk
\* image (with the root file system beside it), and the map of its blocks.
Products == {"boot", "wic", "bmap"}
\* yocto_products: those without which an image does not count as built.
Required == {"boot", "wic"}
Inputs == [conf |-> conf, recipe |-> recipe, xsa |-> xsa]

\* yocto_input_changes: the XSA counts only when both sides have one.
Changed(s, c) ==
    \/ s.conf # c.conf \/ s.recipe # c.recipe
    \/ s.xsa # 0 /\ c.xsa # 0 /\ s.xsa # c.xsa

Complete == \A p \in Required : images[p] # None
\* The zip takes the map too.
Packable == \A p \in Products : images[p] # None
UpToDate == Complete /\ stamp # None /\ ~Changed(stamp, Inputs)

\* The comparisons of modification times the code makes.
Compared == {<<"hwXsa", "xsa">>, <<"done", "hwXsa">>, <<"done", "conf">>, <<"zip", "images">>}
\* f is written now.
Touched(f) ==
    {c \in older : c[1] # f} \cup {c \in Compared : c[2] = f}

Records == [conf : Confs, recipe : Recipes, xsa : 0..MaxXsa]
TypeOK ==
    /\ conf \in Confs /\ recipe \in Recipes
    /\ {xsa, built, hwXsa} \subseteq 0..MaxXsa
    /\ build \in [conf : Confs, xsa : 0..MaxXsa] \cup {None}
    /\ {deploy, stamp, inputs} \subseteq Records \cup {None}
    /\ images \in [Products -> Records \cup {None}]
    /\ zip \in [Products -> Records \cup {None}] \cup {None, Partial}
    /\ older \subseteq Compared
    /\ run \in Steps /\ plan \subseteq {"build", "done", "hw"}
    /\ {done, gather, adopted} \subseteq BOOLEAN

Init ==
    /\ conf \in Confs /\ recipe \in Recipes
    /\ xsa = 0 /\ built = 0 /\ hwXsa = 0
    /\ build = None /\ done = FALSE /\ deploy = None
    /\ images = [p \in Products |-> None] /\ stamp = None /\ zip = None
    /\ older = {}
    /\ run = "idle" /\ inputs = None /\ gather = FALSE
    /\ plan = {} /\ adopted = FALSE

----------------------------------------------------------------------------
(* The user.  No edit brings an earlier content back (see README).         *)

EditConf ==
    /\ run = "mark" => MayRaceMarker
    /\ conf' \in {c \in Confs \ NoConf : c > conf}
    /\ conf' + recipe + built <= MaxChanges
    /\ older' = Touched("conf")
    /\ UNCHANGED <<recipe, hardware, work, products, run, local, plan, adopted>>

RemoveConf ==
    /\ conf \notin NoConf
    /\ conf' \in {c \in NoConf : c > conf}
    /\ conf' + recipe + built <= MaxChanges
    /\ UNCHANGED <<recipe, hardware, work, products, older, run, local, plan, adopted>>

EditRecipe ==
    /\ recipe' \in {r \in Recipes : r > recipe}
    /\ conf + recipe' + built <= MaxChanges
    /\ UNCHANGED <<conf, hardware, work, products, older, run, local, plan, adopted>>

----------------------------------------------------------------------------
(* run_target: the stages of a command, and its end.                       *)

\* Nothing happens to the target while a --keep-boot is confirmed.
Unplanned == run = "idle" /\ (plan = {} \/ PlanMayAge)

Build(package) ==
    /\ Unplanned
    /\ run' = "xsa" /\ gather' = package
    /\ UNCHANGED <<sources, hardware, work, products, older, inputs, plan, adopted>>

Yocto == Build(FALSE)
All == Build(TRUE)

Package ==
    /\ Unplanned
    /\ run' = "package"
    /\ UNCHANGED <<sources, hardware, work, products, older, local, plan, adopted>>

\* The yocto stage is over.
Over == IF gather THEN "package" ELSE "idle"

\* Killed, or a stage raises BuildError: the lock goes, the files stay.
Die ==
    /\ run \in Dies \ {"idle"}
    /\ run' = "idle"
    /\ plan' = IF run = "prune" THEN {} ELSE plan
    /\ inputs' = None /\ gather' = FALSE
    /\ UNCHANGED <<sources, hardware, work, products, older, adopted>>

----------------------------------------------------------------------------
(* stage_xsa, run as a stage of its own and by stage_yocto.                *)

Xsa ==
    /\ run \in {"xsa", "again"}
    /\ \/ xsa # 0 /\ UNCHANGED <<hardware, older>>
       \/ /\ xsa = 0 /\ built < MaxXsa /\ conf + recipe + built < MaxChanges
          /\ built' = built + 1 /\ xsa' = built + 1
          /\ older' = Touched("xsa")
    /\ run' = IF run = "xsa" THEN "check" ELSE "handoff"
    /\ UNCHANGED <<sources, work, products, local, plan, adopted>>

----------------------------------------------------------------------------
(* stage_yocto.                                                            *)

\* Images without a stamp are adopted; so is an XSA a stamp does not have.
Adopt ==
    /\ stamp' = Inputs /\ adopted' = TRUE
    /\ UNCHANGED <<images, zip>>

Check ==
    /\ run = "check"
    /\ \/ Complete /\ stamp = None /\ Adopt /\ run' = Over
       \/ UpToDate /\ stamp.xsa = 0 /\ xsa # 0 /\ Adopt /\ run' = Over
       \/ /\ UpToDate /\ ~(stamp.xsa = 0 /\ xsa # 0)
          /\ run' = Over /\ UNCHANGED <<products, adopted>>
       \/ /\ ~Complete \/ (stamp # None /\ ~UpToDate)
          /\ run' = "again" /\ UNCHANGED <<products, adopted>>
    /\ UNCHANGED <<sources, hardware, work, older, local, plan>>

\* Faulty: the inputs are read when the build is over.
StampLate == stamp' = Inputs
StampSnapshot == stamp' = inputs

\* Snapshot, workspace, and the XSA copied when the copy is older.
HandOff ==
    /\ run = "handoff" /\ xsa # 0
    /\ inputs' = Inputs
    /\ IF hwXsa = 0 \/ <<"hwXsa", "xsa">> \in older
       THEN hwXsa' = xsa /\ older' = Touched("hwXsa")
       ELSE UNCHANGED <<hwXsa, older>>
    /\ run' = "configure"
    /\ UNCHANGED <<sources, hardware, build, done, deploy, products, gather, plan, adopted>>

\* Faulty: the marker is compared with the XSA only.
ConfiguredForXsa == done /\ <<"done", "hwXsa">> \notin older
Configured ==
    /\ done /\ <<"done", "hwXsa">> \notin older
    /\ conf \notin NoConf => <<"done", "conf">> \notin older

Configure ==
    /\ run = "configure"
    /\ IF Configured
       THEN run' = "bitbake" /\ UNCHANGED build
       ELSE run' = "mark" /\ build' = [conf |-> conf, xsa |-> hwXsa]
    /\ UNCHANGED <<sources, hardware, hwXsa, done, deploy, products, older, local, plan, adopted>>

Mark ==
    /\ run = "mark"
    /\ done' = TRUE /\ older' = Touched("done")
    /\ run' = "bitbake"
    /\ UNCHANGED <<sources, hardware, hwXsa, build, deploy, products, local, plan, adopted>>

\* Without build/conf the script makes a default one, which knows no board.
Bitbake ==
    /\ run = "bitbake" /\ build # None
    /\ deploy' = [conf |-> build.conf, recipe |-> recipe, xsa |-> build.xsa]
    /\ run' = "boot"
    /\ UNCHANGED <<sources, hardware, hwXsa, build, done, products, older, local, plan, adopted>>

\* package-output.sh copies file by file.
Gather(p, next) ==
    /\ images' = [images EXCEPT ![p] = deploy]
    /\ older' = Touched("images")
    /\ run' = next
    /\ UNCHANGED <<sources, hardware, work, stamp, zip, local, plan, adopted>>
GatherBoot == run = "boot" /\ Gather("boot", "wic")
GatherWic == run = "wic" /\ Gather("wic", "bmap")
\* Copied if it was made; if not, one of an earlier build stays.
GatherBmap ==
    /\ run = "bmap"
    /\ \/ Gather("bmap", "stamp")
       \/ /\ run' = "stamp"
          /\ UNCHANGED <<sources, hardware, work, products, older, local, plan, adopted>>

\* A stamp that cannot be written is only warned about.
WriteStamp ==
    /\ run = "stamp"
    /\ \/ StampSnapshot /\ adopted' = FALSE
       \/ UNCHANGED <<stamp, adopted>>
    /\ run' = Over /\ inputs' = None
    /\ UNCHANGED <<sources, hardware, work, images, zip, older, gather, plan>>

----------------------------------------------------------------------------
(* stage_bootimage.                                                        *)

\* Faulty: any zip will do, as it once did.
ZipCurrentAny == zip # None
ZipCurrent == zip # None /\ (Packable => <<"zip", "images">> \notin older)

Zip ==
    /\ run = "package"
    /\ IF ~ZipCurrent /\ Packable
       THEN /\ zip' = Partial /\ older' = Touched("zip")
            /\ run' = "zip"
       ELSE run' = "idle" /\ UNCHANGED <<zip, older>>
    /\ gather' = FALSE
    /\ UNCHANGED <<sources, hardware, work, images, stamp, inputs, plan, adopted>>

ZipWritten ==
    /\ run = "zip"
    /\ zip' = images /\ older' = Touched("zip")
    /\ run' = "idle"
    /\ UNCHANGED <<sources, hardware, work, images, stamp, local, plan, adopted>>

----------------------------------------------------------------------------
(* clean.                                                                  *)

CleanXsa ==
    /\ Unplanned /\ xsa # 0
    /\ xsa' = 0
    /\ UNCHANGED <<sources, built, work, products, older, run, local, plan, adopted>>

CleanYocto ==
    /\ Unplanned
    /\ hwXsa' = 0 /\ build' = None /\ done' = FALSE /\ deploy' = None
    /\ images' = [p \in Products |-> None] /\ stamp' = None
    /\ UNCHANGED <<sources, hardware, zip, older, run, local, plan, adopted>>

CleanPackage ==
    /\ Unplanned /\ zip # None
    /\ zip' = None
    /\ UNCHANGED <<sources, hardware, work, images, stamp, older, run, local, plan, adopted>>

Exists(entry) == CASE entry = "build" -> build # None \/ deploy # None
                   [] entry = "done" -> done
                   [] entry = "hw" -> hwXsa # 0

\* Faulty: the marker stays.
PrunedButMarker == {e \in {"build", "hw"} : Exists(e)}
\* prune_paths keeps images/ and lists everything else.
Pruned == {e \in {"build", "done", "hw"} : Exists(e)}

\* keep_boot_plan: only of a target whose images are complete.
PlanKeepBoot ==
    /\ plan = {} /\ run # "prune" /\ (run = "idle" \/ PlanMayAge)
    /\ Complete
    /\ plan' = Pruned
    /\ UNCHANGED <<sources, hardware, work, products, older, run, local, adopted>>

\* The prompt is answered: no, or yes and the lock is had.
Confirm ==
    /\ run = "idle" /\ plan # {}
    /\ \/ plan' = {} /\ UNCHANGED run
       \/ run' = "prune" /\ UNCHANGED plan
    /\ UNCHANGED <<sources, hardware, work, products, older, local, adopted>>

\* remove_paths, by name: a path that has gone meanwhile is an error.
FirstOf(entries) ==
    IF "build" \in entries THEN "build" ELSE IF "done" \in entries THEN "done" ELSE "hw"
RemovePlanned ==
    /\ run = "prune" /\ plan # {}
    /\ IF Exists(FirstOf(plan))
       THEN /\ IF FirstOf(plan) = "build" THEN build' = None /\ deploy' = None
               ELSE UNCHANGED <<build, deploy>>
            /\ done' = (done /\ FirstOf(plan) # "done")
            /\ hwXsa' = IF FirstOf(plan) = "hw" THEN 0 ELSE hwXsa
            /\ plan' = plan \ {FirstOf(plan)}
       ELSE plan' = {} /\ UNCHANGED work
    /\ run' = IF plan' = {} THEN "idle" ELSE "prune"
    /\ UNCHANGED <<sources, hardware, products, older, local, adopted>>

----------------------------------------------------------------------------

User == EditConf \/ RemoveConf \/ EditRecipe
Command == Yocto \/ All \/ Package \/ Die
Stage == Xsa \/ Check \/ HandOff \/ Configure \/ Mark \/ Bitbake \/ GatherBoot
         \/ GatherWic \/ GatherBmap \/ WriteStamp \/ Zip \/ ZipWritten
Clean == CleanXsa \/ CleanYocto \/ CleanPackage \/ PlanKeepBoot \/ Confirm \/ RemovePlanned
Next == User \/ Command \/ Stage \/ Clean

Spec == Init /\ [][Next]_vars

----------------------------------------------------------------------------
\* "images up to date" is true: images that a build has stamped with the
\* present inputs were all built from them, whatever was edited while it ran,
\* and whatever died since.  But for the removal of local.conf.append, which
\* is a change of the inputs and yet no reason to configure again.
UpToDateIsTrue ==
    UpToDate /\ ~adopted =>
        \A p \in Required :
            ~Changed(images[p], IF conf \in NoConf
                                THEN [Inputs EXCEPT !.conf = images[p].conf] ELSE Inputs)

\* "yocto zip exists" is true: a zip no older than the three images it is made
\* of holds those images.
ZipHoldsImages == run # "zip" /\ ZipCurrent /\ Packable => zip = images

\* keep_boot_plan: with build/conf gone, a surviving marker would make a later
\* rebuild skip the configure step.  While the tree is deleted the marker goes
\* too, and nothing that is still to go has gone already.
MarkerMeansConfigured ==
    /\ TypeOK
    /\ done => build # None \/ (run = "prune" /\ "done" \in plan)
    /\ run = "mark" => build # None
    /\ plan # {} => run \in {"idle", "prune"}
    /\ \A e \in plan : Exists(e)
    /\ run = "prune" => plan # {}
    /\ "build" \in plan /\ done => "done" \in plan
=============================================================================
