------------------------ MODULE StandaloneFlowProofs ------------------------
(***************************************************************************)
(* Proofs about StandaloneFlow, for every target, number of builds, set of *)
(* steps at which a run may be killed, and also when commands run while a  *)
(* --keep-boot waits for its answer (but for SparesUnfinished); and about  *)
(* what build-vitis.py puts into the workspace (WorkspaceFiles): the       *)
(* repository, for any set of patches and install of its layout, and the   *)
(* sources and sections of the application, for any args.json and script.  *)
(***************************************************************************)
EXTENDS StandaloneFlow, WorkspaceFiles, DataLemmas

----------------------------------------------------------------------------
(* Modification times: only an export of the XSA outdates a workspace.     *)

\* Writing a file other than the two leaves their comparison as it was.
LEMMA TouchedKeeps ==
    ASSUME NEW f \in Files \ {"ws", "xsa"}
    PROVE  <<"ws", "xsa">> \in Touched(f) <=> <<"ws", "xsa">> \in older
  BY DEF Touched, Without, Files

\* A workspace there is becomes older than an XSA that is exported.
LEMMA ExportOutdates == ws # None => <<"ws", "xsa">> \in Touched("xsa")
  BY DEF Touched, Present, Files

\* Copying one of the boot files leaves the comparison as it was.
LEMMA CopiedKeeps ==
    ASSUME NEW f \in {"boot", "copy"}, NEW g \in Files
    PROVE  <<"ws", "xsa">> \in Copied(f, g) <=> <<"ws", "xsa">> \in older
  BY DEF Copied, Without, Files

\* Forgetting files without the two leaves it as it was.
LEMMA WithoutKeeps ==
    ASSUME NEW F, "ws" \notin F, "xsa" \notin F
    PROVE  <<"ws", "xsa">> \in Without(F) <=> <<"ws", "xsa">> \in older
  BY DEF Without

\* Comparisons are of files.
LEMMA OlderType ==
    ASSUME older \subseteq Files \X Files
    PROVE  /\ \A F : Without(F) \subseteq Files \X Files
           /\ \A f \in Files : Touched(f) \subseteq Files \X Files
           /\ \A f, g \in Files : Copied(f, g) \subseteq Files \X Files
<1>1. \A F : Without(F) \subseteq Files \X Files
  BY DEF Without
<1>2. ASSUME NEW f \in Files PROVE Touched(f) \subseteq Files \X Files
  BY <1>1 DEF Touched
<1>3. ASSUME NEW f \in Files, NEW g \in Files PROVE Copied(f, g) \subseteq Files \X Files
  <2>1. \A h \in Files : <<h, f>> \in Files \X Files /\ <<f, h>> \in Files \X Files
    OBVIOUS
  <2> QED BY <1>1, <2>1 DEF Copied
<1> QED BY <1>1, <1>2, <1>3

----------------------------------------------------------------------------
(* The stages of a command.                                                *)

\* The next stage, or the end of the command.
LEMMA StageOverType ==
    ASSUME stages \in Seq(StageNames), StageOver
    PROVE  run' \in {"idle"} \cup StageNames /\ stages' \in Seq(StageNames)
  BY DEF StageOver, StageNames

\* The end of the command.
LEMMA FailType == Fail => run' = "idle" /\ stages' \in Seq(StageNames)
<1>1. <<>> \in Seq(StageNames)
  OBVIOUS
<1> QED BY <1>1 DEF Fail

LEMMA CommandType ==
    ASSUME Command
    PROVE  run' \in StageNames /\ stages' \in Seq(StageNames)
  BY DEF Command, StagesFor, StageNames

----------------------------------------------------------------------------
(* The inductive invariant.                                                *)

LEMMA MadeInit == Init => MadeForXsa
<1> SUFFICES ASSUME Init PROVE MadeForXsa
  OBVIOUS
<1>1. NoBoot \in Boots
  BY BoundAssumption DEF NoBoot, Boots
<1>2. 0 \in 0..MaxBuilds
  BY BoundAssumption
<1>3. <<>> \in Seq(StageNames)
  OBVIOUS
<1>4. TypeOK
  BY <1>1, <1>2, <1>3 DEF Init, TypeOK, Steps
<1> QED BY <1>4 DEF Init, MadeForXsa, VitisSteps

\* What the invariant needs of a step outside build-vitis.py and make-boot.py.
LEMMA CommandStep ==
    ASSUME MadeForXsa, Command \/ Kill \/ Xsa \/ Standalone \/ Compare \/ PlanKeepBoot \/ Confirm
    PROVE  MadeForXsa'
<1> USE DEF MadeForXsa, TypeOK, vivado, vitis
<1>1. CASE Command
  <2>1. run' \in StageNames /\ stages' \in Seq(StageNames)
    BY <1>1, CommandType
  <2>2. UNCHANGED <<design, project, bit, xsa, built, ws, boot, zip, older, plan, killed>>
    BY <1>1 DEF Command
  <2>3. TypeOK'
    BY <2>1, <2>2 DEF StageNames, Steps
  <2> QED BY <2>1, <2>2, <2>3 DEF StageNames, VitisSteps
<1>2. CASE Kill
  <2>1. killed' \in BOOLEAN
    BY <1>2 DEF Kill
  <2> QED BY <1>2, <2>1, FailType DEF Kill, Steps, VitisSteps
<1>3. CASE Xsa
  BY <1>3, StageOverType DEF Xsa, GoTo, StageNames, Steps, VitisSteps
<1>4. CASE Standalone
  BY <1>4, StageOverType DEF Standalone, GoTo, StageNames, Steps, VitisSteps
<1>5. CASE Compare
  BY <1>5, StageOverType DEF Compare, GoTo, StageNames, Steps, VitisSteps
<1>6. CASE PlanKeepBoot
  BY <1>6 DEF PlanKeepBoot
<1>7. CASE Confirm
  BY <1>7 DEF Confirm, Steps, VitisSteps
<1> QED BY <1>1, <1>2, <1>3, <1>4, <1>5, <1>6, <1>7

\* The XSA is exported from impl_1's bitstream, and only when there is none.
LEMMA VivadoStep ==
    ASSUME MadeForXsa, Project \/ Implement \/ Export
    PROVE  MadeForXsa'
<1> USE DEF MadeForXsa, TypeOK, vivado, vitis
<1>1. CASE Project
  BY <1>1, StageOverType, FailType DEF Project, GoTo, StageNames, Steps, VitisSteps
<1>2. CASE Implement
  <2>1. older' \subseteq Files \X Files /\ (<<"ws", "xsa">> \in older' <=> <<"ws", "xsa">> \in older)
    BY <1>2, OlderType, TouchedKeeps DEF Implement, Files
  <2>2. UNCHANGED <<design, project, xsa, ws, boot, zip, plan, killed>>
    BY <1>2 DEF Implement
  <2>3. run' \in {"export", "idle"} /\ stages' \in Seq(StageNames)
    BY <1>2, FailType DEF Implement, GoTo
  <2>4. bit' \in 0..MaxBuilds /\ built' \in 0..MaxBuilds
    BY <1>2, BoundAssumption DEF Implement
  <2>5. run' = "export" => bit' # 0
    BY <1>2, BoundAssumption DEF Implement, GoTo, Fail
  <2>6. xsa = 0
    BY <1>2 DEF Implement
  <2> QED BY <2>1, <2>2, <2>3, <2>4, <2>5, <2>6 DEF Steps, VitisSteps
<1>3. CASE Export
  <2>1. CASE Fail /\ UNCHANGED <<xsa, older>>
    BY <1>3, <2>1, FailType DEF Export, Steps, VitisSteps
  <2>2. CASE xsa' = bit /\ older' = Touched("xsa") /\ StageOver
    <3>1. older' \subseteq Files \X Files
      BY <2>2, OlderType DEF Files
    <3>2. ws # None => <<"ws", "xsa">> \in older'
      BY <2>2, ExportOutdates
    <3> QED BY <1>3, <2>2, <3>1, <3>2, StageOverType DEF Export, StageNames, Steps, VitisSteps
  <2> QED BY <1>3, <2>1, <2>2 DEF Export
<1> QED BY <1>1, <1>2, <1>3

\* A workspace is begun for the XSA there is, and one that is used again was.
LEMMA WorkspaceStep ==
    ASSUME MadeForXsa, Workspace
    PROVE  MadeForXsa'
<1> USE DEF MadeForXsa, TypeOK, vivado, vitis
<1>1. older' \subseteq Files \X Files
  BY OlderType DEF Workspace, Files
<1>2. CASE ws # None
  BY <1>1, <1>2, FailType DEF Workspace, Outdated, GoTo, Steps, VitisSteps
<1>3. CASE ws = None
  <2>1. ws' = [made |-> {}, hw |-> xsa, rev |-> 0]
    BY <1>3 DEF Workspace
  <2>2. ws' \in Workspaces /\ ws'.hw = xsa
    BY <2>1, BoundAssumption DEF Workspace, Workspaces, VitisSteps
  <2>3. ws' # None
    BY <2>1, NoneAssumption, BoundAssumption DEF VitisSteps
  <2> QED BY <1>1, <1>3, <2>2, <2>3 DEF Workspace, GoTo, Steps, VitisSteps
<1> QED BY <1>2, <1>3

\* Each step of build-vitis.py adds a part and leaves the XSA it is made for.
LEMMA MakeStep ==
    ASSUME MadeForXsa, NEW part \in VitisSteps, NEW times,
           NEW next \in VitisSteps \cup {"compare"},
           times \subseteq Files \X Files, Make(part, times, next)
    PROVE  MadeForXsa'
<1> USE DEF MadeForXsa, TypeOK, vivado
<1>1. ws \in Workspaces /\ ws # None /\ xsa # 0 /\ ws.hw = xsa
  BY DEF Make
<1>2. ws' = [ws EXCEPT !.made = @ \cup {part}]
  BY DEF Make
<1>3. ws' \in Workspaces /\ ws'.hw = xsa
  BY <1>1, <1>2 DEF Workspaces
<1>4. ws' # None
  BY <1>3, NoneAssumption, BoundAssumption DEF Workspaces
<1> QED BY <1>1, <1>3, <1>4 DEF Make, GoTo, Steps, VitisSteps

LEMMA BuildVitisStep ==
    ASSUME MadeForXsa, BuildVitis
    PROVE  MadeForXsa'
<1>1. older \subseteq Files \X Files
  BY DEF MadeForXsa, TypeOK
<1>2. Touched("ws") \subseteq Files \X Files /\ Touched("elf") \subseteq Files \X Files
  BY <1>1, OlderType DEF Files
<1>3. ASSUME NEW part \in VitisSteps, NEW times, NEW next \in VitisSteps \cup {"compare"},
             times \subseteq Files \X Files, Make(part, times, next)
      PROVE  MadeForXsa'
  BY <1>3, MakeStep
<1>4. CASE SetupEmbeddedsw
  BY <1>2, <1>3, <1>4 DEF SetupEmbeddedsw, VitisSteps
<1>5. CASE CreatePlatform
  BY <1>2, <1>3, <1>5 DEF CreatePlatform, VitisSteps
<1>6. CASE ConfigureBsp
  BY <1>1, <1>3, <1>6 DEF ConfigureBsp, VitisSteps
<1>7. CASE BuildPlatform
  BY <1>1, <1>3, <1>7 DEF BuildPlatform, VitisSteps
<1>8. CASE CreateApp
  BY <1>2, <1>3, <1>8 DEF CreateApp, VitisSteps
<1>9. CASE CopySources
  BY <1>1, <1>3, <1>9 DEF CopySources, VitisSteps
<1>10. CASE SetLinker
  BY <1>1, <1>3, <1>10 DEF SetLinker, VitisSteps
<1>11. CASE BuildApp
  BY <1>2, <1>3, <1>11 DEF BuildApp, VitisSteps
<1>12. CASE VitisFails
  <2>1. Without({"ws", "elf"}) \subseteq Files \X Files
    BY <1>1, OlderType
  <2> QED BY <1>12, <2>1, FailType
          DEF VitisFails, RemoveWorkspace, MadeForXsa, TypeOK, vivado, Steps, VitisSteps
<1> QED BY <1>4, <1>5, <1>6, <1>7, <1>8, <1>9, <1>10, <1>11, <1>12 DEF BuildVitis

\* The boot files are made of a workspace for the XSA and of its bitstream.
LEMMA BootStep ==
    ASSUME MadeForXsa, MakeBootFails \/ StartBootgen \/ Bootgen \/ CopyBit \/ CopyElf
    PROVE  MadeForXsa'
<1> USE DEF MadeForXsa, TypeOK, DesignSame, vivado
<1>1. CASE MakeBootFails
  BY <1>1, FailType DEF MakeBootFails, Steps, VitisSteps
<1>2. ws # None => App \in Apps
  BY DEF App, Apps, Workspaces
<1>3. boot.bit \in 0..MaxBuilds /\ boot.app \in Apps \cup {None}
  BY DEF Boots
<1>4. \A b \in 0..MaxBuilds, a \in Apps \cup {None} : [bit |-> b, app |-> a] \in Boots
  BY DEF Boots
<1>5. /\ Touched("boot") \subseteq Files \X Files
      /\ <<"ws", "xsa">> \in Touched("boot") <=> <<"ws", "xsa">> \in older
  BY OlderType, TouchedKeeps DEF Files
<1>6. CASE StartBootgen
  <2>1. ws.hw = xsa /\ xsa \in 0..MaxBuilds
    BY <1>6 DEF StartBootgen, MakeBoot
  <2>2. boot' = [bit |-> xsa, app |-> None]
    BY <1>6, <2>1 DEF StartBootgen
  <2>3. boot' \in Boots /\ boot'.bit = xsa
    BY <1>4, <2>1, <2>2
  <2> QED BY <1>5, <1>6, <2>3 DEF StartBootgen, MakeBoot, GoTo, Steps, VitisSteps
<1>7. CASE Bootgen
  <2>1. boot' = [boot EXCEPT !.app = App] /\ ws # None
    BY <1>7 DEF Bootgen
  <2>2. boot' \in Boots
    BY <1>2, <2>1 DEF Boots
  <2> QED BY <1>5, <1>7, <2>2, StageOverType DEF Bootgen, StageNames, Steps, VitisSteps
<1>8. CASE CopyBit
  <2>1. boot' = [boot EXCEPT !.bit = bit] /\ bit = xsa
    BY <1>8 DEF CopyBit, MakeBoot
  <2>2. boot' \in Boots /\ boot'.bit = xsa
    BY <2>1 DEF Boots
  <2>3. /\ older' \subseteq Files \X Files
        /\ <<"ws", "xsa">> \in older' <=> <<"ws", "xsa">> \in older
    BY <1>8, OlderType, CopiedKeeps DEF CopyBit, Files
  <2> QED BY <1>8, <2>2, <2>3 DEF CopyBit, MakeBoot, GoTo, Steps, VitisSteps
<1>9. CASE CopyElf
  <2>1. boot' = [boot EXCEPT !.app = App] /\ ws # None
    BY <1>9 DEF CopyElf
  <2>2. boot' \in Boots
    BY <1>2, <2>1 DEF Boots
  <2>3. /\ older' \subseteq Files \X Files
        /\ <<"ws", "xsa">> \in older' <=> <<"ws", "xsa">> \in older
    BY <1>9, OlderType, CopiedKeeps DEF CopyElf, Files
  <2> QED BY <1>9, <2>2, <2>3, StageOverType DEF CopyElf, StageNames, Steps, VitisSteps
<1> QED BY <1>1, <1>6, <1>7, <1>8, <1>9

LEMMA ZipStep ==
    ASSUME MadeForXsa, Package \/ ZipWritten
    PROVE  MadeForXsa'
<1> USE DEF MadeForXsa, TypeOK, vivado
<1>1. /\ Touched("zip") \subseteq Files \X Files
      /\ <<"ws", "xsa">> \in Touched("zip") <=> <<"ws", "xsa">> \in older
  BY OlderType, TouchedKeeps DEF Files
<1>2. CASE Package
  BY <1>1, <1>2, StageOverType, FailType DEF Package, GoTo, StageNames, Steps, VitisSteps
<1>3. CASE ZipWritten
  BY <1>1, <1>3, StageOverType DEF ZipWritten, StageNames, Steps, VitisSteps
<1> QED BY <1>2, <1>3

\* Between commands: rebuilding the application, cleaning.
LEMMA IdleStep ==
    ASSUME MadeForXsa, RebuildApp \/ Clean
    PROVE  MadeForXsa'
<1> USE DEF MadeForXsa, TypeOK, vivado, vitis
<1>1. \A F : Without(F) \subseteq Files \X Files
  BY OlderType
<1>2. run = "idle"
  BY DEF RebuildApp, Clean, CleanProject, CleanWorkspace, CleanBoot, CleanZip, Unplanned
<1>3. CASE RebuildApp
  <2>1. ws \in Workspaces /\ ws.rev \in Nat /\ ws.rev < MaxRevs
    BY <1>3, BoundAssumption DEF RebuildApp, HasElf, Workspaces
  <2>2. ws' = [ws EXCEPT !.rev = @ + 1]
    BY <1>3 DEF RebuildApp
  <2>3. ws' \in Workspaces /\ ws'.hw = ws.hw
    <3>1. ws.rev + 1 \in 0..MaxRevs
      BY <2>1, BoundAssumption
    <3> QED BY <2>1, <2>2, <3>1 DEF Workspaces
  <2>4. /\ older' \subseteq Files \X Files
        /\ <<"ws", "xsa">> \in older' <=> <<"ws", "xsa">> \in older
    BY <1>3, OlderType, TouchedKeeps DEF RebuildApp, Files
  <2>5. ws # None
    BY <1>3 DEF RebuildApp, HasElf
  <2> QED BY <1>2, <1>3, <2>3, <2>4, <2>5 DEF RebuildApp, VitisSteps
<1>4. CASE CleanProject
  BY <1>1, <1>2, <1>4, BoundAssumption DEF CleanProject, VitisSteps
<1>5. CASE CleanWorkspace
  BY <1>1, <1>2, <1>5 DEF CleanWorkspace, RemoveWorkspace, VitisSteps
<1>6. CASE CleanBoot
  <2>1. NoBoot \in Boots
    BY BoundAssumption DEF NoBoot, Boots
  <2>2. <<"ws", "xsa">> \in older' <=> <<"ws", "xsa">> \in older
    BY <1>6, WithoutKeeps DEF CleanBoot
  <2> QED BY <1>1, <1>2, <1>6, <2>1, <2>2 DEF CleanBoot, VitisSteps
<1>7. CASE CleanZip
  <2>1. <<"ws", "xsa">> \in older' <=> <<"ws", "xsa">> \in older
    BY <1>7, WithoutKeeps DEF CleanZip
  <2> QED BY <1>1, <1>2, <1>7, <2>1 DEF CleanZip, VitisSteps
<1> QED BY <1>3, <1>4, <1>5, <1>6, <1>7 DEF Clean

LEMMA RemoveStep ==
    ASSUME MadeForXsa, RemovePlanned
    PROVE  MadeForXsa'
<1> USE DEF MadeForXsa, TypeOK
<1>1. \A F : Without(F) \subseteq Files \X Files
  BY OlderType
<1>2. plan' \subseteq plan /\ run' \in {"idle", "prune"} /\ killed' \in BOOLEAN
  BY DEF RemovePlanned, RemoveWorkspace
<1>3. UNCHANGED <<design, bit, xsa, built, boot, zip, stages>>
  BY DEF RemovePlanned
<1>4. project' \in {"none", "broken", "made"} /\ (ws' = ws \/ ws' = None)
  BY DEF RemovePlanned, RemoveWorkspace
<1>5. older' \subseteq Files \X Files /\ (ws' # None => older' = older \/ ws' = None)
  BY <1>1 DEF RemovePlanned, RemoveWorkspace
<1> QED BY <1>2, <1>3, <1>4, <1>5 DEF Steps, VitisSteps

LEMMA MadeStep == MadeForXsa /\ [Next]_vars => MadeForXsa'
<1> SUFFICES ASSUME MadeForXsa, [Next]_vars PROVE MadeForXsa'
  OBVIOUS
<1>1. CASE UNCHANGED vars
  BY <1>1 DEF MadeForXsa, TypeOK, vars, vivado, vitis
<1>2. CASE Next
  BY <1>2, CommandStep, VivadoStep, WorkspaceStep, BuildVitisStep, BootStep, ZipStep, IdleStep,
     RemoveStep
     DEF Next, VivadoStage, BootStage, KeepBoot
<1> QED BY <1>1, <1>2

\* Whatever fails, is killed or is cleaned, no boot file is begun but from a
\* workspace and a bitstream of the XSA there is (stage_workspace).
LEMMA StandaloneMadeForXsa == Spec => []MadeForXsa
<1>1. Init => MadeForXsa
  BY MadeInit
<1>2. MadeForXsa /\ [Next]_vars => MadeForXsa'
  BY MadeStep
<1> QED BY <1>1, <1>2, PTL DEF Spec

----------------------------------------------------------------------------
(* The flow implements BuiltFrom.                                          *)

\* A boot file that is begun is no product; one that is finished is the XSA's.
LEMMA BootMakes ==
    ASSUME MadeForXsa, BootStage
    PROVE  Boot!Next \/ UNCHANGED <<xsa, BootProduct>>
<1> USE DEF DesignSame, vivado, vitis
<1>1. CASE Bootgen \/ CopyElf
  <2>1. ws # None /\ xsa # 0 /\ ws.hw = xsa /\ boot.bit = xsa /\ boot \in Boots
    BY <1>1 DEF MadeForXsa, TypeOK, Bootgen, CopyElf
  <2>2. boot' = [boot EXCEPT !.app = App] /\ UNCHANGED xsa
    BY <1>1 DEF Bootgen, CopyElf
  <2>3. boot'.bit = xsa /\ boot'.app = App
    BY <2>1, <2>2 DEF Boots
  <2>4. App.hw = xsa
    BY <2>1 DEF App
  <2>5. BootProduct' = xsa \/ BootProduct' = 0
    BY <2>2, <2>3, <2>4 DEF BootProduct
  <2> QED BY <2>1, <2>2, <2>5 DEF Boot!Next, Boot!Make, Boot!Lose, BootProduct
<1>2. CASE StartBootgen
  <2>1. boot' = [bit |-> ws.hw, app |-> None] /\ UNCHANGED xsa
    BY <1>2 DEF StartBootgen
  <2>2. BootProduct' = 0
    BY <2>1 DEF BootProduct, WholeBoot
  <2> QED BY <2>1, <2>2 DEF Boot!Next, Boot!Lose, BootProduct
<1>3. CASE CopyBit
  <2>1. bit = xsa /\ xsa # 0 /\ boot \in Boots
    BY <1>3 DEF MadeForXsa, TypeOK, CopyBit, MakeBoot
  <2>2. boot' = [boot EXCEPT !.bit = bit] /\ UNCHANGED xsa
    BY <1>3 DEF CopyBit
  <2>3. boot'.bit = xsa
    BY <2>1, <2>2 DEF Boots
  <2>4. BootProduct' = xsa \/ BootProduct' = 0
    BY <2>3 DEF BootProduct
  <2> QED BY <2>1, <2>2, <2>4 DEF Boot!Next, Boot!Make, Boot!Lose, BootProduct
<1>4. CASE Standalone \/ Workspace \/ Compare \/ MakeBootFails
  <2>1. UNCHANGED <<xsa, boot>>
    BY <1>4 DEF Standalone, Workspace, Compare, MakeBootFails
  <2> QED BY <2>1 DEF BootProduct, WholeBoot, HasBoot
<1> QED BY <1>1, <1>2, <1>3, <1>4 DEF BootStage

LEMMA BuiltStep == MadeForXsa /\ [Next]_vars => [Boot!Next]_<<xsa, BootProduct>>
<1> SUFFICES ASSUME MadeForXsa, [Next]_vars PROVE [Boot!Next]_<<xsa, BootProduct>>
  OBVIOUS
<1> USE DEF vivado, vitis
<1>1. UNCHANGED boot => UNCHANGED BootProduct
  BY DEF BootProduct, WholeBoot, HasBoot
<1>2. CASE BootStage
  BY <1>2, BootMakes
<1>3. CASE VivadoStage \/ CleanProject
  <2>1. UNCHANGED boot
    BY <1>3 DEF VivadoStage, Project, Xsa, Implement, Export, CleanProject
  <2>2. xsa' \in {0, bit, xsa}
    BY <1>3 DEF VivadoStage, Project, Xsa, Implement, Export, CleanProject
  <2>3. xsa' \in Nat
    BY <2>2, BoundAssumption DEF MadeForXsa, TypeOK
  <2> QED BY <1>1, <2>1, <2>3 DEF Boot!Next, Boot!Replace
<1>4. CASE CleanBoot
  <2>1. boot' = NoBoot /\ UNCHANGED xsa
    BY <1>4 DEF CleanBoot
  <2>2. BootProduct' = 0
    BY <2>1 DEF BootProduct, WholeBoot, HasBoot, NoBoot
  <2> QED BY <2>1, <2>2 DEF Boot!Next, Boot!Lose
<1>5. CASE BuildVitis
  <2>1. UNCHANGED <<xsa, boot>>
    BY <1>5 DEF BuildVitis, SetupEmbeddedsw, CreatePlatform, ConfigureBsp, BuildPlatform,
       CreateApp, CopySources, SetLinker, BuildApp, Make, VitisFails
  <2> QED BY <1>1, <2>1
<1>6. CASE Command \/ Kill \/ Package \/ ZipWritten \/ RebuildApp
  <2>1. UNCHANGED <<xsa, boot>>
    BY <1>6 DEF Command, Kill, Package, ZipWritten, RebuildApp
  <2> QED BY <1>1, <2>1
<1>7. CASE CleanWorkspace \/ CleanZip \/ KeepBoot \/ UNCHANGED vars
  <2>1. UNCHANGED <<xsa, boot>>
    BY <1>7 DEF CleanWorkspace, CleanZip, KeepBoot, PlanKeepBoot, Confirm, RemovePlanned, vars
  <2> QED BY <1>1, <2>1
<1> QED BY <1>2, <1>3, <1>4, <1>5, <1>6, <1>7 DEF Next, Clean

\* Every boot file that is whole was made, when it was made, from the XSA there
\* was then, and changes in no other way but by being lost: the flow's stages
\* implement BuiltFrom (stage_bootfile, stage_workspace).
THEOREM BootImplementsBuiltFrom == Spec => BootBuiltFromXsa
<1>1. Init => Boot!Init
  BY DEF Init, Boot!Init, BootProduct, WholeBoot, HasBoot, NoBoot
<1>2. MadeForXsa /\ [Next]_vars => [Boot!Next]_<<xsa, BootProduct>>
  BY BuiltStep
<1>3. Spec => []MadeForXsa
  BY StandaloneMadeForXsa
<1> QED BY <1>1, <1>2, <1>3, PTL DEF Spec, Boot!Spec, BootBuiltFromXsa

----------------------------------------------------------------------------
(* Only a kill leaves a workspace that the stage refuses to go on with.     *)

\* A workspace is whole, or is being built, or is what a kill left.
WholeOrKilled ==
    /\ MadeForXsa
    /\ run \in {"app", "sources", "linker", "elf"} => "xpfm" \in ws.made
    /\ ws # None /\ run \notin VitisSteps => killed \/ {"xpfm", "elf"} \subseteq ws.made

\* Each step leaves its part; after the last two parts the workspace is whole.
LEMMA WholeMakeStep ==
    ASSUME WholeOrKilled, NEW part \in VitisSteps, NEW times,
           NEW next \in VitisSteps \cup {"compare"}, Make(part, times, next),
           next \in {"app", "sources", "linker", "elf", "compare"} =>
              part \in {"xpfm", "app", "sources", "linker", "elf"},
           next = "compare" => part = "elf",
           MadeForXsa'
    PROVE  WholeOrKilled'
<1>1. ws \in Workspaces
  BY DEF WholeOrKilled, MadeForXsa, TypeOK, Make
<1>2. ws' = [ws EXCEPT !.made = @ \cup {part}]
  BY DEF Make
<1>3. ws'.made = ws.made \cup {part}
  BY <1>1, <1>2 DEF Workspaces
<1> QED BY <1>3 DEF WholeOrKilled, Make, GoTo, VitisSteps

LEMMA WholeBuildStep ==
    ASSUME WholeOrKilled, BuildVitis
    PROVE  WholeOrKilled'
<1>1. MadeForXsa'
  BY BuildVitisStep DEF WholeOrKilled
<1>2. ASSUME NEW part \in VitisSteps, NEW times, NEW next \in VitisSteps \cup {"compare"},
             Make(part, times, next),
             next \in {"app", "sources", "linker", "elf", "compare"} =>
                part \in {"xpfm", "app", "sources", "linker", "elf"},
             next = "compare" => part = "elf"
      PROVE  WholeOrKilled'
  BY <1>1, <1>2, WholeMakeStep
<1>3. CASE SetupEmbeddedsw
  BY <1>2, <1>3 DEF SetupEmbeddedsw, VitisSteps
<1>4. CASE CreatePlatform
  BY <1>2, <1>4 DEF CreatePlatform, VitisSteps
<1>5. CASE ConfigureBsp
  BY <1>2, <1>5 DEF ConfigureBsp, VitisSteps
<1>6. CASE BuildPlatform
  BY <1>2, <1>6 DEF BuildPlatform, VitisSteps
<1>7. CASE CreateApp
  BY <1>2, <1>7 DEF CreateApp, VitisSteps
<1>8. CASE CopySources
  BY <1>2, <1>8 DEF CopySources, VitisSteps
<1>9. CASE SetLinker
  BY <1>2, <1>9 DEF SetLinker, VitisSteps
<1>10. CASE BuildApp
  BY <1>2, <1>10 DEF BuildApp, VitisSteps
<1>11. CASE VitisFails
  BY <1>1, <1>11 DEF VitisFails, RemoveWorkspace, Fail, WholeOrKilled
<1> QED BY <1>3, <1>4, <1>5, <1>6, <1>7, <1>8, <1>9, <1>10, <1>11 DEF BuildVitis

LEMMA WholeStep == WholeOrKilled /\ [Next]_vars => WholeOrKilled'
<1> SUFFICES ASSUME WholeOrKilled, [Next]_vars PROVE WholeOrKilled'
  OBVIOUS
<1> USE DEF WholeOrKilled, vivado, vitis
<1>1. MadeForXsa /\ MadeForXsa' /\ stages \in Seq(StageNames)
  BY MadeStep DEF MadeForXsa, TypeOK
<1>2. run' \in {"idle", "prune", "newxsa", "implement", "export", "workspace", "compare", "makeboot",
                "bootgen", "copyelf", "zip"} \cup StageNames => run' \notin VitisSteps
  BY DEF StageNames, VitisSteps
<1>3. CASE BuildVitis
  BY <1>3, WholeBuildStep
<1>4. CASE Kill
  BY <1>1, <1>4, FailType DEF Kill, VitisSteps
<1>5. CASE Workspace
  BY <1>1, <1>5, FailType DEF Workspace, HasXpfm, HasElf, GoTo, VitisSteps
<1>6. CASE Command
  BY <1>1, <1>2, <1>6, CommandType DEF Command, Unplanned, StageNames, VitisSteps
<1>7. CASE VivadoStage
  BY <1>1, <1>7, StageOverType, FailType
     DEF VivadoStage, Project, Xsa, Implement, Export, GoTo, StageNames, VitisSteps
<1>8. CASE Standalone \/ Compare \/ MakeBootFails \/ StartBootgen \/ Bootgen \/ CopyBit \/ CopyElf
  BY <1>1, <1>8, StageOverType, FailType
     DEF Standalone, Compare, MakeBootFails, StartBootgen, Bootgen, CopyBit, CopyElf, MakeBoot,
         DesignSame, GoTo, StageNames, VitisSteps
<1>9. CASE Package \/ ZipWritten
  BY <1>1, <1>9, StageOverType, FailType DEF Package, ZipWritten, GoTo, StageNames, VitisSteps
<1>10. CASE RebuildApp
  <2>1. ws \in Workspaces /\ run = "idle"
    BY <1>1, <1>10 DEF RebuildApp, HasElf, Unplanned, MadeForXsa, TypeOK
  <2>2. ws' = [ws EXCEPT !.rev = @ + 1] /\ ws # None
    BY <1>10 DEF RebuildApp, HasElf
  <2>3. ws'.made = ws.made
    BY <2>1, <2>2 DEF Workspaces
  <2> QED BY <1>1, <1>10, <2>1, <2>2, <2>3 DEF RebuildApp, VitisSteps
<1>11. CASE Clean
  BY <1>1, <1>11 DEF Clean, CleanProject, CleanWorkspace, CleanBoot, CleanZip, RemoveWorkspace,
     Unplanned, VitisSteps
<1>12. CASE KeepBoot
  BY <1>1, <1>12 DEF KeepBoot, PlanKeepBoot, Confirm, RemovePlanned, RemoveWorkspace, VitisSteps
<1>13. CASE UNCHANGED vars
  BY <1>1, <1>13 DEF vars
<1> QED BY <1>3, <1>4, <1>5, <1>6, <1>7, <1>8, <1>9, <1>10, <1>11, <1>12, <1>13 DEF Next, BootStage

\* Whatever fails, is killed or is cleaned, a boot file is begun from a workspace
\* and a bitstream of the XSA there is; and "so the next run starts clean"
\* (build.py:603): a workspace that later stops stage_workspace is what a kill
\* left, never what a failed build left.
THEOREM StandaloneWorkspaceTrue == Spec => []WorkspaceTrue
<1>1. Init => WholeOrKilled
  BY MadeInit DEF Init, WholeOrKilled, VitisSteps
<1>2. WholeOrKilled /\ [Next]_vars => WholeOrKilled'
  BY WholeStep
<1>3. WholeOrKilled => WorkspaceTrue
  BY DEF WholeOrKilled, WorkspaceTrue, OnlyKillsBlock, HasXpfm, HasElf, VitisSteps
<1> QED BY <1>1, <1>2, <1>3, PTL DEF Spec

----------------------------------------------------------------------------
(* clean --keep-boot spares what is unfinished.                             *)

\* Nothing happens to the target between a plan and its end: what made an entry
\* one to delete still holds.
PlanHolds ==
    /\ plan \subseteq {"project", "ws"}
    /\ plan # {} => run \in {"idle", "prune"}
    /\ "project" \in plan => xsa # 0
    /\ "ws" \in plan => HasBoot

LEMMA PlanStep ==
    ASSUME PlanMayAge = FALSE, PlanHolds, [Next]_vars
    PROVE  PlanHolds'
<1> USE DEF PlanHolds, HasBoot, vivado, vitis
<1>1. CASE plan # {} /\ ~(Kill \/ Confirm \/ RemovePlanned)
  <2>1. ~Unplanned /\ run \in {"idle", "prune"}
    BY <1>1 DEF Unplanned
  <2>2. ~(Command \/ RebuildApp \/ Clean \/ PlanKeepBoot)
    BY <1>1, <2>1
       DEF Command, RebuildApp, Clean, CleanProject, CleanWorkspace, CleanBoot, CleanZip, PlanKeepBoot
  <2>3. ~(VivadoStage \/ BootStage \/ Package \/ ZipWritten)
    BY <2>1 DEF VivadoStage, Project, Xsa, Implement, Export, BootStage, Standalone, Workspace,
       Compare, MakeBootFails, StartBootgen, Bootgen, CopyBit, CopyElf, MakeBoot, Package, ZipWritten
  <2>4. ~BuildVitis
    BY <2>1 DEF BuildVitis, SetupEmbeddedsw, CreatePlatform, ConfigureBsp, BuildPlatform, CreateApp,
       CopySources, SetLinker, BuildApp, Make, VitisFails, VitisSteps
  <2> QED BY <1>1, <2>2, <2>3, <2>4 DEF Next, KeepBoot, vars
<1>2. CASE Kill
  BY <1>2 DEF Kill, Fail
<1>3. CASE Confirm
  BY <1>3 DEF Confirm
<1>4. CASE RemovePlanned
  BY <1>4 DEF RemovePlanned
<1>5. CASE PlanKeepBoot
  BY <1>5 DEF PlanKeepBoot, Doomed, Kept
<1>6. CASE plan = {} /\ ~PlanKeepBoot
  <2>1. plan' = {}
    BY <1>6 DEF Next, vars, Command, Kill, VivadoStage, Project, Xsa, Implement, Export, BuildVitis,
       SetupEmbeddedsw, CreatePlatform, ConfigureBsp, BuildPlatform, CreateApp, CopySources,
       SetLinker, BuildApp, Make, VitisFails, BootStage, Standalone, Workspace, Compare,
       MakeBootFails, StartBootgen, Bootgen, CopyBit, CopyElf, DesignSame, Package, ZipWritten,
       RebuildApp, Clean, CleanProject, CleanWorkspace, CleanBoot, CleanZip, KeepBoot, Confirm, RemovePlanned
  <2> QED BY <2>1
<1> QED BY <1>1, <1>2, <1>3, <1>4, <1>5, <1>6

\* "an unfinished or failed build keeps its intermediates", when no command runs
\* between the plan and its end (PlanMayAge): what --keep-boot deletes is a
\* project with its XSA and a workspace with its boot file.
THEOREM StandaloneSparesUnfinished ==
    ASSUME PlanMayAge = FALSE
    PROVE  Spec => SparesUnfinished
<1>1. Init => PlanHolds
  BY DEF Init, PlanHolds
<1>2. PlanHolds /\ [Next]_vars => PlanHolds'
  BY PlanStep
<1>3. PlanHolds /\ [Next]_vars =>
        [run = "prune" => (project' # project => xsa # 0) /\ (ws' # ws => HasBoot)]_vars
  <2> SUFFICES ASSUME PlanHolds, Next, run = "prune"
               PROVE  (project' # project => xsa # 0) /\ (ws' # ws => HasBoot)
    OBVIOUS
  <2>1. CASE RemovePlanned
    BY <2>1 DEF RemovePlanned, FirstOf, PlanHolds
  <2>2. CASE ~RemovePlanned
    BY <2>2 DEF Next, Command, Kill, Unplanned, VivadoStage, Project, Xsa, Implement, Export,
       BuildVitis, SetupEmbeddedsw, CreatePlatform, ConfigureBsp, BuildPlatform, CreateApp,
       CopySources, SetLinker, BuildApp, Make, VitisFails, VitisSteps, BootStage, Standalone,
       Workspace, Compare, MakeBootFails, StartBootgen, Bootgen, CopyBit, CopyElf, MakeBoot,
       Package, ZipWritten, RebuildApp, Clean, CleanProject, CleanWorkspace, CleanBoot, CleanZip,
       KeepBoot, PlanKeepBoot, Confirm, vivado, vitis
  <2> QED BY <2>1, <2>2
<1> QED BY <1>1, <1>2, <1>3, PTL DEF Spec, SparesUnfinished

----------------------------------------------------------------------------
(* The zip.  BOOT.BIN is only ever written, never copied with an old time: *)
(* of a Zynq UltraScale+, make-boot.py takes the bootgen branch.           *)

ZynqDesigns == \A d \in Designs : d.family = "zynqmp" => Detected(d.top \cup d.subs) # "microblaze"

ZipInv ==
    /\ MadeForXsa
    /\ run = "copyelf" => Detected(design.top \cup design.subs) = "microblaze"
    /\ ZipHoldsBoot

\* The comparisons of the zip with the boot directory.
SameZipTimes ==
    \A f \in {"boot", "copy"} : <<"zip", f>> \in older' <=> <<"zip", f>> \in older

LEMMA TouchedZip ==
    ASSUME NEW f \in {"bit", "xsa", "ws", "elf"}, older' = Touched(f)
    PROVE  SameZipTimes
  BY DEF Touched, Without, Files, SameZipTimes

LEMMA WithoutZip ==
    ASSUME NEW F \in SUBSET {"bit", "xsa", "ws", "elf"}, older' = Without(F)
    PROVE  SameZipTimes
  BY DEF Without, SameZipTimes

\* A step that leaves the boot directory, the zip and their comparison alone.
LEMMA ZipKept ==
    ASSUME ZipInv, UNCHANGED <<design, boot, zip>>, SameZipTimes,
           run = "zip" => run' = "zip"
    PROVE  ZipHoldsBoot'
  BY DEF ZipInv, ZipHoldsBoot, ZipCurrent, WholeBoot, HasBoot, SameZipTimes

LEMMA VivadoZip ==
    ASSUME ZipInv, VivadoStage
    PROVE  ZipHoldsBoot'
<1>1. UNCHANGED <<design, boot, zip>> /\ run # "zip"
  BY DEF VivadoStage, Project, Xsa, Implement, Export, vitis
<1>2. older' = older \/ older' = Touched("bit") \/ older' = Touched("xsa")
  BY DEF VivadoStage, Project, Xsa, Implement, Export
<1>3. SameZipTimes
  BY <1>2, TouchedZip DEF SameZipTimes
<1> QED BY <1>1, <1>3, ZipKept

LEMMA VitisZip ==
    ASSUME ZipInv, BuildVitis
    PROVE  ZipHoldsBoot'
<1>1. CASE VitisFails
  <2>1. UNCHANGED <<design, boot, zip>> /\ run # "zip"
    BY <1>1 DEF VitisFails, VitisSteps
  <2>2. SameZipTimes
    BY <1>1, WithoutZip DEF VitisFails, RemoveWorkspace
  <2> QED BY <2>1, <2>2, ZipKept
<1>2. ASSUME NEW part \in VitisSteps, NEW next,
             NEW times \in {older, Touched("ws"), Touched("elf")}, Make(part, times, next)
      PROVE  ZipHoldsBoot'
  <2>1. UNCHANGED <<design, boot, zip>> /\ run # "zip" /\ older' = times
    BY <1>2 DEF Make, VitisSteps
  <2>2. SameZipTimes
    BY <2>1, TouchedZip DEF SameZipTimes
  <2> QED BY <2>1, <2>2, ZipKept
<1> QED
  BY <1>1, <1>2
  DEF BuildVitis, SetupEmbeddedsw, CreatePlatform, ConfigureBsp, BuildPlatform, CreateApp,
      CopySources, SetLinker, BuildApp, VitisSteps

\* Writing BOOT.BIN makes the zip older; copying is of MicroBlazes.
LEMMA BootZip ==
    ASSUME ZipInv, BootStage, ZynqDesigns
    PROVE  ZipHoldsBoot'
<1>1. CASE Standalone \/ Workspace \/ Compare \/ MakeBootFails
  <2>1. UNCHANGED <<design, boot, zip>> /\ run # "zip"
    BY <1>1 DEF Standalone, Workspace, Compare, MakeBootFails, DesignSame, vitis
  <2>2. older' = older \/ older' = Touched("ws")
    BY <1>1 DEF Standalone, Workspace, Compare, MakeBootFails
  <2>3. SameZipTimes
    BY <2>2, TouchedZip DEF SameZipTimes
  <2> QED BY <2>1, <2>3, ZipKept
<1>2. CASE StartBootgen \/ Bootgen
  <2>1. older' = Touched("boot") /\ zip' = zip
    BY <1>2 DEF StartBootgen, Bootgen, DesignSame
  <2>2. zip # None => <<"zip", "boot">> \in older'
    BY <2>1 DEF Touched, Files, Present
  <2> QED BY <2>1, <2>2 DEF ZipHoldsBoot, ZipCurrent, WholeBoot
<1>3. CASE CopyBit \/ CopyElf
  <2>1. design' = design /\ Detected(design.top \cup design.subs) = "microblaze"
    BY <1>3 DEF CopyBit, CopyElf, MakeBoot, DesignSame, ZipInv
  <2>2. design \in Designs
    BY DEF ZipInv, MadeForXsa, TypeOK
  <2> QED BY <2>1, <2>2 DEF ZipHoldsBoot, ZynqDesigns
<1> QED BY <1>1, <1>2, <1>3 DEF BootStage

LEMMA IdleZip ==
    ASSUME ZipInv, Command \/ Kill \/ RebuildApp \/ Clean \/ KeepBoot, "zip" \notin Dies
    PROVE  ZipHoldsBoot'
<1>1. CASE Command \/ Kill \/ PlanKeepBoot \/ Confirm
  <2>1. UNCHANGED <<design, boot, zip, older>> /\ (run = "zip" => run' = "zip")
    BY <1>1 DEF Command, Kill, PlanKeepBoot, Confirm, Unplanned, vitis
  <2> QED BY <2>1, ZipKept DEF SameZipTimes
<1>2. CASE RebuildApp \/ CleanProject \/ CleanWorkspace \/ RemovePlanned
  <2>1. UNCHANGED <<design, boot, zip>> /\ run # "zip"
    BY <1>2 DEF RebuildApp, CleanProject, CleanWorkspace, RemovePlanned, Unplanned, vitis
  <2>2. \/ older' = older \/ older' = Touched("elf")
        \/ older' = Without({"bit", "xsa"}) \/ older' = Without({"ws", "elf"})
    BY <1>2 DEF RebuildApp, CleanProject, CleanWorkspace, RemovePlanned, RemoveWorkspace
  <2>3. SameZipTimes
    BY <2>2, TouchedZip, WithoutZip DEF SameZipTimes
  <2> QED BY <2>1, <2>3, ZipKept
<1>3. CASE CleanBoot
  BY <1>3 DEF CleanBoot, NoBoot, ZipHoldsBoot, WholeBoot, HasBoot
<1>4. CASE CleanZip
  BY <1>4 DEF CleanZip, ZipHoldsBoot, ZipCurrent
<1> QED BY <1>1, <1>2, <1>3, <1>4 DEF Clean, KeepBoot

LEMMA PackageZip ==
    ASSUME ZipInv, Package \/ ZipWritten
    PROVE  ZipHoldsBoot'
<1>1. CASE Package
  <2>1. run' = "zip" \/ UNCHANGED <<design, boot, zip, older>>
    BY <1>1 DEF Package, GoTo
  <2> QED BY <1>1, <2>1, ZipKept DEF Package, SameZipTimes, ZipHoldsBoot
<1>2. CASE ZipWritten
  BY <1>2 DEF ZipWritten, ZipHoldsBoot, WholeBoot, HasBoot
<1> QED BY <1>1, <1>2

\* Only CopyBit goes on to CopyElf: no stage has that name.
LEMMA CopyElfComes ==
    ASSUME ZipInv, [Next]_vars
    PROVE  run' = "copyelf" => Detected((design.top \cup design.subs))' = "microblaze"
<1>1. design' = design
  BY DEF Next, Command, Kill, VivadoStage, Project, Xsa, Implement, Export, BuildVitis,
         SetupEmbeddedsw, CreatePlatform, ConfigureBsp, BuildPlatform, CreateApp, CopySources,
         SetLinker, BuildApp, Make, VitisFails, BootStage, Standalone, Workspace, Compare,
         MakeBootFails, StartBootgen, Bootgen, CopyBit, CopyElf, DesignSame, Package,
         ZipWritten, RebuildApp, Clean, CleanProject, CleanWorkspace, CleanBoot, CleanZip,
         KeepBoot, PlanKeepBoot, Confirm, RemovePlanned, vars
<1>2. stages \in Seq(StageNames)
  BY DEF ZipInv, MadeForXsa, TypeOK
<1>3. run' = "copyelf" => run = "copyelf" \/ CopyBit
  <2>1. StageOver => run' # "copyelf"
    BY <1>2, StageOverType DEF StageNames
  <2>2. Command => run' # "copyelf"
    BY CommandType DEF StageNames
  <2>3. CASE VivadoStage
    BY <2>1, <2>3 DEF VivadoStage, Project, Xsa, Implement, Export, GoTo, Fail
  <2>4. CASE BuildVitis
    BY <2>4 DEF BuildVitis, SetupEmbeddedsw, CreatePlatform, ConfigureBsp, BuildPlatform,
                CreateApp, CopySources, SetLinker, BuildApp, Make, VitisFails, GoTo, Fail
  <2>5. CASE BootStage
    BY <2>1, <2>5 DEF BootStage, Standalone, Workspace, Compare, MakeBootFails, StartBootgen,
                      Bootgen, CopyElf, GoTo, Fail
  <2>6. CASE Package \/ ZipWritten \/ Kill
    BY <2>1, <2>6 DEF Package, ZipWritten, Kill, GoTo, Fail
  <2>7. CASE RebuildApp \/ Clean \/ KeepBoot
    BY <2>7 DEF RebuildApp, Clean, CleanProject, CleanWorkspace, CleanBoot, CleanZip,
                KeepBoot, PlanKeepBoot, Confirm, RemovePlanned
  <2>8. CASE UNCHANGED vars
    BY <2>8 DEF vars
  <2> QED BY <2>2, <2>3, <2>4, <2>5, <2>6, <2>7, <2>8 DEF Next
<1> QED BY <1>1, <1>3 DEF ZipInv, CopyBit, MakeBoot, Detected

\* _zip_current is true of BOOT.BIN, when the writing of a zip is not cut
\* short and make-boot.py takes a Zynq target for one: a zip that is no older
\* than a whole BOOT.BIN holds it.
THEOREM StandaloneZipHoldsBoot ==
    ASSUME ZynqDesigns, "zip" \notin Dies
    PROVE  Spec => []ZipHoldsBoot
<1>1. Init => ZipInv
  BY MadeInit DEF Init, ZipInv, ZipHoldsBoot, ZipCurrent
<1>2. ZipInv /\ [Next]_vars => ZipInv'
  <2> SUFFICES ASSUME ZipInv, [Next]_vars PROVE ZipInv'
    OBVIOUS
  <2>1. MadeForXsa'
    BY MadeStep DEF ZipInv
  <2>2. CASE UNCHANGED vars
    <3>1. UNCHANGED <<design, boot, zip, older, run>>
      BY <2>2 DEF vars, vitis
    <3>2. ZipHoldsBoot'
      BY <3>1, ZipKept DEF SameZipTimes
    <3> QED BY <2>1, <3>2, CopyElfComes DEF ZipInv
  <2>3. CASE Next
    <3>1. ZipHoldsBoot'
      BY <2>3, VivadoZip, VitisZip, BootZip, IdleZip, PackageZip DEF Next
    <3> QED BY <2>1, <3>1, CopyElfComes DEF ZipInv
  <2> QED BY <2>2, <2>3
<1>3. ZipInv => ZipHoldsBoot
  BY DEF ZipInv
<1> QED BY <1>1, <1>2, <1>3, PTL DEF Spec

----------------------------------------------------------------------------
(* What "exists" and "up to date" mean.  The comparisons that matter are   *)
(* of the bitstream, the workspace and the boot file with the XSA, and of  *)
(* the bitstream and the boot file with the .elf.                          *)

\* A file written now is older than none, and none there is older than it.
LEMMA TouchedPairs ==
    ASSUME NEW f \in Files, NEW g \in Files, NEW h \in Files, g # h
    PROVE  <<g, h>> \in Touched(f) <=>
              IF h = f THEN Present(g) ELSE g # f /\ <<g, h>> \in older
  BY DEF Touched, Without

\* A file that is copied compares as the one it is copied from.
LEMMA CopiedPairs ==
    ASSUME NEW f \in Files, NEW g \in Files, NEW a \in Files, NEW b \in Files, a # b
    PROVE  <<a, b>> \in Copied(f, g) <=>
              IF b = f THEN <<a, g>> \in older
              ELSE IF a = f THEN <<g, b>> \in older ELSE <<a, b>> \in older
  BY DEF Copied, Without

\* A file that is deleted compares with none.
LEMMA WithoutPairs ==
    ASSUME NEW F, NEW g, NEW h
    PROVE  <<g, h>> \in Without(F) <=> <<g, h>> \in older /\ g \notin F /\ h \notin F
  BY DEF Without

BootSteps == {"compare", "makeboot", "bootgen", "copyelf"}

\* The standalone stage comes after xsa; a workspace has its .elf when, and
\* only when, build-vitis.py is through, and is of no older XSA till then.
FlowTrue ==
    /\ stages \in {<<>>, <<"standalone">>, <<"standalone", "package">>, <<"package">>}
    /\ stages \in {<<"standalone">>, <<"standalone", "package">>} =>
          run \in {"xsa", "newxsa", "implement", "export"}
    /\ run = "standalone" => xsa # 0
    /\ run \in VitisSteps => ~HasElf
    /\ run \in BootSteps => HasElf
    /\ run \in VitisSteps \cup BootSteps => <<"ws", "xsa">> \notin older

\* The XSA is exported from the bitstream, the .elf built after it.
TimesTrue ==
    /\ xsa # 0 => <<"bit", "xsa">> \in older
    /\ HasElf /\ xsa # 0 /\ <<"ws", "xsa">> \notin older => <<"bit", "elf">> \in older

\* A boot file that is no older than the XSA is a whole one of that XSA; one
\* that is no older than the .elf is of that .elf and its workspace.
BootTrue ==
    /\ HasBoot /\ xsa # 0 /\ <<"boot", "xsa">> \notin older =>
          boot.bit = xsa /\ (run # "bootgen" => boot.app # None /\ boot.app.hw = xsa)
    /\ HasBoot /\ HasElf /\ <<"boot", "elf">> \notin older /\ run # "bootgen" =>
          boot.bit = ws.hw /\ boot.app = App

SkipInv == MadeForXsa /\ FlowTrue /\ TimesTrue /\ BootTrue

\* A step that leaves these comparisons, and what is compared, as they are.
SameTimes ==
    /\ <<"bit", "xsa">> \in older' <=> <<"bit", "xsa">> \in older
    /\ <<"ws", "xsa">> \in older' <=> <<"ws", "xsa">> \in older
    /\ <<"bit", "elf">> \in older' <=> <<"bit", "elf">> \in older
    /\ <<"boot", "xsa">> \in older' <=> <<"boot", "xsa">> \in older
    /\ <<"boot", "elf">> \in older' <=> <<"boot", "elf">> \in older

LEMMA FilesKept ==
    ASSUME TimesTrue, BootTrue, UNCHANGED <<xsa, ws, boot>>, SameTimes,
           run = "bootgen" => run' = "bootgen"
    PROVE  TimesTrue' /\ BootTrue'
<1>1. (HasElf' <=> HasElf) /\ (HasBoot' <=> HasBoot) /\ App' = App
  BY DEF HasElf, HasBoot, App
<1> QED BY <1>1 DEF TimesTrue, BootTrue, SameTimes

\* Away from build-vitis.py and make-boot.py, nothing is said of the workspace.
LEMMA FlowLeaves ==
    ASSUME stages' \in {<<>>, <<"package">>},
           run' \notin VitisSteps \cup BootSteps \cup {"standalone"}
    PROVE  FlowTrue'
<1>1. stages' \notin {<<"standalone">>, <<"standalone", "package">>}
  OBVIOUS
<1> QED BY <1>1 DEF FlowTrue

\* The next stage: "standalone" only after xsa.
LEMMA FlowStageOver ==
    ASSUME FlowTrue, StageOver
    PROVE  /\ stages' \in {<<>>, <<"package">>}
           /\ run' \in {"idle", "standalone", "package"}
           /\ run' = "standalone" => run \in {"xsa", "newxsa", "implement", "export"}
<1>1. CASE stages = <<>>
  BY <1>1 DEF StageOver
<1>2. CASE stages = <<"standalone">>
  BY <1>2 DEF StageOver, FlowTrue
<1>3. CASE stages = <<"standalone", "package">>
  BY <1>3 DEF StageOver, FlowTrue
<1>4. CASE stages = <<"package">>
  BY <1>4 DEF StageOver
<1> QED BY <1>1, <1>2, <1>3, <1>4 DEF FlowTrue

LEMMA FlowAfterStage ==
    ASSUME FlowTrue, StageOver, run \in {"xsa", "export"} => xsa' # 0,
           run \notin {"newxsa", "implement"}
    PROVE  FlowTrue'
<1>1. CASE run' = "standalone"
  <2>1. xsa' # 0 /\ stages' \in {<<>>, <<"package">>}
    BY <1>1, FlowStageOver
  <2>2. stages' \notin {<<"standalone">>, <<"standalone", "package">>}
    BY <2>1
  <2> QED BY <1>1, <2>1, <2>2 DEF FlowTrue, VitisSteps, BootSteps
<1>2. CASE run' # "standalone"
  BY <1>2, FlowStageOver, FlowLeaves DEF VitisSteps, BootSteps
<1> QED BY <1>1, <1>2

LEMMA FlowFails == Fail => FlowTrue'
  BY FlowLeaves DEF Fail, VitisSteps, BootSteps

\* Commands, decisions and plans touch no file that is compared.
LEMMA SkipControl ==
    ASSUME SkipInv, "bootgen" \notin Dies,
           Command \/ Kill \/ Project \/ Xsa \/ Standalone \/ Compare \/ MakeBootFails
           \/ PlanKeepBoot \/ Confirm
    PROVE  FlowTrue' /\ TimesTrue' /\ BootTrue'
<1> USE DEF SkipInv, vivado, vitis, DesignSame
<1>1. UNCHANGED <<xsa, ws, boot, older>> /\ SameTimes
  BY DEF Command, Kill, Project, Xsa, Standalone, Compare, MakeBootFails, PlanKeepBoot, Confirm,
     SameTimes
<1>2. run = "bootgen" => run' = "bootgen"
  BY DEF Command, Unplanned, Kill, Project, Xsa, Standalone, Compare, MakeBootFails,
     PlanKeepBoot, Confirm
<1>3. TimesTrue' /\ BootTrue'
  BY <1>1, <1>2, FilesKept
<1>4. HasElf' <=> HasElf
  BY <1>1 DEF HasElf
<1>5. CASE Command
  <2>1. PICK s \in StagesFor : run' = Head(s) /\ stages' = Tail(s)
    BY <1>5 DEF Command
  <2>2. CASE s = <<"project">> \/ s = <<"xsa">> \/ s = <<"package">>
    <3>1. stages' = <<>> /\ run' \in {"project", "xsa", "package"}
      BY <2>1, <2>2, SMTT(30)
    <3> QED BY <1>3, <3>1, FlowLeaves DEF VitisSteps, BootSteps
  <2>3. CASE s = <<"xsa", "standalone">> \/ s = <<"xsa", "standalone", "package">>
    <3>1. run' = "xsa"
      BY <2>1, <2>3
    <3>2. /\ Tail(<<"xsa", "standalone">>) = <<"standalone">>
          /\ Tail(<<"xsa", "standalone", "package">>) = <<"standalone", "package">>
      OBVIOUS
    <3>3. stages' \in {<<"standalone">>, <<"standalone", "package">>}
      BY <2>1, <2>3, <3>2
    <3> QED BY <1>3, <3>1, <3>3 DEF FlowTrue, VitisSteps, BootSteps
  <2> QED BY <1>3, <2>1, <2>2, <2>3 DEF StagesFor
<1>6. CASE Kill \/ MakeBootFails
  BY <1>3, <1>6, FlowFails DEF Kill, MakeBootFails
<1>7. CASE Project
  <2>1. CASE Fail
    BY <1>3, <2>1, FlowFails
  <2>2. CASE run = "project" /\ StageOver
    BY <1>3, <2>2, FlowAfterStage
  <2>3. CASE run = "newxsa" /\ GoTo("implement")
    BY <1>3, <1>1, <2>3 DEF FlowTrue, GoTo, VitisSteps, BootSteps
  <2> QED BY <1>3, <1>7, <2>1, <2>2, <2>3 DEF Project
<1>8. CASE Xsa
  <2>1. CASE xsa # 0 /\ StageOver
    BY <1>3, <1>1, <1>8, <2>1, FlowAfterStage DEF Xsa
  <2>2. CASE GoTo("newxsa")
    BY <1>3, <1>1, <1>8, <2>2 DEF Xsa, FlowTrue, GoTo, VitisSteps, BootSteps
  <2> QED BY <1>3, <1>8, <2>1, <2>2 DEF Xsa
<1>9. CASE Standalone
  <2>1. CASE StageOver
    BY <1>3, <1>9, <2>1, FlowAfterStage DEF Standalone
  <2>2. CASE GoTo("workspace")
    BY <1>3, <1>9, <2>2 DEF Standalone, FlowTrue, GoTo, VitisSteps, BootSteps
  <2> QED BY <1>3, <1>9, <2>1, <2>2 DEF Standalone
<1>10. CASE Compare
  <2>1. CASE StageOver
    BY <1>3, <1>10, <2>1, FlowAfterStage DEF Compare
  <2>2. CASE GoTo("makeboot")
    BY <1>3, <1>1, <1>4, <1>10, <2>2 DEF Compare, FlowTrue, GoTo, VitisSteps, BootSteps
  <2> QED BY <1>3, <1>10, <2>1, <2>2 DEF Compare
<1>11. CASE PlanKeepBoot
  BY <1>1, <1>3, <1>4, <1>11 DEF PlanKeepBoot, FlowTrue
<1>12. CASE Confirm
  BY <1>1, <1>3, <1>4, <1>12 DEF Confirm, FlowTrue, VitisSteps, BootSteps
<1> QED BY <1>5, <1>6, <1>7, <1>8, <1>9, <1>10, <1>11, <1>12

\* A bitstream is made, and exported, while there is no XSA: what there is of a
\* workspace and of a boot file becomes older than it.
LEMMA SkipVivado ==
    ASSUME SkipInv, Implement \/ Export
    PROVE  FlowTrue' /\ TimesTrue' /\ BootTrue'
<1> USE DEF SkipInv, vivado, vitis
<1>1. UNCHANGED <<ws, boot>> /\ xsa = 0
  BY DEF Implement, Export, MadeForXsa
<1>2. (HasElf' <=> HasElf) /\ (HasBoot' <=> HasBoot) /\ App' = App
  BY <1>1 DEF HasElf, HasBoot, App
<1>3. CASE Implement
  <2>1. xsa' = 0 /\ run # "bootgen"
    BY <1>1, <1>3 DEF Implement
  <2>2. <<"boot", "elf">> \in older' <=> <<"boot", "elf">> \in older
    BY <1>3, TouchedPairs DEF Implement, Files
  <2>3. TimesTrue' /\ BootTrue'
    BY <1>1, <1>2, <2>1, <2>2 DEF TimesTrue, BootTrue
  <2>4. CASE Fail
    BY <2>3, <2>4, FlowFails
  <2>5. CASE GoTo("export")
    BY <1>3, <2>1, <2>3, <2>5 DEF Implement, FlowTrue, GoTo, VitisSteps, BootSteps
  <2> QED BY <1>3, <2>4, <2>5 DEF Implement
<1>4. CASE Export
  <2>1. CASE Fail /\ UNCHANGED <<xsa, older>>
    <3>1. run # "bootgen" /\ SameTimes
      BY <1>4, <2>1 DEF Export, SameTimes
    <3>2. TimesTrue' /\ BootTrue'
      BY <1>1, <2>1, <3>1, FilesKept
    <3> QED BY <2>1, <3>2, FlowFails
  <2>2. CASE xsa' = bit /\ older' = Touched("xsa") /\ StageOver
    <3>1. bit # 0 /\ run = "export"
      BY <1>4 DEF Export, MadeForXsa
    <3>2. <<"bit", "xsa">> \in older'
      BY <2>2, <3>1, TouchedPairs DEF Files, Present
    <3>3. /\ ws # None => <<"ws", "xsa">> \in older'
          /\ HasBoot => <<"boot", "xsa">> \in older'
          /\ <<"boot", "elf">> \in older' <=> <<"boot", "elf">> \in older
      BY <2>2, TouchedPairs DEF Files, Present
    <3>4. TimesTrue'
      BY <1>1, <1>2, <3>2, <3>3 DEF TimesTrue, HasElf
    <3>5. BootTrue'
      BY <1>1, <1>2, <3>1, <3>3 DEF BootTrue
    <3>6. FlowTrue'
      BY <2>2, <3>1, FlowAfterStage
    <3> QED BY <3>4, <3>5, <3>6
  <2> QED BY <1>4, <2>1, <2>2 DEF Export
<1> QED BY <1>3, <1>4

\* A workspace is begun without an .elf, and used again only with one and
\* when the XSA has not outdated it.
LEMMA SkipWorkspace ==
    ASSUME SkipInv, Workspace
    PROVE  FlowTrue' /\ TimesTrue' /\ BootTrue'
<1> USE DEF SkipInv, vivado
<1>1. /\ UNCHANGED <<xsa, boot>> /\ run = "workspace"
      /\ stages \in {<<>>, <<"package">>}
      /\ HasBoot' <=> HasBoot
  BY DEF Workspace, FlowTrue, HasBoot
<1>2. CASE ws # None
  <2>1. UNCHANGED <<ws, older>> /\ SameTimes
    BY <1>2 DEF Workspace, SameTimes
  <2>2. TimesTrue' /\ BootTrue'
    BY <1>1, <2>1, FilesKept
  <2>3. CASE Fail
    BY <2>2, <2>3, FlowFails
  <2>4. CASE ~Outdated /\ HasElf /\ GoTo("compare")
    <3>1. HasElf' /\ <<"ws", "xsa">> \notin older'
      BY <2>1, <2>4 DEF HasElf, Outdated
    <3> QED BY <1>1, <2>2, <2>4, <3>1 DEF FlowTrue, GoTo, VitisSteps, BootSteps
  <2> QED BY <1>2, <2>3, <2>4 DEF Workspace
<1>3. CASE ws = None
  <2>1. ws' = [made |-> {}, hw |-> xsa, rev |-> 0]
    BY <1>3 DEF Workspace
  <2>2. older' = Touched("ws") /\ GoTo("embeddedsw")
    BY <1>3 DEF Workspace
  <2>3. ~HasElf'
    BY <2>1 DEF HasElf
  <2>4. /\ <<"ws", "xsa">> \notin older'
        /\ <<"bit", "xsa">> \in older' <=> <<"bit", "xsa">> \in older
        /\ <<"boot", "xsa">> \in older' <=> <<"boot", "xsa">> \in older
    BY <2>2, TouchedPairs DEF Files
  <2>5. TimesTrue'
    BY <1>1, <2>3, <2>4 DEF TimesTrue
  <2>6. BootTrue'
    BY <1>1, <2>3, <2>4 DEF BootTrue
  <2> QED BY <1>1, <2>2, <2>3, <2>4, <2>5, <2>6 DEF FlowTrue, GoTo, VitisSteps, BootSteps
<1> QED BY <1>2, <1>3

\* Only its last step leaves an .elf; what there is of a boot file becomes
\* older than that.
LEMMA SkipMake ==
    ASSUME SkipInv, MadeForXsa', NEW part \in VitisSteps, NEW next,
           NEW times, Make(part, times, next),
           \/ part # "elf" /\ next \in VitisSteps /\ times \in {older, Touched("ws")}
           \/ part = "elf" /\ next = "compare" /\ times = Touched("elf")
    PROVE  FlowTrue' /\ TimesTrue' /\ BootTrue'
<1> USE DEF SkipInv, vivado
<1>1. /\ run = part /\ ws \in Workspaces /\ ws # None /\ xsa # 0 /\ ws.hw = xsa
      /\ bit = xsa /\ ~HasElf /\ <<"ws", "xsa">> \notin older
  BY DEF Make, MadeForXsa, TypeOK, FlowTrue
<1>2. /\ UNCHANGED <<xsa, boot, stages>> /\ run' = next /\ older' = times
      /\ ws' = [ws EXCEPT !.made = @ \cup {part}]
      /\ stages \in {<<>>, <<"package">>}
      /\ HasBoot' <=> HasBoot
  BY DEF Make, GoTo, FlowTrue, VitisSteps, HasBoot
<1>3. ws'.made = ws.made \cup {part}
  BY <1>1, <1>2 DEF Workspaces
<1>4. CASE part # "elf"
  <2>1. ~HasElf'
    BY <1>1, <1>3, <1>4 DEF HasElf
  <2>2. /\ <<"ws", "xsa">> \notin older'
        /\ <<"bit", "xsa">> \in older' <=> <<"bit", "xsa">> \in older
        /\ <<"boot", "xsa">> \in older' <=> <<"boot", "xsa">> \in older
    BY <1>1, <1>2, <1>4, TouchedPairs DEF Files
  <2>3. run' \in VitisSteps /\ run # "bootgen"
    BY <1>1, <1>2, <1>4 DEF VitisSteps
  <2>4. FlowTrue'
    BY <1>2, <2>1, <2>2, <2>3 DEF FlowTrue, VitisSteps, BootSteps
  <2>5. TimesTrue' /\ BootTrue'
    BY <1>2, <2>1, <2>2, <2>3 DEF TimesTrue, BootTrue
  <2> QED BY <2>4, <2>5
<1>5. CASE part = "elf"
  <2>1. run' = "compare" /\ run # "bootgen" /\ ws' # None
    BY <1>1, <1>2, <1>5 DEF MadeForXsa, VitisSteps
  <2>2. HasElf'
    BY <1>3, <1>5, <2>1 DEF HasElf
  <2>3. /\ <<"ws", "xsa">> \notin older'
        /\ <<"bit", "xsa">> \in older' <=> <<"bit", "xsa">> \in older
        /\ <<"boot", "xsa">> \in older' <=> <<"boot", "xsa">> \in older
        /\ <<"bit", "elf">> \in older'
        /\ HasBoot => <<"boot", "elf">> \in older'
    BY <1>1, <1>2, <1>5, TouchedPairs DEF Files, Present
  <2>4. FlowTrue'
    BY <1>2, <2>1, <2>2, <2>3 DEF FlowTrue, VitisSteps, BootSteps
  <2>5. TimesTrue' /\ BootTrue'
    BY <1>2, <2>1, <2>3 DEF TimesTrue, BootTrue
  <2> QED BY <2>4, <2>5
<1> QED BY <1>4, <1>5

LEMMA SkipVitis ==
    ASSUME SkipInv, BuildVitis
    PROVE  FlowTrue' /\ TimesTrue' /\ BootTrue'
<1>1. MadeForXsa'
  BY BuildVitisStep DEF SkipInv
<1>2. ASSUME NEW part \in VitisSteps \ {"elf"}, NEW next \in VitisSteps,
             NEW times \in {older, Touched("ws")}, Make(part, times, next)
      PROVE  FlowTrue' /\ TimesTrue' /\ BootTrue'
  BY <1>1, <1>2, SkipMake
<1>3. CASE BuildApp
  BY <1>1, <1>3, SkipMake DEF BuildApp, VitisSteps
<1>4. CASE VitisFails
  <2>1. ws' = None /\ UNCHANGED <<xsa, boot>> /\ Fail /\ run # "bootgen"
    BY <1>4 DEF VitisFails, RemoveWorkspace, vivado, VitisSteps
  <2>2. ~HasElf' /\ (HasBoot' <=> HasBoot)
    BY <2>1 DEF HasElf, HasBoot
  <2>3. /\ <<"bit", "xsa">> \in older' <=> <<"bit", "xsa">> \in older
        /\ <<"boot", "xsa">> \in older' <=> <<"boot", "xsa">> \in older
    BY <1>4, WithoutPairs DEF VitisFails, RemoveWorkspace
  <2> QED BY <2>1, <2>2, <2>3, FlowFails DEF SkipInv, TimesTrue, BootTrue
<1> QED
  BY <1>2, <1>3, <1>4
  DEF BuildVitis, SetupEmbeddedsw, CreatePlatform, ConfigureBsp, BuildPlatform, CreateApp,
      CopySources, SetLinker, VitisSteps

\* BOOT.BIN is of the workspace when it is written; a .bit and an .elf that are
\* copied are as old as the bitstream, which both comparisons find too old.
LEMMA SkipBoot ==
    ASSUME SkipInv, StartBootgen \/ Bootgen \/ CopyBit \/ CopyElf
    PROVE  FlowTrue' /\ TimesTrue' /\ BootTrue'
<1> USE DEF SkipInv, DesignSame, vivado
<1>1. run \in {"makeboot", "bootgen", "copyelf"} /\ UNCHANGED <<bit, xsa, ws>>
  BY DEF StartBootgen, Bootgen, CopyBit, CopyElf, MakeBoot
<1>2. /\ ws \in Workspaces /\ ws # None /\ xsa # 0 /\ ws.hw = xsa /\ boot \in Boots
      /\ HasElf /\ <<"ws", "xsa">> \notin older
      /\ stages \in {<<>>, <<"package">>}
      /\ run # "makeboot" => boot.bit = xsa
      /\ xsa \in Nat
  BY <1>1, BoundAssumption DEF MadeForXsa, TypeOK, FlowTrue, BootSteps
<1>3. (HasElf' <=> HasElf) /\ App' = App
  BY <1>1 DEF HasElf, App
<1>4. App.hw = xsa /\ App # None
  <2>1. App \in [hw : Nat, rev : Nat]
    BY <1>2, BoundAssumption DEF App, Workspaces
  <2> QED BY <1>2, <2>1, NoneAssumption DEF App
<1>5. /\ <<"bit", "xsa">> \in older' <=> <<"bit", "xsa">> \in older
      /\ <<"ws", "xsa">> \in older' <=> <<"ws", "xsa">> \in older
      /\ <<"bit", "elf">> \in older' <=> <<"bit", "elf">> \in older
  BY TouchedPairs, CopiedPairs, SMTT(30) DEF StartBootgen, Bootgen, CopyBit, CopyElf, Files
<1>6. TimesTrue'
  BY <1>1, <1>3, <1>5 DEF TimesTrue
<1>7. ASSUME StageOver
      PROVE  FlowTrue'
  BY <1>1, <1>7, FlowAfterStage
<1>8. ASSUME NEW step \in {"bootgen", "copyelf"}, GoTo(step)
      PROVE  FlowTrue'
  BY <1>1, <1>2, <1>3, <1>5, <1>8 DEF FlowTrue, GoTo, VitisSteps, BootSteps
<1>9. CASE StartBootgen
  <2>1. boot' = [bit |-> ws.hw, app |-> None] /\ run' = "bootgen"
    BY <1>9 DEF StartBootgen, GoTo
  <2>2. BootTrue'
    BY <1>1, <1>2, <2>1 DEF BootTrue
  <2> QED BY <1>6, <1>8, <1>9, <2>2 DEF StartBootgen
<1>10. CASE Bootgen \/ CopyElf
  <2>1. boot' = [boot EXCEPT !.app = App]
    BY <1>10 DEF Bootgen, CopyElf
  <2>2. boot'.bit = xsa /\ boot'.app = App
    BY <1>1, <1>2, <1>10, <2>1 DEF Boots, Bootgen, CopyElf
  <2>3. BootTrue'
    BY <1>1, <1>2, <1>3, <1>4, <2>2 DEF BootTrue
  <2> QED BY <1>6, <1>7, <1>10, <2>3 DEF Bootgen, CopyElf
<1>11. CASE CopyBit
  <2>1. <<"bit", "xsa">> \in older /\ <<"bit", "elf">> \in older
    BY <1>2 DEF TimesTrue
  <2>2. <<"boot", "xsa">> \in older' /\ <<"boot", "elf">> \in older'
    BY <1>11, <2>1, CopiedPairs DEF CopyBit, Files
  <2>3. BootTrue'
    BY <2>2 DEF BootTrue
  <2> QED BY <1>6, <1>8, <1>11, <2>3 DEF CopyBit
<1> QED BY <1>9, <1>10, <1>11

\* The zip, the IDE and cleaning.
LEMMA SkipIdle ==
    ASSUME SkipInv, Package \/ ZipWritten \/ RebuildApp \/ Clean \/ RemovePlanned
    PROVE  FlowTrue' /\ TimesTrue' /\ BootTrue'
<1> USE DEF SkipInv, vivado, vitis
<1>1. /\ run # "bootgen" /\ run \notin VitisSteps \cup BootSteps \cup {"standalone"}
      /\ stages \in {<<>>, <<"package">>}
  BY DEF FlowTrue, Package, ZipWritten, RebuildApp, Clean, CleanProject, CleanWorkspace,
     CleanBoot, CleanZip, Unplanned, RemovePlanned, VitisSteps, BootSteps
<1>2. CASE Package \/ ZipWritten
  <2>1. UNCHANGED <<xsa, ws, boot>> /\ SameTimes
    BY <1>2, TouchedPairs DEF Package, ZipWritten, SameTimes, Files
  <2>2. TimesTrue' /\ BootTrue'
    BY <1>1, <2>1, FilesKept
  <2>3. CASE StageOver
    BY <1>2, <2>2, <2>3, FlowAfterStage DEF Package, ZipWritten
  <2>4. CASE Fail
    BY <2>2, <2>4, FlowFails
  <2>5. CASE GoTo("zip")
    BY <1>1, <2>2, <2>5, FlowLeaves DEF GoTo, VitisSteps, BootSteps
  <2> QED BY <1>2, <2>3, <2>4, <2>5 DEF Package, ZipWritten
<1>3. CASE RebuildApp \/ Clean \/ RemovePlanned
  <2>1. stages' = stages /\ run' \in {"idle", "prune"}
    BY <1>3 DEF RebuildApp, Clean, CleanProject, CleanWorkspace, CleanBoot, CleanZip,
       Unplanned, RemovePlanned
  <2>2. FlowTrue'
    BY <1>1, <2>1, FlowLeaves DEF VitisSteps, BootSteps
  <2>3. CASE RebuildApp
    <3>1. UNCHANGED <<xsa, boot>> /\ HasElf /\ ws \in Workspaces /\ (HasBoot' <=> HasBoot)
      BY <2>3 DEF RebuildApp, HasElf, HasBoot, MadeForXsa, TypeOK
    <3>2. /\ <<"bit", "xsa">> \in older' <=> <<"bit", "xsa">> \in older
          /\ <<"ws", "xsa">> \in older' <=> <<"ws", "xsa">> \in older
          /\ <<"boot", "xsa">> \in older' <=> <<"boot", "xsa">> \in older
          /\ HasBoot => <<"boot", "elf">> \in older'
          /\ bit # 0 => <<"bit", "elf">> \in older'
      BY <2>3, TouchedPairs DEF RebuildApp, Files, Present
    <3>3. xsa # 0 => bit # 0
      BY DEF MadeForXsa
    <3> QED BY <1>1, <2>2, <3>1, <3>2, <3>3 DEF TimesTrue, BootTrue
  <2>4. CASE CleanProject
    <3>1. xsa' = 0 /\ UNCHANGED <<ws, boot>>
      BY <2>4 DEF CleanProject
    <3>2. (HasElf' <=> HasElf) /\ (HasBoot' <=> HasBoot) /\ App' = App
      BY <3>1 DEF HasElf, HasBoot, App
    <3>3. <<"boot", "elf">> \in older' <=> <<"boot", "elf">> \in older
      BY <2>4, WithoutPairs DEF CleanProject
    <3> QED BY <1>1, <2>2, <3>1, <3>2, <3>3 DEF TimesTrue, BootTrue
  <2>5. CASE RemoveWorkspace /\ UNCHANGED <<xsa, boot>>
    <3>1. ~HasElf' /\ (HasBoot' <=> HasBoot)
      BY <2>5 DEF RemoveWorkspace, HasElf, HasBoot
    <3>2. /\ <<"bit", "xsa">> \in older' <=> <<"bit", "xsa">> \in older
          /\ <<"boot", "xsa">> \in older' <=> <<"boot", "xsa">> \in older
      BY <2>5, WithoutPairs DEF RemoveWorkspace
    <3> QED BY <1>1, <2>2, <2>5, <3>1, <3>2 DEF TimesTrue, BootTrue
  <2>6. CASE UNCHANGED <<xsa, ws, boot, older>>
    <3>1. SameTimes
      BY <2>6 DEF SameTimes
    <3> QED BY <1>1, <2>2, <2>6, <3>1, FilesKept
  <2>7. CASE CleanBoot
    <3>1. ~HasBoot' /\ UNCHANGED <<xsa, ws>> /\ (HasElf' <=> HasElf)
      BY <2>7 DEF CleanBoot, HasBoot, NoBoot, HasElf
    <3>2. /\ <<"bit", "xsa">> \in older' <=> <<"bit", "xsa">> \in older
          /\ <<"ws", "xsa">> \in older' <=> <<"ws", "xsa">> \in older
          /\ <<"bit", "elf">> \in older' <=> <<"bit", "elf">> \in older
      BY <2>7, WithoutPairs DEF CleanBoot
    <3> QED BY <2>2, <3>1, <3>2 DEF TimesTrue, BootTrue
  <2>8. CASE CleanZip
    <3>1. UNCHANGED <<xsa, ws, boot>> /\ SameTimes
      BY <2>8, WithoutPairs DEF CleanZip, SameTimes
    <3> QED BY <1>1, <2>2, <3>1, FilesKept
  <2>9. CASE CleanWorkspace \/ RemovePlanned
    BY <2>5, <2>6, <2>9 DEF CleanWorkspace, RemovePlanned
  <2> QED BY <1>3, <2>3, <2>4, <2>7, <2>8, <2>9 DEF Clean
<1> QED BY <1>2, <1>3

LEMMA SkipStep == "bootgen" \notin Dies /\ SkipInv /\ [Next]_vars => SkipInv'
<1> SUFFICES ASSUME "bootgen" \notin Dies, SkipInv, [Next]_vars PROVE SkipInv'
  OBVIOUS
<1>1. MadeForXsa'
  BY MadeStep DEF SkipInv
<1>2. CASE UNCHANGED vars
  BY <1>1, <1>2 DEF SkipInv, FlowTrue, TimesTrue, BootTrue, HasElf, HasBoot, App, vars, vivado, vitis
<1>3. CASE Next
  <2>1. FlowTrue' /\ TimesTrue' /\ BootTrue'
    BY <1>3, SkipControl, SkipVivado, SkipWorkspace, SkipVitis, SkipBoot, SkipIdle
       DEF Next, VivadoStage, BootStage, KeepBoot
  <2> QED BY <1>1, <2>1 DEF SkipInv
<1> QED BY <1>2, <1>3

\* A stage is skipped only when what it would make is there, whole and of the
\* present XSA and .elf (stage_bootfile, build.py:760-777; stage_workspace),
\* when the writing of BOOT.BIN is not cut short.
THEOREM StandaloneSkipsAreTrue ==
    ASSUME "bootgen" \notin Dies
    PROVE  Spec => []SkipsAreTrue
<1>1. Init => SkipInv
  <2> SUFFICES ASSUME Init PROVE SkipInv
    OBVIOUS
  <2>1. ~HasElf /\ ~HasBoot /\ run = "idle" /\ xsa = 0 /\ stages = <<>>
    BY DEF Init, HasElf, HasBoot, NoBoot
  <2> QED BY <2>1, MadeInit DEF SkipInv, FlowTrue, TimesTrue, BootTrue, VitisSteps, BootSteps
<1>2. SkipInv /\ [Next]_vars => SkipInv'
  BY SkipStep
<1>3. SkipInv => SkipsAreTrue
  <2> SUFFICES ASSUME SkipInv PROVE SkipsAreTrue
    OBVIOUS
  <2>1. CASE run = "standalone" /\ BootKept
    BY <2>1 DEF SkipInv, FlowTrue, BootTrue, BootKept, SkipsAreTrue, WholeBoot
  <2>2. CASE run = "compare" /\ BootCurrent
    <3>1. ws # None /\ ws.hw = xsa /\ ws \in Workspaces
      BY <2>2 DEF SkipInv, MadeForXsa, TypeOK
    <3>2. boot.bit = xsa /\ boot.app = App
      BY <2>2, <3>1 DEF SkipInv, BootTrue, BootCurrent
    <3>3. App \in [hw : Nat, rev : Nat] /\ App.hw = xsa
      BY <3>1, BoundAssumption DEF App, Workspaces
    <3>4. App # None
      BY <3>3, NoneAssumption
    <3> QED BY <2>2, <3>2, <3>3, <3>4 DEF SkipsAreTrue, WholeBoot, BootCurrent
  <2> QED BY <2>1, <2>2 DEF SkipsAreTrue
<1> QED BY <1>1, <1>2, <1>3, PTL DEF Spec

----------------------------------------------------------------------------
(* After clean --keep-boot everything still reads as built.                 *)

\* A build that is not exported yet is later than the boot file's, which was
\* BOOT.BIN written after the export of its XSA.
KeptInv ==
    /\ MadeForXsa
    /\ bit <= built /\ boot.bit <= built
    /\ xsa = 0 /\ bit # 0 => boot.bit < bit
    /\ Detected(design.top \cup design.subs) # "microblaze" /\ xsa # 0 /\ boot.bit = xsa
          => <<"boot", "xsa">> \notin older

LEMMA KeptLeaves ==
    ASSUME KeptInv, MadeForXsa', UNCHANGED <<design, bit, xsa, built>>, boot'.bit = boot.bit,
           <<"boot", "xsa">> \in older' => <<"boot", "xsa">> \in older
    PROVE  KeptInv'
  BY DEF KeptInv, Detected

\* A build is later than any before; its export makes no boot file of it older.
LEMMA KeptVivado ==
    ASSUME KeptInv, MadeForXsa', VivadoStage \/ CleanProject
    PROVE  KeptInv'
<1> USE DEF vivado, vitis
<1>1. /\ UNCHANGED <<design, boot>> /\ boot \in Boots
      /\ boot.bit \in Nat /\ bit \in Nat /\ built \in Nat
  BY BoundAssumption
     DEF KeptInv, MadeForXsa, TypeOK, Boots, VivadoStage, Project, Xsa, Implement, Export, CleanProject
<1>2. CASE Project \/ Xsa
  BY <1>2, KeptLeaves DEF Project, Xsa
<1>3. CASE Implement
  <2>1. xsa = 0 /\ xsa' = 0
    BY <1>3 DEF Implement, KeptInv, MadeForXsa
  <2>2. UNCHANGED <<bit, built>> \/ (bit' = built + 1 /\ built' = built + 1)
    BY <1>3 DEF Implement
  <2> QED BY <1>1, <2>1, <2>2 DEF KeptInv
<1>4. CASE Export
  <2>1. UNCHANGED <<bit, built>> /\ xsa = 0 /\ bit # 0
    BY <1>4 DEF Export, KeptInv, MadeForXsa
  <2>2. CASE UNCHANGED <<xsa, older>>
    BY <1>1, <2>1, <2>2, KeptLeaves
  <2>3. CASE xsa' = bit
    BY <1>1, <2>1, <2>3 DEF KeptInv
  <2> QED BY <1>4, <2>2, <2>3 DEF Export
<1>5. CASE CleanProject
  <2>1. bit' = 0 /\ xsa' = 0 /\ built' = built
    BY <1>5 DEF CleanProject
  <2> QED BY <1>1, <2>1 DEF KeptInv
<1> QED BY <1>2, <1>3, <1>4, <1>5 DEF VivadoStage

\* BOOT.BIN, of the XSA there is, is written after its export.
LEMMA KeptBoot ==
    ASSUME KeptInv, MadeForXsa', StartBootgen \/ Bootgen \/ CopyBit \/ CopyElf
    PROVE  KeptInv'
<1> USE DEF DesignSame, vivado
<1>1. /\ UNCHANGED <<design, bit, xsa, built>> /\ xsa # 0 /\ bit = xsa /\ ws.hw = xsa
      /\ boot \in Boots
  BY DEF KeptInv, MadeForXsa, TypeOK, StartBootgen, Bootgen, CopyBit, CopyElf, MakeBoot
<1>2. CASE StartBootgen
  <2>1. boot'.bit = xsa
    BY <1>1, <1>2 DEF StartBootgen
  <2>2. <<"boot", "xsa">> \notin older'
    BY <1>2, TouchedPairs DEF StartBootgen, Files
  <2> QED BY <1>1, <2>1, <2>2 DEF KeptInv
<1>3. CASE Bootgen \/ CopyElf
  <2>1. boot'.bit = boot.bit
    BY <1>1, <1>3 DEF Bootgen, CopyElf, Boots
  <2>2. <<"boot", "xsa">> \in older' => <<"boot", "xsa">> \in older
    BY <1>3, TouchedPairs, CopiedPairs DEF Bootgen, CopyElf, Files
  <2> QED BY <1>1, <2>1, <2>2, KeptLeaves
<1>4. CASE CopyBit
  <2>1. boot'.bit = xsa /\ Detected(design.top \cup design.subs) = "microblaze"
    BY <1>1, <1>4 DEF CopyBit, MakeBoot, Boots
  <2> QED BY <1>1, <2>1 DEF KeptInv
<1> QED BY <1>2, <1>3, <1>4

LEMMA KeptStep == KeptInv /\ [Next]_vars => KeptInv'
<1> SUFFICES ASSUME KeptInv, [Next]_vars PROVE KeptInv'
  OBVIOUS
<1> USE DEF vivado, vitis, DesignSame
<1>1. MadeForXsa'
  BY MadeStep DEF KeptInv
<1>2. CASE VivadoStage \/ CleanProject
  BY <1>1, <1>2, KeptVivado
<1>3. CASE StartBootgen \/ Bootgen \/ CopyBit \/ CopyElf
  BY <1>1, <1>3, KeptBoot
<1>4. CASE CleanBoot
  <2>1. boot'.bit = 0 /\ UNCHANGED <<bit, xsa, built>> /\ built \in Nat /\ bit \in Nat
    BY <1>4, BoundAssumption DEF CleanBoot, NoBoot, KeptInv, MadeForXsa, TypeOK
  <2> QED BY <1>1, <2>1 DEF KeptInv
<1>5. ASSUME UNCHANGED <<design, bit, xsa, built, boot>>,
             \/ older' \in {older, Without({"ws", "elf"}), Without({"zip"})}
             \/ older' \in {Touched("ws"), Touched("elf"), Touched("zip")}
      PROVE  KeptInv'
  <2>1. <<"boot", "xsa">> \in older' => <<"boot", "xsa">> \in older
    BY <1>5, TouchedPairs, WithoutPairs DEF Files
  <2> QED BY <1>1, <1>5, <2>1, KeptLeaves
<1>6. CASE Command \/ Kill \/ Standalone \/ Workspace \/ Compare \/ MakeBootFails
  BY <1>5, <1>6 DEF Command, Kill, Standalone, Workspace, Compare, MakeBootFails
<1>7. CASE BuildVitis
  BY <1>5, <1>7 DEF BuildVitis, SetupEmbeddedsw, CreatePlatform, ConfigureBsp, BuildPlatform,
     CreateApp, CopySources, SetLinker, BuildApp, Make, VitisFails, RemoveWorkspace
<1>8. CASE Package \/ ZipWritten \/ RebuildApp \/ CleanWorkspace \/ CleanZip
  BY <1>5, <1>8 DEF Package, ZipWritten, RebuildApp, CleanWorkspace, CleanZip, RemoveWorkspace
<1>9. CASE KeepBoot \/ UNCHANGED vars
  BY <1>5, <1>9 DEF KeepBoot, PlanKeepBoot, Confirm, RemovePlanned, RemoveWorkspace, vars
<1> QED BY <1>2, <1>3, <1>4, <1>6, <1>7, <1>8, <1>9 DEF Next, BootStage, Clean

\* "'status' / 'package' / 'all' still see it as built" (keep_boot_plan), when
\* make-boot.py takes a Zynq target for one: with the workspace gone, a whole
\* BOOT.BIN of the XSA there is makes the boot file's stage skip.
THEOREM StandaloneKeptReadsAsBuilt ==
    ASSUME ZynqDesigns
    PROVE  Spec => []KeptReadsAsBuilt
<1>1. Init => KeptInv
  BY MadeInit DEF Init, KeptInv, NoBoot
<1>2. KeptInv /\ [Next]_vars => KeptInv'
  BY KeptStep
<1>3. KeptInv => KeptReadsAsBuilt
  <2> SUFFICES ASSUME KeptInv, design.family = "zynqmp", ws = None, WholeBoot, xsa # 0,
                      boot.bit = xsa
               PROVE  BootKept
    BY DEF KeptReadsAsBuilt, AllIsNoOp
  <2>1. Detected(design.top \cup design.subs) # "microblaze"
    BY DEF KeptInv, MadeForXsa, TypeOK, ZynqDesigns
  <2> QED BY <2>1 DEF KeptInv, BootKept, WholeBoot
<1> QED BY <1>1, <1>2, <1>3, PTL DEF Spec

----------------------------------------------------------------------------
(* The embeddedsw repository of the workspace (WorkspaceFiles).            *)

\* What the two overlays patch, and what a component with a patch needs.
Patched == Patches("base") \cup Patches("overlay")
Needed == {p \in input.install : Head(p) \in Components(Patched) /\ p[2] \in {"src", "data"}}

\* The directories that are filled are those of the components with a patch.
LEMMA FilledAreNeeded ==
    ASSUME input \in Inputs, DOMAIN local = Patched
    PROVE  {p \in input.install : \E d \in SourceDirs : IsPrefix(d, p)} = Needed
<1> DEFINE Above(q) == {SubSeq(q, 1, n) : n \in 0..(Len(q) - 1)}
           Filling == {p \in input.install : \E d \in SourceDirs : IsPrefix(d, p)}
<1>1. ASSUME NEW q \in Patched
      PROVE  /\ q \in Seq(STRING) /\ Len(q) \in Nat /\ Len(q) > 1
             /\ Len(q) > 2 => q[2] \in {"src", "data"}
  BY LayoutAssumption DEF Patched, Patches
<1>2. ASSUME NEW p \in input.install
      PROVE  p \in Seq(STRING) /\ Len(p) \in Nat /\ Len(p) > 1 /\ p[1] \notin {"src", "data"}
  BY LayoutAssumption
<1>3. ASSUME NEW p \in input.install, NEW q \in Patched, NEW n \in 0..(Len(q) - 1),
             NEW s \in {"src", "data"}
      PROVE  IsPrefix(Append(SubSeq(q, 1, n), s), p) <=>
                n + 1 <= Len(p) /\ (\A i \in 1..n : p[i] = q[i]) /\ p[n + 1] = s
  <2> DEFINE Names == STRING \cup {"src", "data"}
  <2>1. q \in Seq(Names) /\ p \in Seq(Names) /\ s \in Names
    BY <1>1, <1>2, SeqSubset
  <2> HIDE DEF Names
  <2> QED BY <2>1, ChildPrefix
<1>4. ASSUME NEW p \in input.install, NEW q \in Patched, NEW n \in 0..(Len(q) - 1),
             NEW s \in {"src", "data"}, IsPrefix(Append(SubSeq(q, 1, n), s), p)
      PROVE  p \in Needed
  <2>1. n + 1 <= Len(p) /\ (\A i \in 1..n : p[i] = q[i]) /\ p[n + 1] = s
    BY <1>3, <1>4
  <2>2. n # 0
    BY <1>2, <2>1
  <2>3. p[1] = q[1]
    BY <2>1, <2>2
  <2>4. p[2] \in {"src", "data"}
    <3>1. CASE n = 1
      BY <2>1, <3>1
    <3>2. CASE n > 1
      BY <1>1, <2>1, <3>2
    <3> QED BY <2>2, <3>1, <3>2
  <2>5. Head(p) = Head(q)
    BY <1>1, <1>2, <2>3
  <2> QED BY <2>4, <2>5 DEF Needed, Components
<1>5. ASSUME NEW p \in input.install, NEW q \in Patched, Head(p) = Head(q),
             p[2] \in {"src", "data"}
      PROVE  IsPrefix(Append(SubSeq(q, 1, 1), p[2]), p)
  <2>1. p[1] = q[1] /\ 1 \in 0..(Len(q) - 1) /\ 1 + 1 <= Len(p)
    BY <1>1, <1>2, <1>5
  <2> QED BY <1>3, <1>5, <2>1
<1>6. ASSUME NEW p \in input.install
      PROVE  (\E d \in SourceDirs : IsPrefix(d, p)) <=> p \in Needed
  <2>1. ASSUME NEW d \in SourceDirs, IsPrefix(d, p) PROVE p \in Needed
    <3>1. PICK c \in Dirs(Patched), s \in {"src", "data"} : d = Append(c, s)
      BY DEF SourceDirs
    <3>2. PICK q \in Patched : c \in Above(q)
      BY DEF Dirs
    <3>3. PICK n \in 0..(Len(q) - 1) : c = SubSeq(q, 1, n)
      BY <3>2
    <3> QED BY <1>4, <2>1, <3>1, <3>3
  <2>2. ASSUME p \in Needed PROVE \E d \in SourceDirs : IsPrefix(d, p)
    <3>1. PICK q \in Patched : Head(p) = Head(q) /\ p[2] \in {"src", "data"}
      BY <2>2 DEF Needed, Components
    <3>2. SubSeq(q, 1, 1) \in Above(q)
      BY <1>1
    <3>3. SubSeq(q, 1, 1) \in Dirs(DOMAIN local)
      BY <3>2, Zenon DEF Dirs
    <3>4. Append(SubSeq(q, 1, 1), p[2]) \in SourceDirs
      <4>1. \A c \in Dirs(DOMAIN local), s \in {"src", "data"} : Append(c, s) \in SourceDirs
        BY DEF SourceDirs
      <4> QED BY <3>1, <3>3, <4>1, Zenon
    <3> QED BY <1>5, <3>1, <3>4
  <2> QED BY <2>1, <2>2
<1> QED BY <1>6 DEF Needed

\* Where a file of the local repository comes from once both overlays are there.
Origin(p) == IF p \in Patches("overlay") THEN "overlay"
             ELSE IF p \in Patches("base") THEN "base" ELSE "install"

\* The local repository after each step, overlay by overlay.
RepoInv ==
    /\ input \in Inputs
    /\ pc = "base" => DOMAIN local = {}
    /\ pc = "overlay" => local = [p \in Patches("base") |-> "base"]
    /\ pc = "fill" => local = [p \in Patched |-> Origin(p)]
    /\ pc \notin {"base", "overlay", "fill"} => local = [p \in Patched \cup Needed |-> Origin(p)]

LEMMA RepoInit == FilesInit => RepoInv
  BY DEF FilesInit, RepoInv

\* Each overlay is copied over what is there; the install fills in.
LEMMA RepoStep == RepoInv /\ [FilesNext]_fileVars => RepoInv'
<1> SUFFICES ASSUME RepoInv, [FilesNext]_fileVars PROVE RepoInv'
  OBVIOUS
<1> USE DEF RepoInv
<1>1. CASE PatchBase
  <2>1. pc = "base" /\ local' = Overlaid(local, Patches("base"), "base") /\ pc' = "overlay"
        /\ input' = input
    BY <1>1 DEF PatchBase, Patch
  <2>2. local' = [p \in Patches("base") |-> "base"]
    BY <2>1 DEF Overlaid
  <2> QED BY <2>1, <2>2 DEF Patches
<1>2. CASE PatchArch
  <2>1. pc = "overlay" /\ local' = Overlaid(local, Patches("overlay"), "overlay")
        /\ pc' = "fill" /\ input' = input
    BY <1>2 DEF PatchArch, Patch
  <2>2. local' = [p \in Patched |-> Origin(p)]
    BY <2>1 DEF Overlaid, Patched, Origin
  <2> QED BY <2>1, <2>2 DEF Patches, Patched, Origin
<1>3. CASE Fill
  <2>1. /\ pc = "fill" /\ pc' = "sources" /\ input' = input
        /\ local' = Filled(local, {p \in input.install : \E d \in SourceDirs : IsPrefix(d, p)},
                           "install")
    BY <1>3 DEF Fill
  <2>2. DOMAIN local = Patched /\ \A p \in Patched : local[p] = Origin(p)
    BY <2>1
  <2>3. local' = Filled(local, Needed, "install")
    BY <2>1, <2>2, FilledAreNeeded
  <2>4. local' = [p \in Patched \cup Needed |-> Origin(p)]
    BY <2>2, <2>3 DEF Filled, Origin, Patched
  <2> QED BY <2>1, <2>4 DEF Patches, Patched, Needed, Origin, Components
<1>4. ASSUME UNCHANGED <<input, local>>, pc \notin {"base", "overlay", "fill"},
             pc' \notin {"base", "overlay", "fill"}
      PROVE  RepoInv'
  BY <1>4 DEF Patches, Patched, Needed, Origin, Components
<1>5. CASE CopySource
  BY <1>4, <1>5 DEF CopySource
<1>7. CASE CreateBoardH
  BY <1>4, <1>7 DEF CreateBoardH
<1>8. CASE ModifyLinkerScript
  BY <1>4, <1>8 DEF ModifyLinkerScript
<1>9. CASE UNCHANGED fileVars \/ Finished
  <2>1. input' = input /\ pc' = pc /\ local' = local
    BY <1>9 DEF fileVars, Finished
  <2>2. Patches("base")' = Patches("base") /\ Patched' = Patched
    BY <2>1 DEF Patches, Patched
  <2>3. Needed' = Needed
    BY <2>1, <2>2 DEF Needed
  <2>4. \A p : Origin(p)' = Origin(p)
    BY <2>1 DEF Origin, Patches
  <2> QED BY <2>1, <2>2, <2>3, <2>4
<1> QED BY <1>1, <1>2, <1>3, <1>5, <1>7, <1>8, <1>9 DEF FilesNext

\* setup_embeddedsw: the later overlay wins over the earlier and both over the
\* install, and a component with a patch has the install's src and data beside
\* it, wherever in the component the patch is.
THEOREM WorkspaceRepoComplete == FilesSpec => []RepoComplete
<1>1. RepoInv => RepoComplete
  <2> SUFFICES ASSUME RepoInv, pc \notin {"base", "overlay", "fill"}
               PROVE  /\ DOMAIN local = Patched \cup Needed
                      /\ \A p \in DOMAIN local : local[p] = Origin(p)
    BY DEF RepoComplete, Patched, Needed, Origin
  <2> QED BY DEF RepoInv
<1> QED BY RepoInit, RepoStep, <1>1, PTL DEF FilesSpec

----------------------------------------------------------------------------
(* The application's sources and its linker script (WorkspaceFiles).       *)

\* The last of the first n items that have a file gives it.
GiversTo(f, n) == {i \in 1..n : f \in Given(i)}
SourceOf(f, n) ==
    IF GiversTo(f, n) = {} THEN "vitis" ELSE SourceItems[Latest(GiversTo(f, n))].name

\* app as it is after n items, before board.h is written.
SourcesTo(n) == Generated \cup UNION {Given(i) : i \in 1..n}

SectionsPlaced ==
    /\ input.mod = "relocate_to_local_mem" => section = RelocateAll(First("local"))
    /\ input.mod = "relocate_to_ddr" => section = RelocateAll(First("ddr"))
    /\ input.mod = "code_local_bss_ddr" =>
          section = [s \in Sections |->
                        First(IF s \in {".bss", ".heap"} THEN "ddr" ELSE "local")]

AppInv ==
    /\ pc \in MainSteps /\ copied \in 0..Len(SourceItems)
    /\ section \in [Sections -> ToSet(input.memories)]
    /\ pc \notin {"linker", "done"} =>
           app = [f \in SourcesTo(copied) |-> SourceOf(f, copied)]
    /\ pc \in {"base", "overlay", "fill"} => copied = 0
    /\ pc \in {"linker", "done"} =>
           /\ copied = Len(SourceItems)
           /\ app = [f \in SourcesTo(copied) \cup {"board.h"} |->
                        IF f = "board.h" THEN "board" ELSE SourceOf(f, copied)]
    /\ pc = "done" /\ (\A kind \in Needs : Named(kind) # {}) => SectionsPlaced

\* The list of items is one, whichever entries it comes from.
LEMMA ItemsListed ==
    ASSUME input \in Inputs
    PROVE  SourceItems \in Seq(Items) /\ Len(SourceItems) \in Nat
<1>1. CASE input.override # <<>>
  <2>1. Head(input.override) \in Seq(Items) /\ Head(input.override) = input.override[1]
    BY <1>1, InputAssumption
  <2> QED BY <1>1, <2>1, LenProperties DEF SourceItems
<1>2. CASE input.override = <<>>
  <2>1. input.all \in Seq(Items) /\ input.arch \in Seq(Items)
    BY InputAssumption
  <2>2. input.all \o input.arch \in Seq(Items)
    BY <2>1, ConcatProperties
  <2> QED BY <1>2, <2>2, LenProperties DEF SourceItems
<1> QED BY <1>1, <1>2

\* A memory that is found is one of the script's.
LEMMA FirstIsMemory ==
    ASSUME input \in Inputs, NEW kind, Named(kind) # {}
    PROVE  First(kind) \in ToSet(input.memories)
<1>1. input.memories \in Seq(STRING \X Nat)
  BY InputAssumption
<1>2. Named(kind) \subseteq DOMAIN input.memories /\ Named(kind) \in SUBSET Nat
  BY <1>1 DEF Named
<1>3. \E i \in Named(kind) : \A j \in Named(kind) : i <= j
  BY <1>2, LeastElement
<1>4. (CHOOSE i \in Named(kind) : \A j \in Named(kind) : i <= j) \in DOMAIN input.memories
  BY <1>2, <1>3
<1> QED BY <1>4, Zenon DEF First, ToSet

LEMMA AppInit == FilesInit => AppInv
<1> SUFFICES ASSUME FilesInit PROVE AppInv
  OBVIOUS
<1>1. input \in Inputs /\ pc = "base" /\ copied = 0 /\ app = [f \in Generated |-> "vitis"]
      /\ section = input.script
  BY DEF FilesInit
<1>2. Len(SourceItems) \in Nat
  BY <1>1, ItemsListed
<1>3. SourcesTo(0) = Generated /\ \A f : SourceOf(f, 0) = "vitis"
  BY DEF SourcesTo, SourceOf, GiversTo
<1>4. section \in [Sections -> ToSet(input.memories)]
  BY <1>1, InputAssumption
<1> QED BY <1>1, <1>2, <1>3, <1>4 DEF AppInv, MainSteps

\* One more item: its files are its own, the others stay as they were.
LEMMA OneMoreItem ==
    ASSUME input \in Inputs, NEW n \in Nat, n < Len(SourceItems)
    PROVE  CopyItem([f \in SourcesTo(n) |-> SourceOf(f, n)], SourceItems[n + 1]) =
           [f \in SourcesTo(n + 1) |-> SourceOf(f, n + 1)]
<1>1. 1..(n + 1) = (1..n) \cup {n + 1}
  OBVIOUS
<1>2. SourcesTo(n + 1) = SourcesTo(n) \cup Given(n + 1)
  BY <1>1 DEF SourcesTo
<1>3. ASSUME NEW f \in Given(n + 1) PROVE SourceOf(f, n + 1) = SourceItems[n + 1].name
  <2>1. n + 1 \in GiversTo(f, n + 1) /\ GiversTo(f, n + 1) \subseteq 1..(n + 1)
    BY <1>1, <1>3 DEF GiversTo
  <2>2. Latest(GiversTo(f, n + 1)) = n + 1
    BY <2>1 DEF Latest
  <2> QED BY <2>1, <2>2 DEF SourceOf
<1>4. ASSUME NEW f, f \notin Given(n + 1) PROVE SourceOf(f, n + 1) = SourceOf(f, n)
  <2>1. GiversTo(f, n + 1) = GiversTo(f, n)
    BY <1>1, <1>4 DEF GiversTo
  <2> QED BY <2>1 DEF SourceOf
<1> QED BY <1>2, <1>3, <1>4 DEF CopyItem, Overlaid, Given

\* What an inactive step leaves, it leaves as it was.
LEMMA AppStep == RepoInv /\ AppInv /\ [FilesNext]_fileVars => AppInv'
<1> SUFFICES ASSUME RepoInv, AppInv, [FilesNext]_fileVars PROVE AppInv'
  OBVIOUS
<1>0. input \in Inputs
  BY DEF RepoInv
<1>1. ASSUME input' = input
      PROVE  /\ SourceItems' = SourceItems /\ Needs' = Needs
             /\ \A kind : Named(kind)' = Named(kind) /\ First(kind)' = First(kind)
             /\ \A n : SourcesTo(n)' = SourcesTo(n)
             /\ \A n, f : SourceOf(f, n)' = SourceOf(f, n)
  BY <1>1 DEF SourceItems, Needs, Named, First, SourcesTo, SourceOf, GiversTo, Given
<1>2. CASE PatchBase \/ PatchArch \/ Fill
  <2>1. /\ pc \in {"base", "overlay", "fill"} /\ pc' \in {"overlay", "fill", "sources"}
        /\ UNCHANGED <<input, app, copied, section>>
    BY <1>2 DEF PatchBase, PatchArch, Patch, Fill
  <2> QED BY <1>1, <2>1 DEF AppInv, MainSteps
<1>3. CASE CopySource
  <2>1. /\ pc = "sources" /\ copied < Len(SourceItems) /\ copied' = copied + 1
        /\ app' = CopyItem(app, SourceItems[copied + 1])
        /\ UNCHANGED <<input, pc, section>>
    BY <1>3 DEF CopySource
  <2>2. copied \in Nat /\ app = [f \in SourcesTo(copied) |-> SourceOf(f, copied)]
    BY <2>1 DEF AppInv
  <2>3. app' = [f \in SourcesTo(copied + 1) |-> SourceOf(f, copied + 1)]
    BY <1>0, <2>1, <2>2, OneMoreItem
  <2>4. copied' \in 0..Len(SourceItems)
    BY <1>0, <2>1, <2>2, ItemsListed
  <2> QED BY <1>1, <2>1, <2>3, <2>4 DEF AppInv, MainSteps
<1>4. CASE CreateBoardH
  <2>1. /\ pc = "sources" /\ copied = Len(SourceItems) /\ pc' = "linker"
        /\ app' = Overlaid(app, {"board.h"}, "board")
        /\ UNCHANGED <<input, copied, section>>
    BY <1>4 DEF CreateBoardH
  <2>2. app = [f \in SourcesTo(copied) |-> SourceOf(f, copied)]
    BY <2>1 DEF AppInv
  <2>3. app' = [f \in SourcesTo(copied) \cup {"board.h"} |->
                  IF f = "board.h" THEN "board" ELSE SourceOf(f, copied)]
    BY <2>1, <2>2 DEF Overlaid
  <2> QED BY <1>1, <2>1, <2>3 DEF AppInv, MainSteps
<1>5. CASE ModifyLinkerScript
  <2>1. pc = "linker" /\ pc' = "done" /\ UNCHANGED <<input, app, copied>>
    BY <1>5 DEF ModifyLinkerScript
  <2>2. section' = section \/ ((\A kind \in Needs : Named(kind) # {}) /\ Relocated)
    BY <1>5 DEF ModifyLinkerScript
  <2>3. input.mod \in {"none", "relocate_to_local_mem", "relocate_to_ddr", "code_local_bss_ddr"}
    BY <1>0, InputAssumption
  <2>4. section \in [Sections -> ToSet(input.memories)]
    BY DEF AppInv
  <2>5. CASE \A kind \in Needs : Named(kind) # {}
    <3>1. \A kind \in Needs : First(kind) \in ToSet(input.memories)
      BY <1>0, <2>5, FirstIsMemory
    <3>2. Relocated
      BY <1>5, <2>5 DEF ModifyLinkerScript
    <3>3. CASE input.mod = "none"
      BY <1>1, <2>1, <2>4, <3>2, <3>3 DEF AppInv, MainSteps, Relocated, SectionsPlaced
    <3>4. CASE input.mod = "relocate_to_local_mem"
      <4>1. section' = RelocateAll(First("local")) /\ First("local") \in ToSet(input.memories)
        BY <3>1, <3>2, <3>4 DEF Relocated, Needs
      <4> QED BY <1>1, <2>1, <3>4, <4>1 DEF AppInv, MainSteps, RelocateAll, SectionsPlaced
    <3>5. CASE input.mod = "relocate_to_ddr"
      <4>1. section' = RelocateAll(First("ddr")) /\ First("ddr") \in ToSet(input.memories)
        BY <3>1, <3>2, <3>5 DEF Relocated, Needs
      <4> QED BY <1>1, <2>1, <3>5, <4>1 DEF AppInv, MainSteps, RelocateAll, SectionsPlaced
    <3>6. CASE input.mod = "code_local_bss_ddr"
      <4>1. /\ section' = [RelocateAll(First("local")) EXCEPT
                              ![".bss"] = First("ddr"), ![".heap"] = First("ddr")]
            /\ {First("local"), First("ddr")} \subseteq ToSet(input.memories)
        BY <3>1, <3>2, <3>6 DEF Relocated, Needs
      <4>2. section' = [s \in Sections |->
                          First(IF s \in {".bss", ".heap"} THEN "ddr" ELSE "local")]
        BY <4>1 DEF RelocateAll, Sections
      <4>3. section' \in [Sections -> ToSet(input.memories)]
        BY <4>1, <4>2
      <4> QED BY <1>1, <2>1, <3>6, <4>2, <4>3 DEF AppInv, MainSteps, SectionsPlaced
    <3> QED BY <2>3, <3>3, <3>4, <3>5, <3>6
  <2>6. CASE ~ (\A kind \in Needs : Named(kind) # {})
    BY <1>1, <2>1, <2>2, <2>4, <2>6 DEF AppInv, MainSteps
  <2> QED BY <2>5, <2>6
<1>6. CASE UNCHANGED fileVars \/ Finished
  <2>1. UNCHANGED <<input, pc, app, copied, section>>
    BY <1>6 DEF fileVars, Finished
  <2>2. (\A kind \in Needs : Named(kind) # {})' <=> \A kind \in Needs : Named(kind) # {}
    BY <1>1, <2>1
  <2>3. SectionsPlaced' <=> SectionsPlaced
    BY <1>1, <2>1 DEF SectionsPlaced, RelocateAll
  <2> QED BY <1>1, <2>1, <2>2, <2>3 DEF AppInv
<1> QED BY <1>2, <1>3, <1>4, <1>5, <1>6 DEF FilesNext

\* The sources are those args.json asks for, whatever the entries and the files
\* they have: none is missing, the last item that has a file gives it, board.h
\* is the target's, and the linker mod leaves no section in a memory it empties.
THEOREM WorkspaceAppAsConfigured == FilesSpec => []AppAsConfigured
<1>1. RepoInv /\ AppInv => AppAsConfigured
  <2> SUFFICES ASSUME RepoInv, AppInv PROVE AppAsConfigured
    OBVIOUS
  <2>1. FilesTyped
    <3>1. \A p \in DOMAIN local : local[p] \in {"base", "overlay", "install"}
      BY DEF RepoInv, AppInv, MainSteps, Origin
    <3> QED BY <3>1 DEF AppInv, FilesTyped
  <2>2. DOMAIN SourceItems = 1..Len(SourceItems)
    BY ItemsListed, LenProperties DEF RepoInv
  <2>3. \A f : Givers(f) = GiversTo(f, Len(SourceItems))
    BY <2>2 DEF Givers, GiversTo
  <2>4. ASSUME pc \in {"linker", "done"}
        PROVE  /\ app = [f \in SourcesTo(Len(SourceItems)) \cup {"board.h"} |->
                            IF f = "board.h" THEN "board" ELSE SourceOf(f, Len(SourceItems))]
               /\ SourcesTo(Len(SourceItems)) =
                     Generated \cup UNION {Given(i) : i \in DOMAIN SourceItems}
    BY <2>2, <2>4 DEF AppInv, SourcesTo
  <2>5. pc = "done" /\ (\A kind \in Needs : Named(kind) # {}) =>
          /\ input.mod = "relocate_to_local_mem" =>
                \A s \in Sections : section[s] = First("local")
          /\ input.mod = "relocate_to_ddr" => \A s \in Sections : section[s] = First("ddr")
          /\ input.mod = "code_local_bss_ddr" =>
                \A s \in Sections :
                    section[s] = First(IF s \in {".bss", ".heap"} THEN "ddr" ELSE "local")
    BY DEF AppInv, SectionsPlaced, RelocateAll
  <2>6. ASSUME pc \in {"linker", "done"}
        PROVE  /\ DOMAIN app = Generated \cup {"board.h"}
                                 \cup UNION {Given(i) : i \in DOMAIN SourceItems}
               /\ app["board.h"] = "board"
               /\ \A f \in DOMAIN app \ {"board.h"} :
                     app[f] = IF Givers(f) = {} THEN "vitis"
                              ELSE SourceItems[Latest(Givers(f))].name
    BY <2>3, <2>4, <2>6 DEF SourceOf
  <2> QED BY <2>1, <2>5, <2>6 DEF AppAsConfigured
<1> QED BY RepoInit, RepoStep, AppInit, AppStep, <1>1, PTL DEF FilesSpec
=============================================================================
