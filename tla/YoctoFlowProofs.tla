--------------------------- MODULE YoctoFlowProofs ---------------------------
(***************************************************************************)
(* Proofs about YoctoFlow, for every number of contents and of XSAs.  That *)
(* about the marker assumes that no command runs between the plan of a     *)
(* --keep-boot and its end, and that its deletion is not cut short: either *)
(* may leave a marker without the configuration it stands for.  That about *)
(* images reported up to date assumes that the board's configuration is    *)
(* not edited between the configure script and the marker.                 *)
(***************************************************************************)
EXTENDS YoctoFlow, TLAPS

\* Writing a file changes comparisons of files only.
LEMMA TouchedType == older \subseteq Compared => \A f : Touched(f) \subseteq Compared
  BY DEF Touched

LEMMA InputsType == TypeOK => Inputs \in Records
  BY DEF TypeOK, Inputs, Records

LEMMA TypeInit == Init => TypeOK
<1> SUFFICES ASSUME Init PROVE TypeOK
  OBVIOUS
<1>1. 0 \in 0..MaxXsa
  BY BoundAssumption
<1>2. images \in [Products -> Records \cup {None}]
  BY DEF Init
<1> QED BY <1>1, <1>2 DEF Init, TypeOK, Steps

LEMMA UserType ==
    ASSUME TypeOK, User
    PROVE  TypeOK'
<1>1. conf' \in Confs /\ recipe' \in Recipes /\ older' \subseteq Compared
  <2>1. CASE EditConf
    BY <2>1, TouchedType DEF EditConf, TypeOK
  <2>2. CASE RemoveConf
    BY <2>2, BoundAssumption DEF RemoveConf, TypeOK
  <2>3. CASE EditRecipe
    BY <2>3 DEF EditRecipe, TypeOK
  <2> QED BY <2>1, <2>2, <2>3 DEF User
<1>2. UNCHANGED <<hardware, work, products, run, local, plan, adopted>>
  BY DEF User, EditConf, RemoveConf, EditRecipe
<1> QED BY <1>1, <1>2 DEF TypeOK, hardware, work, products, local

LEMMA CommandType ==
    ASSUME TypeOK, Command
    PROVE  TypeOK'
<1>1. run' \in {"xsa", "package", "idle"} /\ gather' \in BOOLEAN /\ plan' \subseteq plan
  BY DEF Command, Yocto, All, Build, Package, Die, TypeOK, local
<1>2. UNCHANGED <<sources, hardware, work, products, older, adopted>> /\ inputs' \in {inputs, None}
  BY DEF Command, Yocto, All, Build, Package, Die, local
<1> QED BY <1>1, <1>2 DEF TypeOK, Steps, sources, hardware, work, products

LEMMA ConfigureType ==
    ASSUME TypeOK, HandOff \/ Configure \/ Mark
    PROVE  TypeOK'
<1> USE DEF TypeOK, sources, hardware, products, local
<1>1. older' \subseteq Compared
  BY TouchedType DEF HandOff, Configure, Mark
<1>2. CASE HandOff
  BY <1>1, <1>2, InputsType DEF HandOff, Steps
<1>3. CASE Configure
  <2>1. [conf |-> conf, xsa |-> hwXsa] \in [conf : Confs, xsa : 0..MaxXsa]
    OBVIOUS
  <2>2. build' \in [conf : Confs, xsa : 0..MaxXsa] \cup {None} /\ run' \in {"bitbake", "mark"}
    BY <1>3, <2>1 DEF Configure
  <2> QED BY <1>1, <1>3, <2>2 DEF Configure, Steps
<1>4. CASE Mark
  BY <1>1, <1>4 DEF Mark, Steps
<1> QED BY <1>2, <1>3, <1>4

LEMMA StageType ==
    ASSUME TypeOK,
           Xsa \/ Check \/ Bitbake \/ GatherBoot \/ GatherWic \/ GatherBmap \/ WriteStamp \/ Zip \/ ZipWritten
    PROVE  TypeOK'
<1> USE DEF sources, hardware, work, products, local
<1>1. /\ UNCHANGED <<sources, hwXsa, build, done, plan>>
      /\ inputs' \in {inputs, None} /\ gather' \in {gather, FALSE}
  BY DEF Xsa, Check, Adopt, Bitbake, GatherBoot, GatherWic, GatherBmap, Gather, WriteStamp, Zip, ZipWritten
<1>2. run' \in Steps
  BY DEF Xsa, Check, Over, Bitbake, GatherBoot, GatherWic, GatherBmap, Gather, WriteStamp, Zip, ZipWritten, Steps
<1>3. {xsa', built'} \subseteq 0..MaxXsa
  BY BoundAssumption DEF Xsa, Check, Adopt, Bitbake, GatherBoot, GatherWic, GatherBmap, Gather, WriteStamp, Zip,
     ZipWritten, TypeOK
<1>4. older' \subseteq Compared
  BY TouchedType DEF Xsa, Check, Bitbake, GatherBoot, GatherWic, GatherBmap, Gather, WriteStamp, Zip, ZipWritten,
     TypeOK
<1>5. deploy' \in Records \cup {None}
  <2>1. CASE Bitbake
    <3>1. build.conf \in Confs /\ build.xsa \in 0..MaxXsa /\ recipe \in Recipes
      BY <2>1 DEF Bitbake, TypeOK
    <3> QED BY <2>1, <3>1 DEF Bitbake, Records
  <2>2. CASE ~Bitbake
    BY <2>2 DEF Xsa, Check, GatherBoot, GatherWic, GatherBmap, Gather, WriteStamp, Zip, ZipWritten, TypeOK
  <2> QED BY <2>1, <2>2
<1>6. images' \in [Products -> Records \cup {None}]
  BY DEF Xsa, Check, Adopt, Bitbake, GatherBoot, GatherWic, GatherBmap, Gather, WriteStamp, Zip, ZipWritten, TypeOK
<1>7. stamp' \in Records \cup {None} /\ adopted' \in BOOLEAN
  BY InputsType DEF Xsa, Check, Adopt, Bitbake, GatherBoot, GatherWic, GatherBmap, Gather, WriteStamp,
     StampSnapshot, Zip, ZipWritten, TypeOK
<1>8. zip' \in [Products -> Records \cup {None}] \cup {None, Partial}
  BY DEF Xsa, Check, Adopt, Bitbake, GatherBoot, GatherWic, GatherBmap, Gather, WriteStamp, Zip, ZipWritten, TypeOK
<1> QED BY <1>1, <1>2, <1>3, <1>4, <1>5, <1>6, <1>7, <1>8 DEF TypeOK

LEMMA CleanType ==
    ASSUME TypeOK, Clean
    PROVE  TypeOK'
<1> USE DEF TypeOK, sources, hardware, work, products, local
<1>1. 0 \in 0..MaxXsa
  BY BoundAssumption
<1>2. CASE CleanXsa \/ CleanPackage
  BY <1>1, <1>2 DEF CleanXsa, CleanPackage
<1>3. CASE CleanYocto
  BY <1>1, <1>3 DEF CleanYocto
<1>4. CASE PlanKeepBoot
  BY <1>4 DEF PlanKeepBoot, Pruned
<1>5. CASE Confirm
  BY <1>5 DEF Confirm, Steps
<1>6. CASE RemovePlanned
  <2>1. plan' \subseteq plan /\ run' \in {"idle", "prune"}
    BY <1>6 DEF RemovePlanned
  <2>2. /\ build' \in {build, None} /\ deploy' \in {deploy, None}
        /\ done' \in BOOLEAN /\ hwXsa' \in {hwXsa, 0}
    BY <1>6 DEF RemovePlanned
  <2> QED BY <1>1, <1>6, <2>1, <2>2 DEF RemovePlanned, Steps
<1> QED BY <1>2, <1>3, <1>4, <1>5, <1>6 DEF Clean

LEMMA TypeStep == TypeOK /\ [Next]_vars => TypeOK'
<1>1. TypeOK /\ UNCHANGED vars => TypeOK'
  BY DEF TypeOK, vars, sources, hardware, work, products, local
<1> QED BY <1>1, UserType, CommandType, ConfigureType, StageType, CleanType DEF Next, Stage

----------------------------------------------------------------------------
(* The marker of the configure step.                                       *)

\* The user's edits touch neither the marker nor the plan.
LEMMA UserStep ==
    ASSUME MarkerMeansConfigured, TypeOK', User
    PROVE  MarkerMeansConfigured'
<1>1. UNCHANGED <<hardware, work, products, run, local, plan, adopted>>
  BY DEF User, EditConf, RemoveConf, EditRecipe
<1> QED BY <1>1 DEF MarkerMeansConfigured, Exists, hardware, work, products, local

\* Commands start from an idle target with no plan; no deletion dies.
LEMMA CommandStep ==
    ASSUME MarkerMeansConfigured, TypeOK', Command, PlanMayAge = FALSE, "prune" \notin Dies
    PROVE  MarkerMeansConfigured'
<1> USE DEF MarkerMeansConfigured, sources, hardware, work, products, local
<1>1. CASE Yocto \/ All \/ Package
  BY <1>1 DEF Yocto, All, Build, Package, Unplanned
<1>2. CASE Die
  <2>1. run # "prune" /\ run' = "idle" /\ plan' = plan
    BY <1>2 DEF Die
  <2>2. UNCHANGED work
    BY <1>2 DEF Die
  <2> QED BY <2>1, <2>2 DEF Exists
<1> QED BY <1>1, <1>2 DEF Command

\* stage_yocto: the marker is written after build/conf.
LEMMA ConfigureStep ==
    ASSUME MarkerMeansConfigured, TypeOK', HandOff \/ Configure \/ Mark
    PROVE  MarkerMeansConfigured'
<1> USE DEF MarkerMeansConfigured
<1>1. plan = {} /\ plan' = {}
  BY DEF HandOff, Configure, Mark
<1>2. CASE HandOff
  BY <1>1, <1>2 DEF HandOff
<1>3. CASE Configure
  <2>1. [conf |-> conf, xsa |-> hwXsa] # None
    <3>1. conf \in Nat /\ hwXsa \in Nat
      BY BoundAssumption DEF TypeOK
    <3> QED BY <3>1, NoneAssumption
  <2> QED BY <1>1, <1>3, <2>1 DEF Configure
<1>4. CASE Mark
  BY <1>1, <1>4 DEF Mark
<1> QED BY <1>2, <1>3, <1>4

\* The other stages leave build/conf and the marker as they are.
LEMMA StageStep ==
    ASSUME MarkerMeansConfigured, TypeOK',
           Xsa \/ Check \/ Bitbake \/ GatherBoot \/ GatherWic \/ GatherBmap \/ WriteStamp \/ Zip \/ ZipWritten
    PROVE  MarkerMeansConfigured'
<1>1. plan = {} /\ UNCHANGED <<build, done, plan>>
  BY DEF Xsa, Check, Bitbake, GatherBoot, GatherWic, GatherBmap, Gather, WriteStamp, Zip, ZipWritten, work,
     MarkerMeansConfigured
<1>2. run' \notin {"mark", "prune"}
  BY DEF Xsa, Check, Over, Bitbake, GatherBoot, GatherWic, GatherBmap, Gather, WriteStamp, Zip, ZipWritten
<1> QED BY <1>1, <1>2 DEF MarkerMeansConfigured

\* A plain clean takes the marker with build/conf.
LEMMA CleanStep ==
    ASSUME MarkerMeansConfigured, TypeOK', CleanXsa \/ CleanYocto \/ CleanPackage,
           PlanMayAge = FALSE
    PROVE  MarkerMeansConfigured'
<1>1. plan = {} /\ run = "idle" /\ UNCHANGED <<run, plan>>
  BY DEF CleanXsa, CleanYocto, CleanPackage, Unplanned
<1>2. done' => build' # None
  BY <1>1 DEF CleanXsa, CleanYocto, CleanPackage, work, MarkerMeansConfigured
<1> QED BY <1>1, <1>2 DEF MarkerMeansConfigured

\* The plan holds the marker whenever it holds build/conf, and everything in it
\* is still there when its turn comes: the deletion never stops half-way.
LEMMA KeepBootStep ==
    ASSUME MarkerMeansConfigured, TypeOK', PlanKeepBoot \/ Confirm \/ RemovePlanned, PlanMayAge = FALSE
    PROVE  MarkerMeansConfigured'
<1> USE DEF MarkerMeansConfigured, work
<1>1. CASE PlanKeepBoot
  <2>1. run = "idle" /\ \A e \in plan' : Exists(e)
    BY <1>1 DEF PlanKeepBoot, Pruned
  <2>2. done => "done" \in plan'
    BY <1>1 DEF PlanKeepBoot, Pruned, Exists
  <2> QED BY <1>1, <2>1, <2>2 DEF PlanKeepBoot, Exists
<1>2. CASE Confirm
  <2>1. run' \in {"idle", "prune"} /\ plan' \in {{}, plan} /\ (run' = "prune" => plan' = plan)
    BY <1>2 DEF Confirm
  <2>2. run = "idle" /\ plan # {} /\ UNCHANGED work
    BY <1>2 DEF Confirm
  <2> QED BY <2>1, <2>2 DEF Exists
<1>3. CASE RemovePlanned
  <2> DEFINE first == FirstOf(plan)
  <2>1. first \in plan /\ plan \subseteq {"build", "done", "hw"} /\ run = "prune"
    BY <1>3 DEF RemovePlanned, FirstOf, TypeOK
  <2>2. Exists(first)
    BY <2>1
  <2>3. /\ plan' = plan \ {first}
        /\ run' = IF plan' = {} THEN "idle" ELSE "prune"
        /\ done' = (done /\ first # "done")
        /\ hwXsa' = IF first = "hw" THEN 0 ELSE hwXsa
        /\ IF first = "build" THEN build' = None /\ deploy' = None
           ELSE UNCHANGED <<build, deploy>>
    BY <1>3, <2>2 DEF RemovePlanned
  <2>4. first # "build" => "build" \notin plan
    BY <1>3 DEF RemovePlanned, FirstOf
  <2>5. \A e \in plan' : Exists(e)'
    BY <2>1, <2>3 DEF Exists
  <2>6. done' => build' # None \/ (run' = "prune" /\ "done" \in plan')
    BY <2>1, <2>3
  <2> HIDE DEF first
  <2> QED BY <2>1, <2>3, <2>4, <2>5, <2>6
<1> QED BY <1>1, <1>2, <1>3

\* configdone.txt, the marker that stage_yocto compares, never outlives the
\* build/conf it stands for, except while --keep-boot deletes both (build.py:1528).
THEOREM YoctoMarkerMeansConfigured ==
    ASSUME PlanMayAge = FALSE, "prune" \notin Dies
    PROVE  Spec => []MarkerMeansConfigured
<1>1. Init => MarkerMeansConfigured
  BY TypeInit DEF Init, MarkerMeansConfigured
<1>2. MarkerMeansConfigured /\ [Next]_vars => MarkerMeansConfigured'
  <2> SUFFICES ASSUME MarkerMeansConfigured, [Next]_vars PROVE MarkerMeansConfigured'
    OBVIOUS
  <2>1. TypeOK'
    BY TypeStep DEF MarkerMeansConfigured
  <2>2. CASE UNCHANGED vars
    BY <2>1, <2>2 DEF MarkerMeansConfigured, Exists, vars, sources, hardware, work, products, local
  <2>3. CASE User
    BY <2>1, <2>3, UserStep
  <2>4. CASE Command
    BY <2>1, <2>4, CommandStep
  <2>5. CASE Stage
    BY <2>1, <2>5, ConfigureStep, StageStep DEF Stage
  <2>6. CASE Clean
    BY <2>1, <2>6, CleanStep, KeepBootStep DEF Clean
  <2> QED BY <2>2, <2>3, <2>4, <2>5, <2>6 DEF Next
<1> QED BY <1>1, <1>2, PTL DEF Spec

----------------------------------------------------------------------------
(* The zip.  Nothing else is assumed here but that its writing is not cut  *)
(* short.                                                                  *)

\* Only the images and the zip itself have a time that matters to the zip.
LEMMA TouchedZip ==
    ASSUME NEW f \in {"conf", "xsa", "hwXsa", "done"}
    PROVE  <<"zip", "images">> \in Touched(f) <=> <<"zip", "images">> \in older
  BY DEF Touched, Compared

\* A step that leaves zip and images alone, and their comparison.
LEMMA ZipKept ==
    ASSUME ZipHoldsImages, UNCHANGED <<images, zip>>, run = "zip" => run' = "zip",
           <<"zip", "images">> \in older' <=> <<"zip", "images">> \in older
    PROVE  ZipHoldsImages'
  BY DEF ZipHoldsImages, ZipCurrent, Packable

LEMMA ZipStep ==
    ASSUME ZipHoldsImages, [Next]_vars, "zip" \notin Dies
    PROVE  ZipHoldsImages'
<1> USE DEF sources, hardware, work, products, local
<1>1. CASE User
  <2>1. UNCHANGED <<images, zip, run>>
    BY <1>1 DEF User, EditConf, RemoveConf, EditRecipe
  <2>2. older' = Touched("conf") \/ older' = older
    BY <1>1 DEF User, EditConf, RemoveConf, EditRecipe
  <2> QED BY <2>1, <2>2, ZipKept, TouchedZip
<1>2. CASE Command
  <2>1. UNCHANGED <<images, zip, older>> /\ run # "zip"
    BY <1>2 DEF Command, Yocto, All, Build, Package, Die, Unplanned
  <2> QED BY <2>1, ZipKept
<1>3. CASE Xsa \/ HandOff \/ Configure \/ Mark \/ Bitbake
  <2>1. UNCHANGED <<images, zip>> /\ run # "zip"
    BY <1>3 DEF Xsa, HandOff, Configure, Mark, Bitbake
  <2>2. older' = older \/ \E f \in {"xsa", "hwXsa", "done"} : older' = Touched(f)
    BY <1>3 DEF Xsa, HandOff, Configure, Mark, Bitbake
  <2> QED BY <2>1, <2>2, ZipKept, TouchedZip
<1>4. CASE Check \/ WriteStamp
  <2>1. UNCHANGED <<images, zip, older>> /\ run # "zip"
    BY <1>4 DEF Check, Adopt, WriteStamp, StampSnapshot
  <2> QED BY <2>1, ZipKept
<1>5. CASE GatherBoot \/ GatherWic \/ GatherBmap
  <2>1. older' = Touched("images") \/ (UNCHANGED <<images, zip, older>> /\ run # "zip")
    BY <1>5 DEF GatherBoot, GatherWic, GatherBmap, Gather
  <2>2. CASE UNCHANGED <<images, zip, older>> /\ run # "zip"
    BY <2>2, ZipKept
  <2>3. CASE older' = Touched("images")
    <3>1. <<"zip", "images">> \in older'
      BY <2>3 DEF Touched, Compared
    <3> QED BY <3>1 DEF ZipHoldsImages, ZipCurrent
  <2> QED BY <2>1, <2>2, <2>3
<1>6. CASE Zip
  <2>1. CASE ~ZipCurrent /\ Packable
    BY <1>6, <2>1 DEF Zip, ZipHoldsImages
  <2>2. CASE ~(~ZipCurrent /\ Packable)
    BY <1>6, <2>2, ZipKept DEF Zip
  <2> QED BY <2>1, <2>2
<1>7. CASE ZipWritten
  BY <1>7 DEF ZipWritten, ZipHoldsImages
<1>8. CASE CleanYocto
  BY <1>8 DEF CleanYocto, ZipHoldsImages, Packable, Products
<1>9. CASE CleanPackage
  BY <1>9 DEF CleanPackage, ZipHoldsImages, ZipCurrent
<1>10. CASE CleanXsa \/ PlanKeepBoot \/ Confirm \/ RemovePlanned
  <2>1. UNCHANGED <<images, zip, older>>
    BY <1>10 DEF CleanXsa, PlanKeepBoot, Confirm, RemovePlanned
  <2>2. run = "zip" => run' = "zip"
    BY <1>10 DEF CleanXsa, PlanKeepBoot, Confirm, RemovePlanned, Unplanned
  <2> QED BY <2>1, <2>2, ZipKept
<1>11. CASE UNCHANGED vars
  BY <1>11, ZipKept DEF vars
<1> QED BY <1>1, <1>2, <1>3, <1>4, <1>5, <1>6, <1>7, <1>8, <1>9, <1>10, <1>11
        DEF Next, Stage, Clean

\* _zip_current is true of the images, when the writing of a zip is not cut
\* short: a zip no older than the images it is made of holds those images.
THEOREM YoctoZipHoldsImages ==
    ASSUME "zip" \notin Dies
    PROVE  Spec => []ZipHoldsImages
<1>1. Init => ZipHoldsImages
  BY DEF Init, ZipHoldsImages, ZipCurrent
<1>2. ZipHoldsImages /\ [Next]_vars => ZipHoldsImages'
  BY ZipStep
<1> QED BY <1>1, <1>2, PTL DEF Spec

----------------------------------------------------------------------------
(* "images up to date".                                                    *)

StampOfBuild == stamp # None /\ ~adopted
Building == {"configure", "mark", "bitbake", "boot", "wic", "bmap", "stamp"}

\* Contents only get later: the stamp's, the snapshot's, and the present ones.
\* While stage_yocto builds, its snapshot has the XSA there is, as has work/hw.
OrderTrue ==
    /\ xsa <= built
    /\ StampOfBuild => stamp.conf <= conf /\ stamp.recipe <= recipe /\ stamp.xsa \in 1..built
    /\ run \in Building =>
          /\ inputs \in Records /\ xsa # 0 /\ inputs.xsa = xsa /\ hwXsa = xsa
          /\ inputs.conf <= conf /\ inputs.recipe <= recipe
          /\ StampOfBuild => stamp.conf <= inputs.conf /\ stamp.recipe <= inputs.recipe

\* A copy of the XSA that is not older than it is of it; a build/conf with a
\* marker that is not older than its inputs is configured from them.
ConfigTrue ==
    /\ hwXsa # 0 /\ xsa # 0 /\ <<"hwXsa", "xsa">> \notin older => hwXsa = xsa
    /\ done /\ build # None /\ hwXsa # 0 /\ <<"done", "hwXsa">> \notin older => build.xsa = hwXsa
    /\ done /\ build # None /\ conf \notin NoConf /\ <<"done", "conf">> \notin older =>
          build.conf = conf
    /\ run = "mark" => build.xsa = hwXsa /\ (conf \notin NoConf => build.conf = conf)

SameConf(r) == conf \notin NoConf => r.conf = conf

\* Unless an input has changed since the snapshot, what is built is of it.
BuildTrue ==
    /\ run = "bitbake" /\ build # None => build.xsa = xsa /\ (conf = inputs.conf => SameConf(build))
    /\ run \in {"boot", "wic", "bmap", "stamp"} =>
          /\ deploy.xsa = xsa
          /\ conf = inputs.conf => SameConf(deploy)
          /\ recipe = inputs.recipe => deploy.recipe = recipe
    /\ run \in {"wic", "bmap", "stamp"} => images["boot"] = deploy
    /\ run \in {"bmap", "stamp"} => images["wic"] = deploy

\* Unless an input has changed since the stamp, every required image is of it: also
\* while images are replaced, and when that was never finished.
StampTrue ==
    StampOfBuild => \A p \in Required :
        /\ conf = stamp.conf => SameConf(images[p])
        /\ recipe = stamp.recipe => images[p].recipe = recipe
        /\ xsa = stamp.xsa => images[p].xsa = xsa

FreshInv == TypeOK /\ OrderTrue /\ ConfigTrue /\ BuildTrue /\ StampTrue

LEMMA Numbers ==
    ASSUME TypeOK
    PROVE  /\ conf \in Nat /\ recipe \in Nat /\ xsa \in Nat /\ built \in Nat /\ hwXsa \in Nat
           /\ stamp # None => stamp.conf \in Nat /\ stamp.recipe \in Nat /\ stamp.xsa \in Nat
           /\ inputs \in Records =>
                 inputs.conf \in Nat /\ inputs.recipe \in Nat /\ inputs.xsa \in Nat
<1>1. conf \in Nat /\ recipe \in Nat /\ xsa \in Nat /\ built \in Nat /\ hwXsa \in Nat
  BY BoundAssumption DEF TypeOK
<1>2. ASSUME NEW r \in Records PROVE r.conf \in Nat /\ r.recipe \in Nat /\ r.xsa \in Nat
  <2>1. r.conf \in Confs /\ r.recipe \in Recipes /\ r.xsa \in 0..MaxXsa
    BY DEF Records
  <2>2. r.conf \in Nat /\ r.recipe \in Nat
    BY <2>1, BoundAssumption, Zenon
  <2>3. r.xsa \in Nat
    BY <2>1, BoundAssumption
  <2> QED BY <2>2, <2>3
<1>3. stamp \in Records \cup {None}
  BY DEF TypeOK
<1> QED BY <1>1, <1>2, <1>3

\* The comparisons that matter, when a file is written.
LEMMA TouchedPairs ==
    ASSUME NEW f, NEW c \in {<<"hwXsa", "xsa">>, <<"done", "hwXsa">>, <<"done", "conf">>}
    PROVE  c \in Touched(f) <=> c[2] = f \/ (c[1] # f /\ c \in older)
  BY DEF Touched, Compared

\* An edit makes a content unlike that of any snapshot or stamp, and the
\* marker older than a local.conf.append that is written.
LEMMA FreshUser ==
    ASSUME FreshInv, TypeOK', User, MayRaceMarker = FALSE
    PROVE  FreshInv'
<1> USE DEF FreshInv
<1>1. UNCHANGED <<hardware, work, products, run, local, plan, adopted>>
  BY DEF User, EditConf, RemoveConf, EditRecipe
<1>2. UNCHANGED <<xsa, built, hwXsa, build, done, deploy, images, stamp, run, inputs, adopted>>
  BY <1>1 DEF hardware, work, products, local
<1>3. \/ conf' = conf /\ recipe' \in Nat /\ recipe < recipe'
      \/ conf' \in Nat /\ conf < conf' /\ recipe' = recipe
  BY BoundAssumption DEF User, EditConf, RemoveConf, EditRecipe, TypeOK
<1>4. OrderTrue'
  BY <1>2, <1>3, Numbers DEF OrderTrue, StampOfBuild
<1>5. /\ <<"hwXsa", "xsa">> \in older' <=> <<"hwXsa", "xsa">> \in older
      /\ <<"done", "hwXsa">> \in older' <=> <<"done", "hwXsa">> \in older
  BY TouchedPairs DEF User, EditConf, RemoveConf, EditRecipe
<1>6. \/ conf' = conf /\ older' = older
      \/ conf' \in NoConf
      \/ run # "mark" /\ <<"done", "conf">> \in older'
  BY TouchedPairs DEF User, EditConf, RemoveConf, EditRecipe
<1>7. ConfigTrue'
  BY <1>2, <1>5, <1>6 DEF ConfigTrue
<1>8. BuildTrue'
  BY <1>2, <1>3, Numbers DEF BuildTrue, OrderTrue, SameConf, Building
<1>9. StampTrue'
  BY <1>2, <1>3, Numbers DEF StampTrue, OrderTrue, SameConf, StampOfBuild
<1> QED BY <1>4, <1>7, <1>8, <1>9

\* A step outside the building of images that leaves inputs and images alone.
LEMMA FreshLeaves ==
    ASSUME FreshInv, TypeOK', ConfigTrue', run' \notin Building,
           UNCHANGED <<conf, recipe, xsa, built, images>>,
           StampOfBuild' => UNCHANGED stamp /\ StampOfBuild
    PROVE  FreshInv'
<1>1. OrderTrue'
  BY DEF FreshInv, OrderTrue, StampOfBuild
<1>2. BuildTrue'
  BY DEF BuildTrue, Building
<1>3. StampTrue'
  BY DEF FreshInv, StampTrue, SameConf, StampOfBuild
<1> QED BY <1>1, <1>2, <1>3 DEF FreshInv

\* Commands, the zip and the planning of a --keep-boot.
LEMMA FreshCommand ==
    ASSUME FreshInv, TypeOK', Command \/ Check \/ Zip \/ ZipWritten \/ CleanPackage \/ Confirm
    PROVE  FreshInv'
<1> USE DEF sources, hardware, work, products, local
<1>1. run' \notin Building
  BY DEF Command, Yocto, All, Build, Package, Die, Check, Over, Zip, ZipWritten, CleanPackage,
     Unplanned, Confirm, Building
<1>2. UNCHANGED <<conf, recipe, xsa, built, hwXsa, build, done, images>>
  BY DEF Command, Yocto, All, Build, Package, Die, Check, Adopt, Zip, ZipWritten, CleanPackage,
     Confirm
<1>3. StampOfBuild' => UNCHANGED stamp /\ StampOfBuild
  BY DEF Command, Yocto, All, Build, Package, Die, Check, Adopt, Zip, ZipWritten, CleanPackage,
     Confirm, StampOfBuild
<1>4. older' = older \/ older' = Touched("zip")
  BY DEF Command, Yocto, All, Build, Package, Die, Check, Zip, ZipWritten, CleanPackage, Confirm
<1>5. ConfigTrue'
  BY <1>1, <1>2, <1>4, TouchedPairs DEF FreshInv, ConfigTrue, Building
<1> QED BY <1>1, <1>2, <1>3, <1>5, FreshLeaves

\* A new XSA is later than any stamp's, and than its copy.
LEMMA FreshXsa ==
    ASSUME FreshInv, TypeOK', Xsa
    PROVE  FreshInv'
<1> USE DEF sources, work, products, local
<1>1. run' \notin Building /\ run' # "mark"
  BY DEF Xsa, Building
<1>2. UNCHANGED <<conf, recipe, hwXsa, build, done, images, stamp, adopted>>
  BY DEF Xsa
<1>3. CASE UNCHANGED <<hardware, older>>
  <2>1. ConfigTrue'
    BY <1>1, <1>2, <1>3 DEF FreshInv, ConfigTrue, hardware
  <2> QED BY <1>1, <1>2, <1>3, <2>1, FreshLeaves DEF StampOfBuild, hardware
<1>4. CASE built' = built + 1 /\ xsa' = built + 1 /\ older' = Touched("xsa")
  <2>1. ConfigTrue'
    BY <1>1, <1>2, <1>4, TouchedPairs DEF FreshInv, ConfigTrue
  <2>2. OrderTrue'
    BY <1>1, <1>2, <1>4, Numbers DEF FreshInv, OrderTrue, StampOfBuild
  <2>3. BuildTrue'
    BY <1>1 DEF BuildTrue, Building
  <2>4. StampTrue'
    BY <1>2, <1>4, Numbers DEF FreshInv, OrderTrue, StampTrue, SameConf, StampOfBuild
  <2> QED BY <2>1, <2>2, <2>3, <2>4 DEF FreshInv
<1> QED BY <1>3, <1>4 DEF Xsa

\* The snapshot is of the present inputs, and the copy of the XSA of it.
LEMMA FreshHandOff ==
    ASSUME FreshInv, TypeOK', HandOff
    PROVE  FreshInv'
<1> USE DEF sources, hardware, products, FreshInv
<1>1. UNCHANGED <<conf, recipe, xsa, built, build, done, images, stamp, adopted>>
  BY DEF HandOff
<1>2. run' = "configure" /\ xsa # 0 /\ inputs' = Inputs
  BY DEF HandOff
<1>3. hwXsa' = xsa
  BY DEF HandOff, ConfigTrue
<1>4. \/ hwXsa' = hwXsa /\ older' = older
      \/ older' = Touched("hwXsa")
  BY DEF HandOff
<1>5. ConfigTrue'
  BY <1>1, <1>2, <1>3, <1>4, TouchedPairs DEF ConfigTrue
<1>6. inputs'.conf = conf /\ inputs'.recipe = recipe /\ inputs'.xsa = xsa /\ inputs' \in Records
  BY <1>2, InputsType DEF Inputs
<1>7. OrderTrue'
  BY <1>1, <1>2, <1>3, <1>6, Numbers DEF OrderTrue, StampOfBuild
<1>8. BuildTrue' /\ StampTrue'
  BY <1>1, <1>2 DEF BuildTrue, StampTrue, SameConf, StampOfBuild
<1> QED BY <1>5, <1>7, <1>8

\* A step of the building itself: the snapshot stays.
LEMMA FreshBuilds ==
    ASSUME FreshInv, TypeOK', run \in Building, run' \in Building, ConfigTrue', BuildTrue',
           StampTrue', UNCHANGED <<conf, recipe, xsa, built, hwXsa, inputs, stamp, adopted>>
    PROVE  FreshInv'
<1>1. OrderTrue'
  BY DEF FreshInv, OrderTrue, StampOfBuild
<1> QED BY <1>1 DEF FreshInv

\* build/conf is of the present inputs when it is made, and when the marker
\* says so.
LEMMA FreshConfigure ==
    ASSUME FreshInv, TypeOK', Configure \/ Mark
    PROVE  FreshInv'
<1> USE DEF sources, hardware, products, local
<1>1. run \in {"configure", "mark"} /\ run' \in {"mark", "bitbake"}
  BY DEF Configure, Mark
<1>2. UNCHANGED <<conf, recipe, xsa, built, hwXsa, images, inputs, stamp, adopted>>
  BY DEF Configure, Mark
<1>3. xsa # 0 /\ hwXsa = xsa
  BY <1>1 DEF FreshInv, OrderTrue, Building
<1>4. ConfigTrue' /\ BuildTrue'
  <2>1. CASE Configure /\ Configured
    <3>1. UNCHANGED <<build, done, older>> /\ run' = "bitbake"
      BY <2>1 DEF Configure
    <3>2. ConfigTrue'
      BY <1>2, <3>1 DEF FreshInv, ConfigTrue
    <3>3. build # None => build.xsa = xsa /\ SameConf(build)
      BY <1>3, <2>1 DEF Configured, FreshInv, ConfigTrue, SameConf
    <3>4. BuildTrue'
      BY <1>2, <3>1, <3>3 DEF BuildTrue, SameConf
    <3> QED BY <3>2, <3>4
  <2>2. CASE Configure /\ ~Configured
    <3>1. UNCHANGED <<done, older>> /\ run' = "mark" /\ build' = [conf |-> conf, xsa |-> hwXsa]
      BY <2>2 DEF Configure
    <3>2. build'.conf = conf /\ build'.xsa = hwXsa
      BY <3>1
    <3>3. ConfigTrue'
      BY <1>2, <3>1, <3>2 DEF FreshInv, ConfigTrue
    <3>4. BuildTrue'
      BY <3>1 DEF BuildTrue
    <3> QED BY <3>3, <3>4
  <2>3. CASE Mark
    <3>1. build' = build /\ run = "mark" /\ run' = "bitbake" /\ older' = Touched("done")
      BY <2>3 DEF Mark
    <3>2. build.xsa = hwXsa /\ (conf \notin NoConf => build.conf = conf)
      BY <3>1 DEF FreshInv, ConfigTrue
    <3>3. <<"hwXsa", "xsa">> \in older' <=> <<"hwXsa", "xsa">> \in older
      BY <3>1, TouchedPairs
    <3>4. ConfigTrue'
      BY <1>2, <3>1, <3>2, <3>3 DEF FreshInv, ConfigTrue
    <3>5. BuildTrue'
      BY <1>2, <1>3, <3>1, <3>2 DEF BuildTrue, SameConf
    <3> QED BY <3>4, <3>5
  <2> QED BY <2>1, <2>2, <2>3
<1>5. StampTrue'
  BY <1>2 DEF FreshInv, StampTrue, SameConf, StampOfBuild
<1> QED BY <1>1, <1>2, <1>4, <1>5, FreshBuilds DEF Building

\* What bitbake makes is of build/conf; what is gathered is that.
LEMMA FreshBitbake ==
    ASSUME FreshInv, TypeOK', Bitbake \/ GatherBoot \/ GatherWic \/ GatherBmap
    PROVE  FreshInv'
<1> USE DEF sources, hardware, work, products, local
<1>1. /\ run \in {"bitbake", "boot", "wic", "bmap"}
      /\ run' \in {"boot", "wic", "bmap", "stamp"}
  BY DEF Bitbake, GatherBoot, GatherWic, GatherBmap, Gather
<1>2. UNCHANGED <<conf, recipe, xsa, built, hwXsa, build, done, inputs, stamp, adopted>>
  BY DEF Bitbake, GatherBoot, GatherWic, GatherBmap, Gather
<1>3. older' = older \/ older' = Touched("images")
  BY DEF Bitbake, GatherBoot, GatherWic, GatherBmap, Gather
<1>4. ConfigTrue'
  BY <1>1, <1>2, <1>3, TouchedPairs DEF FreshInv, ConfigTrue
<1>5. CASE Bitbake
  <2>1. deploy' = [conf |-> build.conf, recipe |-> recipe, xsa |-> build.xsa]
    BY <1>5 DEF Bitbake
  <2>2. deploy'.conf = build.conf /\ deploy'.recipe = recipe /\ deploy'.xsa = build.xsa
    BY <2>1
  <2>3. run = "bitbake" /\ run' = "boot" /\ build # None /\ images' = images
    BY <1>5 DEF Bitbake
  <2>4. BuildTrue'
    BY <1>2, <2>2, <2>3 DEF FreshInv, BuildTrue, SameConf
  <2>5. StampTrue'
    BY <1>2, <2>3 DEF FreshInv, StampTrue, SameConf, StampOfBuild
  <2> QED BY <1>1, <1>2, <1>4, <2>4, <2>5, FreshBuilds DEF Building
<1>6. ASSUME NEW q \in Products, NEW next, Gather(q, next),
             \/ q = "boot" /\ run = "boot" /\ next = "wic"
             \/ q = "wic" /\ run = "wic" /\ next = "bmap"
             \/ q = "bmap" /\ run = "bmap" /\ next = "stamp"
      PROVE  FreshInv'
  <2>1. images' = [images EXCEPT ![q] = deploy] /\ run' = next /\ deploy' = deploy
    BY <1>6 DEF Gather
  <2>2. /\ images'[q] = deploy
        /\ \A p \in Products : p # q => images'[p] = images[p]
    BY <2>1 DEF FreshInv, TypeOK
  <2>3. BuildTrue'
    BY <1>2, <1>6, <2>1, <2>2 DEF FreshInv, BuildTrue, SameConf, Products, Required
  <2>4. StampOfBuild =>
           /\ conf = stamp.conf => conf = inputs.conf
           /\ recipe = stamp.recipe => recipe = inputs.recipe
    BY <1>1, Numbers DEF FreshInv, OrderTrue, StampOfBuild, Building
  <2>5. /\ deploy.xsa = xsa
        /\ conf = inputs.conf => SameConf(deploy)
        /\ recipe = inputs.recipe => deploy.recipe = recipe
    BY <1>6 DEF FreshInv, BuildTrue
  <2>6. StampTrue'
    BY <1>2, <2>2, <2>4, <2>5 DEF FreshInv, StampTrue, SameConf, StampOfBuild, Products, Required
  <2> QED BY <1>1, <1>2, <1>4, <2>3, <2>6, FreshBuilds DEF Building
<1>7. CASE GatherBoot
  BY <1>6, <1>7 DEF GatherBoot, Products
<1>8. CASE GatherWic
  BY <1>6, <1>8 DEF GatherWic, Products
<1>9. CASE GatherBmap
  <2>1. CASE Gather("bmap", "stamp")
    BY <1>6, <1>9, <2>1 DEF GatherBmap, Products
  <2>2. CASE run = "bmap" /\ run' = "stamp" /\ UNCHANGED <<images, deploy>>
    <3>1. BuildTrue'
      BY <1>2, <2>2 DEF FreshInv, BuildTrue, SameConf
    <3>2. StampTrue'
      BY <1>2, <2>2 DEF FreshInv, StampTrue, SameConf, StampOfBuild
    <3> QED BY <1>1, <1>2, <1>4, <3>1, <3>2, FreshBuilds DEF Building
  <2> QED BY <1>9, <2>1, <2>2 DEF GatherBmap
<1> QED BY <1>5, <1>7, <1>8, <1>9

\* The stamp is the snapshot, of which, unless an input has changed since,
\* every required image is.
LEMMA FreshStamp ==
    ASSUME FreshInv, TypeOK', WriteStamp
    PROVE  FreshInv'
<1> USE DEF sources, hardware, work, local
<1>1. run = "stamp" /\ run' \notin Building
  BY DEF WriteStamp, Over, Building
<1>2. UNCHANGED <<conf, recipe, xsa, built, hwXsa, build, done, images, older>>
  BY DEF WriteStamp
<1>3. ConfigTrue'
  BY <1>1, <1>2 DEF FreshInv, ConfigTrue, Building
<1>4. CASE UNCHANGED <<stamp, adopted>>
  BY <1>1, <1>2, <1>3, <1>4, FreshLeaves DEF StampOfBuild
<1>5. CASE stamp' = inputs /\ adopted' = FALSE
  <2>1. /\ inputs \in Records /\ inputs.xsa = xsa /\ xsa # 0
        /\ inputs.conf <= conf /\ inputs.recipe <= recipe /\ xsa <= built
    BY <1>1 DEF FreshInv, OrderTrue, Building
  <2>2. OrderTrue'
    BY <1>1, <1>2, <1>5, <2>1, Numbers DEF FreshInv, OrderTrue, StampOfBuild
  <2>3. BuildTrue'
    BY <1>1 DEF BuildTrue, Building
  <2>4. \A p \in Required : images[p] = deploy
    BY <1>1 DEF FreshInv, BuildTrue, Required
  <2>5. StampTrue'
    BY <1>1, <1>2, <1>5, <2>1, <2>4 DEF FreshInv, BuildTrue, StampTrue, SameConf, StampOfBuild
  <2> QED BY <1>3, <2>2, <2>3, <2>5 DEF FreshInv
<1> QED BY <1>4, <1>5 DEF WriteStamp, StampSnapshot

\* What is deleted is said nothing of.
LEMMA FreshClean ==
    ASSUME FreshInv, TypeOK', CleanXsa \/ CleanYocto \/ PlanKeepBoot \/ RemovePlanned
    PROVE  FreshInv'
<1> USE DEF sources, hardware, work, products, local
<1>1. CASE CleanXsa
  <2>1. xsa' = 0 /\ run' = "idle"
    BY <1>1 DEF CleanXsa, Unplanned
  <2>2. UNCHANGED <<conf, recipe, built, hwXsa, build, done, images, stamp, older, adopted>>
    BY <1>1 DEF CleanXsa
  <2>3. ConfigTrue' /\ BuildTrue'
    BY <2>1, <2>2 DEF FreshInv, ConfigTrue, BuildTrue
  <2>4. OrderTrue'
    BY <2>1, <2>2, Numbers DEF FreshInv, OrderTrue, StampOfBuild, Building
  <2>5. StampTrue'
    BY <2>1, <2>2, Numbers DEF FreshInv, OrderTrue, StampTrue, SameConf, StampOfBuild
  <2> QED BY <2>3, <2>4, <2>5 DEF FreshInv
<1>2. CASE CleanYocto
  <2>1. run' = "idle" /\ stamp' = None /\ hwXsa' = 0 /\ done' = FALSE
    BY <1>2 DEF CleanYocto, Unplanned
  <2>2. xsa' = xsa /\ built' = built
    BY <1>2 DEF CleanYocto
  <2> QED BY <2>1, <2>2 DEF FreshInv, OrderTrue, ConfigTrue, BuildTrue, StampTrue, StampOfBuild,
             Building
<1>3. CASE PlanKeepBoot
  BY <1>3 DEF PlanKeepBoot, FreshInv, OrderTrue, ConfigTrue, BuildTrue, StampTrue, SameConf,
     StampOfBuild
<1>4. CASE RemovePlanned
  <2>1. run' \notin Building
    BY <1>4 DEF RemovePlanned, Building
  <2>2. UNCHANGED <<conf, recipe, xsa, built, images, stamp, older, adopted>>
    BY <1>4 DEF RemovePlanned
  <2>3. hwXsa' \in {hwXsa, 0} /\ build' \in {build, None} /\ (done' => done)
    BY <1>4 DEF RemovePlanned
  <2>4. ConfigTrue'
    BY <2>1, <2>2, <2>3 DEF FreshInv, ConfigTrue, Building
  <2> QED BY <2>1, <2>2, <2>4, FreshLeaves DEF StampOfBuild
<1> QED BY <1>1, <1>2, <1>3, <1>4

LEMMA FreshStep == MayRaceMarker = FALSE /\ FreshInv /\ [Next]_vars => FreshInv'
<1> SUFFICES ASSUME MayRaceMarker = FALSE, FreshInv, [Next]_vars PROVE FreshInv'
  OBVIOUS
<1>1. TypeOK'
  BY TypeStep DEF FreshInv
<1>2. CASE UNCHANGED vars
  BY <1>1, <1>2 DEF FreshInv, OrderTrue, ConfigTrue, BuildTrue, StampTrue, SameConf, StampOfBuild,
     vars, sources, hardware, work, products, local
<1>3. CASE Next
  BY <1>1, <1>3, FreshUser, FreshCommand, FreshXsa, FreshHandOff, FreshConfigure, FreshBitbake,
     FreshStamp, FreshClean DEF Next, Stage, Clean
<1> QED BY <1>2, <1>3

\* "images up to date" (stage_yocto, build.py:998) is true of images a build has
\* stamped, when local.conf.append is not edited between configure-build.sh
\* and the marker: wherever runs die and whatever is planned and deleted.
THEOREM YoctoUpToDateIsTrue ==
    ASSUME MayRaceMarker = FALSE
    PROVE  Spec => []UpToDateIsTrue
<1>1. Init => FreshInv
  BY TypeInit DEF Init, FreshInv, OrderTrue, ConfigTrue, BuildTrue, StampTrue, StampOfBuild, Building
<1>2. FreshInv /\ [Next]_vars => FreshInv'
  BY FreshStep
<1>3. FreshInv => UpToDateIsTrue
  <2> SUFFICES ASSUME FreshInv, UpToDate, ~adopted, NEW p \in Required
               PROVE  ~Changed(images[p], IF conf \in NoConf
                                          THEN [Inputs EXCEPT !.conf = images[p].conf] ELSE Inputs)
    BY DEF UpToDateIsTrue
  <2>1. StampOfBuild /\ stamp.conf = conf /\ stamp.recipe = recipe /\ (xsa # 0 => stamp.xsa = xsa)
    BY Numbers DEF UpToDate, Changed, Inputs, StampOfBuild, FreshInv, OrderTrue
  <2>2. /\ SameConf(images[p]) /\ images[p].recipe = recipe
        /\ xsa # 0 => images[p].xsa = xsa
    BY <2>1 DEF FreshInv, StampTrue
  <2> QED BY <2>2 DEF Changed, Inputs, SameConf
<1> QED BY <1>1, <1>2, <1>3, PTL DEF Spec
=============================================================================
