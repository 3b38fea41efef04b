------------------------------ MODULE AssetScripts --------------------------
(***************************************************************************)
(* The scripts that make the game's art (scripts/, scripts/triposr/,       *)
(* tools/), each as what it does to files, in the order it does it.        *)
(*                                                                         *)
(* A script is a sequence of items, an item a sequence of steps on files.  *)
(* A script that writes many files nobody else writes is given one of      *)
(* them, named after the script: it stands for any of them.  Files that    *)
(* two scripts write, or that one script makes out of another one's, are   *)
(* named after themselves.  What a picture or a mesh shows is left out;    *)
(* how a picture is cut and placed is in module ArtGeometry.               *)
(***************************************************************************)
EXTENDS Sequences

(* One step: what it does to file, with which other file (of), and what
   the script does when the step fails: "abort" (the exception, sys.exit or
   set -e ends the script), "next" (it goes on with the next item), "on"
   (with the next step).                                                   *)
Step(do, file, of, orElse) == [do |-> do, file |-> file, of |-> of, orElse |-> orElse]

Open(sheet) == Step("open", sheet, sheet, "abort")
OpenOrNext(sheet) == Step("open", sheet, sheet, "next")
Need(f) == Step("need", f, f, "next")
Save(f) == Step("save", f, f, "abort")
Copy(f, of) == Step("copy", f, of, "abort")
LabelOnce(f) == Step("labelOnce", f, f, "abort")

(* The step s, when its failure is caught by the loop over the items.      *)
Caught(s) == [s EXCEPT !.orElse = "next"]

Label(f) == Step("label", f, f, "abort")

(* What most scripts do for a file: save it, then write its licence, the
   sidecar that names the script.                                          *)
Labelled(f) == <<Save(f), Label(f)>>
CaughtLabelled(f) == <<Caught(Save(f)), Caught(Label(f))>>

(* A script that opens one sheet, then crops it file by file.              *)
Crops(sheet, items) == <<<<Open(sheet)>>>> \o items

(***************************************************************************)
(* Crops for the image-to-mesh batch: kept in /tmp, without a licence.     *)
(***************************************************************************)
CropChests == Crops("15", <<<<Save("chests")>>>>)
CropFurniture == Crops("17", <<<<Save("furniture")>>>>)
CropTools == Crops("16", <<<<Save("tools")>>>>)
CropPlants == Crops("18", <<<<Save("plants")>>>>)
CropFences == Crops("20", <<<<Save("fences")>>>>)
CropSnow == Crops("23", <<<<Save("snow")>>>>)
CropJungle == Crops("25", <<<<Save("jungle")>>>>)
CropMobs == Crops("28", <<<<Save("mobs")>>>>)
CropFantasy == Crops("34", <<<<Save("fantasy")>>>>)
CropAvatars == Crops("12", <<<<Save("avatar crops 1")>>, <<Save("avatar crops 2")>>,
                             <<Save("avatar crops 3")>>>>)

(* A sheet that is missing is reported and skipped, here alone.            *)
CropAvatarsV2 == <<<<OpenOrNext("33"), Save("avatar crops 1")>>,
                   <<OpenOrNext("32"), Save("avatar crops 2")>>,
                   <<OpenOrNext("31"), Save("avatar crops 3")>>>>

(* The second sheet is looked for when the first one has been cropped.     *)
CropBeachOcean == <<<<Open("26")>>, <<Save("beach")>>, <<Open("27")>>, <<Save("ocean")>>>>

CropSavannah == Crops("22", <<<<Save("savannah")>>, <<Save("vulture crop")>>,
                              <<Save("giraffe crop")>>>>)
CropDesert == Crops("24", <<<<Save("desert")>>, <<Save("vulture crop")>>>>)

(* All sheets are opened before the first crop; some crops are copied.     *)
CropUserArt == <<<<Open("9"), Open("10"), Open("11")>>,
                 <<Save("bat crop")>>, <<Save("giraffe crop")>>,
                 <<Copy("vampire bat crop", "bat crop")>>>>

(***************************************************************************)
(* Crops for the game itself: under assets/, each with its licence.        *)
(***************************************************************************)
CropAchievementBadges == Crops("48", <<Labelled("achievement badges")>>)
CropAppIcon == Crops("36", <<Labelled("app icon")>>)
CropBiomeTiles == Crops("41", <<Labelled("biome tiles")>>)
CropBricks == Crops("44", <<Labelled("brick pictures")>>)
CropEmotes == Crops("43", <<Labelled("emotes")>>)
CropFlags == Crops("40", <<Labelled("flags")>>)
CropFriendAvatars == Crops("38", <<Labelled("friend avatars")>>)
CropFtue == Crops("42", <<Labelled("ftue panels")>>)
CropHeroSet == Crops("14", <<Labelled("title_bg"), Labelled("wordmark"),
                             Labelled("title character")>>)
CropHud == Crops("35", <<Labelled("hud")>>)
CropLoadingHints == Crops("50", <<Labelled("loading hints")>>)
CropMapMarkers == Crops("47", <<Labelled("map markers")>>)
CropMenuBackdrops == Crops("51", <<Labelled("menu backdrops")>>)
CropRarityBorders == Crops("45", <<Labelled("rarity borders")>>)
CropRecipes == Crops("37", <<Labelled("recipe diagrams")>>)
CropSky == Crops("30", <<Labelled("sky"), Labelled("xp orb")>>)
CropToasts == Crops("49", <<Labelled("toasts")>>)
CropWeatherIcons == Crops("46", <<Labelled("weather icons")>>)

(* Four of the sprites are in both sheets.                                 *)
CropParticles == Crops("13", <<Labelled("particles in both"), Labelled("particles of 13")>>)
CropParticlesV2 == Crops("29", <<Labelled("particles in both"), Labelled("particles of 29")>>)

(* A crop for the batch and a picture for the game from each item.         *)
CropGravestones == Crops("39", <<<<Save("gravestone crops")>> \o Labelled("gravestone icons")>>)
CropStructures == Crops("21", <<<<Save("structure crops")>> \o Labelled("structure previews")>>)

(* Icon and face are saved before either has its licence.                  *)
CropVoxels == Crops("19", <<<<Save("voxel icons"), Save("voxel faces"),
                              Label("voxel icons"), Label("voxel faces")>>>>)

(***************************************************************************)
(* Generators.                                                             *)
(***************************************************************************)
GenerateIcons == <<Labelled("icons"), Labelled("title_bg"), Labelled("wordmark"),
                   Labelled("world thumb placeholder")>>

(* The licence of the atlas is written when there is none.                 *)
GenerateVoxelAtlas == <<<<Save("voxel atlas"), LabelOnce("voxel atlas")>>>>

(* Mutant: the hand-authored brick is generated with the others.           *)
GenerateBricksAll == <<CaughtLabelled("smooth brick meshes"),
                       CaughtLabelled("brick_1x1 mesh")>>

(* Every brick but the hand-authored one, brick_1x1; the anchors of a brick
   with studs are a file of their own.                                     *)
GenerateBricks == <<CaughtLabelled("smooth brick meshes"),
                    <<Caught(Save("brick meshes")), Caught(Save("brick anchors")),
                      Caught(Label("brick meshes"))>>>>

(* The hand-authored one: its .blend and .glb, without a licence.          *)
GenerateBrickMesh == <<<<Save("brick_1x1 blend")>>, <<Save("brick_1x1 mesh")>>>>

(* Meshes, each with the rendered thumbnail of the preset: a failed
   rendering is caught.                                                    *)
GenerateBuilder == <<Labelled("builder default"),
                     Labelled("builder presets") \o CaughtLabelled("builder thumbnails")>>

(* The pieces of a rig and the layout that says where they are mounted.    *)
BuildMinifigureRigid == <<<<Save("builder pieces")>>, <<Save("builder layout")>>>>
BuildPandaRigid == <<<<Save("panda pieces")>>, <<Save("panda layout")>>>>
BuildWobbleCreatures == <<<<Save("wobble creatures")>>>>

(* The same pieces once more; the layout stays.                            *)
GenBuilderRig == <<<<Save("builder pieces")>>>>

(***************************************************************************)
(* Creature meshes.                                                        *)
(***************************************************************************)
Creature == {"giraffe", "bat"}
Crop(c) == c \o " crop"
Silhouette(c) == c \o " silhouette"
TripoSR(c) == c \o " triposr"
Mesh(c) == c \o " mesh"

(* The directory a batch has TripoSR write to; its name tells the batches
   apart.                                                                  *)
Work(batch, c) == c \o " in " \o batch

BatchWork ==
    {Work(b, c) : b \in {"batch_creatures", "batch_from_user_art"}, c \in Creature}

Each(item(_)) == <<item("giraffe"), item("bat")>>

(* Placeholders; a creature that fails is caught.                          *)
GenerateCreatures == Each(LAMBDA c : CaughtLabelled(Mesh(c)))

(* The later set, over the same names, without licences.                   *)
GenCreatures == Each(LAMBDA c : <<Save(Mesh(c))>>)

(* What TripoSR has left is published, if it has left anything.            *)
Publish(batch, c) ==
    <<Need(Work(batch, c)), Copy(TripoSR(c), Work(batch, c)), Label(TripoSR(c))>>

(* TripoSR on the picture of c: its output of an earlier run is removed,
   and a failure of TripoSR is ignored.                                    *)
Reconstruct(batch, picture, c) ==
    <<Step("remove", Work(batch, c), Work(batch, c), "abort"),
      Step("derive", Work(batch, c), picture, "on")>> \o Publish(batch, c)

BatchCreatures ==
    Each(LAMBDA c : <<Caught(Save(Silhouette(c)))>>
                        \o Reconstruct("batch_creatures", Silhouette(c), c))

BatchFromUserArt ==
    Each(LAMBDA c : <<Need(Crop(c))>> \o Reconstruct("batch_from_user_art", Crop(c), c))

(* The reconstructed meshes there were when the script began, each in one
   flat material over the placeholder; one without a mesh in it is skipped. *)
ApplyPalette ==
    Each(LAMBDA c : <<Step("listed", TripoSR(c), TripoSR(c), "next"), Need(TripoSR(c)),
                      Step("derive", Mesh(c), TripoSR(c), "next")>>)

(***************************************************************************)
(* The whole set.                                                          *)
(***************************************************************************)
AllScripts ==
    [crop_chests |-> CropChests, crop_furniture |-> CropFurniture,
     crop_tools |-> CropTools, crop_plants |-> CropPlants,
     crop_fences |-> CropFences, crop_snow |-> CropSnow,
     crop_jungle |-> CropJungle, crop_mobs |-> CropMobs,
     crop_fantasy |-> CropFantasy, crop_avatars |-> CropAvatars,
     crop_avatars_v2 |-> CropAvatarsV2, crop_beach_ocean |-> CropBeachOcean,
     crop_savannah |-> CropSavannah, crop_desert |-> CropDesert,
     crop_user_art |-> CropUserArt,
     crop_achievement_badges |-> CropAchievementBadges,
     crop_app_icon |-> CropAppIcon, crop_biome_tiles |-> CropBiomeTiles,
     crop_bricks |-> CropBricks, crop_emotes |-> CropEmotes,
     crop_flags |-> CropFlags, crop_friend_avatars |-> CropFriendAvatars,
     crop_ftue |-> CropFtue, crop_hero_set |-> CropHeroSet, crop_hud |-> CropHud,
     crop_loading_hints |-> CropLoadingHints, crop_map_markers |-> CropMapMarkers,
     crop_menu_backdrops |-> CropMenuBackdrops,
     crop_rarity_borders |-> CropRarityBorders, crop_recipes |-> CropRecipes,
     crop_sky |-> CropSky, crop_toasts |-> CropToasts,
     crop_weather_icons |-> CropWeatherIcons, crop_particles |-> CropParticles,
     crop_particles_v2 |-> CropParticlesV2, crop_gravestones |-> CropGravestones,
     crop_structures |-> CropStructures, crop_voxels |-> CropVoxels,
     generate_icons |-> GenerateIcons, generate_voxel_atlas |-> GenerateVoxelAtlas,
     generate_bricks |-> GenerateBricks, generate_brick_mesh |-> GenerateBrickMesh,
     generate_builder |-> GenerateBuilder,
     build_minifigure_rigid |-> BuildMinifigureRigid,
     build_panda_rigid |-> BuildPandaRigid,
     build_wobble_creatures |-> BuildWobbleCreatures,
     gen_builder_rig |-> GenBuilderRig, generate_creatures |-> GenerateCreatures,
     gen_creatures |-> GenCreatures, batch_creatures |-> BatchCreatures,
     batch_from_user_art |-> BatchFromUserArt, apply_palette |-> ApplyPalette]
=============================================================================
