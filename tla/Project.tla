------------------------------ MODULE Project ------------------------------
(***************************************************************************)
(* What the godash command line does to a project (cmd/godash).  A command *)
(* is a list of steps: the Go code stops at a step that fails, a shell     *)
(* script (run by /bin/sh -c, without set -e) only looks at its last       *)
(* command, and `godash new` removes the directory before it stops.  Any   *)
(* step may fail and any command may be interrupted.                       *)
(*                                                                         *)
(* Generated code is known by the protos it was generated from, and these  *)
(* by their hot methods: the symbols the Dart client looks up, main.go     *)
(* exports and the linker has to be told to keep.                          *)
(***************************************************************************)
EXTENDS Integers, Sequences, SequencesExt

CONSTANTS
  Protos,       \* contents of the proto directory: sets of hot methods
  Platforms,    \* native platforms
  AppleOnes,    \* those whose plugin has a linker manifest
  MaxCommands, MaxAccidents, MaxEdits

\* A set of hot methods is neither of the two contents named below.
ASSUME ProjectAssumption ==
  /\ IsFiniteSet(Platforms) /\ AppleOnes \subseteq Platforms
  /\ {"no file"} \notin Protos /\ {"//GODASH_HOT_LINKER_FLAGS"} \notin Protos

VARIABLES
  dep,        \* the godash dependency: "version" or "path" (to a checkout)
  checkout,   \* of a path dependency: "none", "cloned", "at ref"
  dir,        \* the project directory: "none", "partial" (template), "project"
  fs,         \* its files
  head,       \* the tracked files as committed
  cmd,        \* the command: its name, the steps to go, how it stands
  edits, commands, accidents

vars == << dep, checkout, dir, fs, head, cmd, edits, commands, accidents >>

\* No generated code; a manifest as shipped.  Neither is a set of hot methods.
Gone == {"no file"}
Marker == {"//GODASH_HOT_LINKER_FLAGS"}
NoApp == [client |-> Gone, symbols |-> Gone, run |-> 0]

NoFiles == [protos |-> {}, user |-> 0, entry |-> "none", goMod |-> 0, meta |-> -1,
            goStd |-> Gone, goLite |-> Gone, dartPb |-> Gone, main |-> Gone,
            handlers |-> Gone, manifest |-> Gone, worker |-> "none", web |-> {},
            platform |-> [p \in Platforms |-> "none"], archive |-> [p \in Platforms |-> Gone],
            lib |-> [p \in Platforms |-> Gone], app |-> [p \in Platforms |-> NoApp]]

\* What .gitignore does not exclude.
Tracked(f) == [user |-> f.user, protos |-> f.protos, entry |-> f.entry, goMod |-> f.goMod,
               meta |-> f.meta, worker |-> f.worker, web |-> f.web, platform |-> f.platform]

Dirty == Tracked(fs) # head

-----------------------------------------------------------------------------
(* The commands.                                                           *)

Soft(do, on) == [do |-> do, on |-> on, mode |-> "soft"]
Hard(do, on) == [do |-> do, on |-> on, mode |-> "hard"]

\* loadProjectEnvAt: a path dependency needs its checkout.
LoadProjectEnv == << Hard("clone", ""), Hard("checkout", "") >>

\* godashModuleBootstrap: exits when the module is not found.
ModuleBootstrap == << Hard("list module", ""), Soft("materialize", "") >>

ProtoGoScript == << Soft("rm go/pb", ""), Soft("protoc go", ""), Soft("protoc lite", "") >>

ProtoDartScript == << Soft("rm lib/pb", ""), Hard("protoc dart", "") >>

WriteWiringFiles == << Hard("write main", ""), Hard("write handlers", ""),
                       Hard("write entrypoint", ""), Hard("patch manifest", "") >>

\* Variant: the manifest is patched before the module is materialised again.
ProtoAndWiringPatchedFirst ==
  << Hard("write main", ""), Hard("patch manifest", "") >>
  \o ModuleBootstrap \o ProtoGoScript \o ProtoDartScript
  \o << Hard("write main", ""), Hard("write handlers", ""), Hard("write entrypoint", "") >>

ProtoAndWiring ==
  ModuleBootstrap \o ProtoGoScript \o ProtoDartScript \o WriteWiringFiles

\* The block of the last platform ends the script.
FlutterCreateBlocks ==
  LET order == SetToSeq(Platforms)
      block(i) == << Soft("create", order[i]),
                     IF i = Len(order) THEN Hard("patch", order[i])
                     ELSE Soft("patch", order[i]) >>
  IN << Soft("create web", "") >> \o FlattenSeq([i \in DOMAIN order |-> block(i)])

Prepare == LoadProjectEnv \o << Soft("web assets", "") >> \o ProtoAndWiring
           \o FlutterCreateBlocks

Proto == LoadProjectEnv \o ProtoGoScript \o ProtoDartScript

WebBuild == LoadProjectEnv \o << Soft("web assets", "") >> \o ProtoAndWiring
            \o << Soft("wasm", ""), Soft("stamp worker", ""), Hard("build web", "") >>

\* buildScriptAndroidLib..., buildScriptIOSLib, buildScriptMacosLib: go build, and
\* what copies its output into the plugin.
NativeBuild(p) ==
  LoadProjectEnv \o ProtoAndWiring
  \o << Soft("go build", p), Soft("build lib", p), Hard("build app", p) >>

LibBuild(p) ==
  LoadProjectEnv \o ModuleBootstrap \o << Soft("go build", p), Hard("build lib", p) >>

\* buildCleanScript, buildResetScript
Clean == LoadProjectEnv \o << Soft("rm generated", ""), Hard("flutter clean", "") >>
Reset == LoadProjectEnv \o << Soft("rm generated", ""), Soft("flutter clean", ""),
                              Hard("rm platforms", "") >>

Upgrade ==
  LoadProjectEnv
  \o (IF dep = "path" THEN << Soft("pull", "") >> ELSE << Hard("go get", "") >>)
  \o << Hard("refresh", "") >>
  \o << Soft("web assets", "") >> \o ProtoAndWiring \o FlutterCreateBlocks
  \o << Hard("write meta", ""), Soft("commit", "") >>

\* A failure removes the directory, but for one of the first step.
New ==
  << Hard("template", ""), Hard("parameterize", ""), Hard("custom.mk", ""),
     Hard("git init", "") >>
  \o LoadProjectEnv \o << Hard("write meta", ""), Hard("commit", "") >>
  \o ProtoAndWiring \o FlutterCreateBlocks
  \o << Hard("apply config", ""), Hard("commit", ""), Hard("web assets", ""),
        Soft("commit", "") >>
  \o ModuleBootstrap \o << Hard("wasm test", "") >>

-----------------------------------------------------------------------------
Init ==
  /\ dep \in {"version", "path"}
  /\ checkout = "none"
  /\ dir = "none"
  /\ fs = NoFiles /\ head = Tracked(NoFiles)
  /\ cmd = [name |-> "none", rest |-> << >>, status |-> "done", sound |-> TRUE,
            moduleDir |-> FALSE, block |-> FALSE, user |-> 0, protos |-> {}]
  /\ edits = 0 /\ commands = 0 /\ accidents = 0

Idle == cmd.status # "running"

Start(name, steps) ==
  /\ Idle /\ commands < MaxCommands
  /\ commands' = commands + 1
  /\ cmd' = [name |-> name, rest |-> steps, status |-> "running", sound |-> TRUE,
             moduleDir |-> FALSE, block |-> FALSE, user |-> fs.user,
             protos |-> fs.protos]
  /\ UNCHANGED << dep, checkout, dir, fs, head, edits, accidents >>

\* runScaffold refuses a directory that exists.
RunScaffold == dir = "none" /\ Start("new", New)

RunPrepare == dir = "project" /\ Start("prepare", Prepare)
RunProto == dir = "project" /\ Start("proto", Proto)
RunWeb == dir = "project" /\ Start("web", WebBuild)
RunNative == dir = "project" /\ \E p \in Platforms : Start("native", NativeBuild(p))
RunLib == dir = "project" /\ \E p \in Platforms : Start("lib", LibBuild(p))
RunClean == dir = "project" /\ Start("clean", Clean)
RunReset == dir = "project" /\ Start("reset", Reset)

\* Variant: without the look at the working tree.
RunUpgradeDirty == dir = "project" /\ Start("upgrade", Upgrade)

\* runUpgrade refuses a working tree that is not clean.
RunUpgrade == dir = "project" /\ ~Dirty /\ Start("upgrade", Upgrade)

-----------------------------------------------------------------------------
(* The steps.                                                              *)

Running(do) == cmd.status = "running" /\ Head(cmd.rest).do = do
On == Head(cmd.rest).on

Advance(c) == [c EXCEPT !.rest = Tail(@),
                        !.status = IF Len(c.rest) = 1 THEN "done" ELSE "running"]

\* The step changes files and nothing else.
Files(do, f) ==
  /\ Running(do)
  /\ fs' = f
  /\ cmd' = Advance(cmd)
  /\ UNCHANGED << dep, checkout, dir, head, edits, commands, accidents >>

\* ensureGodashCheckout: with GODASH_REF a commit, a clone and then a checkout,
\* both only when there is no checkout.  A clone is taken for one.
Clone ==
  /\ Running("clone")
  /\ IF dep = "path" /\ checkout = "none"
     THEN checkout' = "cloned" /\ cmd' = [Advance(cmd) EXCEPT !.block = TRUE]
     ELSE UNCHANGED checkout /\ cmd' = [Advance(cmd) EXCEPT !.block = FALSE]
  /\ UNCHANGED << dep, dir, fs, head, edits, commands, accidents >>

Checkout ==
  /\ Running("checkout")
  /\ checkout' = IF cmd.block THEN "at ref" ELSE checkout
  /\ cmd' = Advance(cmd)
  /\ UNCHANGED << dep, dir, fs, head, edits, commands, accidents >>

ListModule ==
  /\ Running("list module")
  /\ cmd' = [Advance(cmd) EXCEPT !.moduleDir = TRUE]
  /\ UNCHANGED << dep, checkout, dir, fs, head, edits, commands, accidents >>

\* A version dependency copies the plugin into the project; a path dependency
\* uses the one of the checkout.
Materialize ==
  Files("materialize", [fs EXCEPT !.manifest = IF dep = "version" THEN Marker ELSE @])

\* A hot option needs godash/options.proto, found through GODASH_MODULE_DIR.
ProtocFinds == cmd.moduleDir \/ fs.protos = {}

RmGoPb == Files("rm go/pb", [fs EXCEPT !.goStd = Gone, !.goLite = Gone])
ProtocGo == ProtocFinds /\ Files("protoc go", [fs EXCEPT !.goStd = fs.protos])
ProtocLite == ProtocFinds /\ Files("protoc lite", [fs EXCEPT !.goLite = fs.protos])
RmDartPb == Files("rm lib/pb", [fs EXCEPT !.dartPb = Gone])
ProtocDart == ProtocFinds /\ Files("protoc dart", [fs EXCEPT !.dartPb = fs.protos])

\* scanServices and scanHotMethods: nothing generated is no service.
ScanHotMethods == IF fs.goLite = Gone THEN {} ELSE fs.goLite

WriteMain == Files("write main", [fs EXCEPT !.main = ScanHotMethods])
WriteHandlers == Files("write handlers", [fs EXCEPT !.handlers = ScanHotMethods])

WriteEntrypoint ==
  Files("write entrypoint", [fs EXCEPT !.entry = IF @ = "none" THEN "default" ELSE @])

\* patchNativeLinkerHotSymbols: the marker is there only once.
PatchManifest ==
  Files("patch manifest", [fs EXCEPT !.manifest = IF @ = Marker THEN ScanHotMethods ELSE @])

WebAssets == Files("web assets", [fs EXCEPT !.web = @ \cup {"assets"}, !.worker = "asset"])

CreateWeb == Files("create web", [fs EXCEPT !.web = IF @ = {} THEN {"flutter"} ELSE @])

\* One `if [ ! -d p ]` block: flutter create, then the patches.
Create ==
  /\ Running("create")
  /\ LET missing == fs.platform[On] = "none" IN
     /\ fs' = IF missing THEN [fs EXCEPT !.platform[On] = "created"] ELSE fs
     /\ cmd' = [Advance(cmd) EXCEPT !.block = missing]
  /\ UNCHANGED << dep, checkout, dir, head, edits, commands, accidents >>

Patch == Files("patch", [fs EXCEPT !.platform[On] =
                                 IF cmd.block /\ @ = "created" THEN "patched" ELSE @])

\* applyConfig: bundle id and display name.
ApplyConfig ==
  Files("apply config", [fs EXCEPT !.platform = [p \in Platforms |->
                           IF @[p] = "patched" THEN "configured" ELSE @[p]]])

\* The Go compiler wants the generated code, and HotInvoke calls into it.
Compiles(pb) == /\ pb # Gone /\ fs.handlers # Gone /\ fs.main # Gone
                /\ fs.handlers \subseteq pb

Wasm == /\ Running("wasm") /\ Compiles(fs.goLite) /\ Files("wasm", fs)
StampWorker == Files("stamp worker", [fs EXCEPT !.worker = "stamped"])
BuildWeb == fs.dartPb # Gone /\ Files("build web", fs)

\* go build leaves an older output where it is when it fails ...
GoBuild ==
  Compiles(fs.goStd) /\ Files("go build", [fs EXCEPT !.archive[On] = fs.main])

\* ... which cp, or xcodebuild, then takes for the new one.
BuildLib ==
  /\ Running("build lib") /\ fs.archive[On] # Gone
  /\ Files("build lib", [fs EXCEPT !.lib[On] = fs.archive[On]])

\* flutter build: on Apple platforms a symbol stays that the manifest names.
BuildApp ==
  /\ Running("build app") /\ fs.dartPb # Gone /\ fs.lib[On] # Gone
  /\ Files("build app", [fs EXCEPT !.app[On] =
       [client |-> fs.dartPb,
        run |-> commands,
        symbols |-> IF On \in AppleOnes
                    THEN IF fs.manifest \in {Gone, Marker} THEN {}
                         ELSE fs.lib[On] \cap fs.manifest
                    ELSE fs.lib[On]]])

RmGenerated ==
  Files("rm generated", [fs EXCEPT !.goStd = Gone, !.goLite = Gone, !.dartPb = Gone,
                                   !.archive = [p \in Platforms |-> Gone],
                                   !.lib = [p \in Platforms |-> Gone]])
RmPlatforms ==
  Files("rm platforms", [fs EXCEPT !.web = {}, !.worker = "none",
                                   !.platform = [p \in Platforms |-> "none"]])

GoGet == \E v \in {fs.goMod, 1} : Files("go get", [fs EXCEPT !.goMod = v])
WriteMeta == Files("write meta", [fs EXCEPT !.meta = fs.goMod])

\* These change no file of the model: names inside files, custom.mk, the
\* repository, the checkout's commit, caches, build outputs, the test runner.
Parameterize == Files("parameterize", fs)
SetupCustomMk == Files("custom.mk", fs)
GitInit == Files("git init", fs)
PullGodashRepo == Files("pull", fs)
Refresh == Files("refresh", fs)
FlutterClean == Files("flutter clean", fs)
PrepareWasmTest == Files("wasm test", fs)

\* The project template, with protos and a default entrypoint.
Template ==
  /\ Running("template")
  /\ \E protos \in Protos :
       /\ fs' = [NoFiles EXCEPT !.protos = protos, !.entry = "default"]
       /\ cmd' = [Advance(cmd) EXCEPT !.protos = protos]
  /\ dir' = "project"
  /\ UNCHANGED << dep, checkout, head, edits, commands, accidents >>

\* git add -A and git commit, which fails with nothing to commit.
Commit ==
  /\ Running("commit") /\ Dirty
  /\ head' = Tracked(fs)
  /\ cmd' = Advance(cmd)
  /\ UNCHANGED << dep, checkout, dir, fs, edits, commands, accidents >>

CommitNothing ==
  /\ Running("commit") /\ ~Dirty /\ Head(cmd.rest).mode = "soft"
  /\ cmd' = Advance(cmd)
  /\ UNCHANGED << dep, checkout, dir, fs, head, edits, commands, accidents >>

-----------------------------------------------------------------------------
(* Accidents.                                                              *)

\* What a step leaves that fails or is cut short: flutter create a part of its
\* directory (patched or not), the script of an Apple library no framework,
\* which it removes first.  Of the others a failure leaves nothing.
PartlyDone ==
  {fs} \cup
  (IF Running("create") /\ fs.platform[On] = "none"
   THEN {[fs EXCEPT !.platform[On] = "half-made"]}
   ELSE IF Running("create web") /\ fs.web = {} THEN {[fs EXCEPT !.web = {"half-made"}]}
   ELSE IF Running("build lib") /\ On \in AppleOnes THEN {[fs EXCEPT !.lib[On] = Gone]}
   ELSE {})

\* Steps that cannot succeed fail for nothing.
Doomed ==
  \/ (Running("protoc go") \/ Running("protoc lite") \/ Running("protoc dart")) /\ ~ProtocFinds
  \/ Running("wasm") /\ ~Compiles(fs.goLite)
  \/ Running("go build") /\ ~Compiles(fs.goStd)
  \/ Running("build lib") /\ fs.archive[On] = Gone
  \/ Running("build web") /\ fs.dartPb = Gone
  \/ Running("commit") /\ ~Dirty /\ Head(cmd.rest).mode = "hard"
  \/ Running("build app") /\ (fs.dartPb = Gone \/ fs.lib[On] = Gone)

\* Variant: a failure of `godash new` leaves what is there.
StopsWithoutCleanup ==
  /\ cmd' = [cmd EXCEPT !.status = "failed", !.sound = FALSE]
  /\ \/ Running("template") /\ UNCHANGED << dir, fs, head >>
     \/ Running("template") /\ dir' = "partial" /\ UNCHANGED << fs, head >>
     \/ ~Running("template") /\ UNCHANGED << dir, fs, head >>

\* The command stops; `godash new` removes the directory, unless it could not
\* write the template, of which some may be there.
Stops ==
  /\ cmd' = [cmd EXCEPT !.status = "failed", !.sound = FALSE]
  /\ \/ Running("template") /\ UNCHANGED << dir, fs, head >>
     \/ Running("template") /\ dir' = "partial" /\ UNCHANGED << fs, head >>
     \/ cmd.name = "new" /\ ~Running("template")
        /\ dir' = "none" /\ fs' = NoFiles /\ head' = Tracked(NoFiles)
     \/ cmd.name # "new" /\ fs' \in PartlyDone /\ UNCHANGED << dir, head >>

StepFails ==
  /\ cmd.status = "running"
  /\ IF Doomed THEN UNCHANGED accidents
     ELSE accidents < MaxAccidents /\ accidents' = accidents + 1
  /\ \/ /\ Head(cmd.rest).mode = "soft"
        /\ cmd' = [Advance(cmd) EXCEPT !.sound = FALSE, !.block = FALSE]
        /\ fs' \in PartlyDone /\ UNCHANGED << dir, head >>
     \/ Head(cmd.rest).mode = "hard" /\ Stops
  /\ UNCHANGED << dep, checkout, edits, commands >>

\* Ctrl-C, between two steps or in the middle of one.
Interrupt ==
  /\ cmd.status = "running" /\ accidents < MaxAccidents
  /\ cmd' = [cmd EXCEPT !.status = "interrupted", !.sound = FALSE]
  /\ accidents' = accidents + 1
  /\ dir' \in IF Running("template") THEN {"none", "partial"} ELSE {dir}
  /\ fs' \in PartlyDone
  /\ UNCHANGED << dep, checkout, head, edits, commands >>

-----------------------------------------------------------------------------
(* The developer.                                                          *)

\* Edits a source or the entrypoint at any time, and the protos between two
\* commands.
Edit(f) ==
  /\ dir = "project" /\ edits < MaxEdits
  /\ edits' = edits + 1
  /\ fs' = f
  /\ UNCHANGED << dep, checkout, dir, head, cmd, commands, accidents >>

EditSource == Edit([fs EXCEPT !.user = @ + 1])
EditEntry == Idle /\ Edit([fs EXCEPT !.entry = "custom"])
EditProtos == Idle /\ \E protos \in Protos : Edit([fs EXCEPT !.protos = protos])

UserCommits ==
  /\ Idle /\ dir = "project" /\ Dirty /\ edits < MaxEdits
  /\ edits' = edits + 1
  /\ head' = Tracked(fs)
  /\ UNCHANGED << dep, checkout, dir, fs, cmd, commands, accidents >>

Next ==
  \/ RunScaffold \/ RunPrepare \/ RunProto \/ RunWeb \/ RunNative \/ RunLib
  \/ RunClean \/ RunReset \/ RunUpgrade
  \/ Clone \/ Checkout \/ ListModule \/ Materialize
  \/ RmGoPb \/ ProtocGo \/ ProtocLite \/ RmDartPb \/ ProtocDart
  \/ WriteMain \/ WriteHandlers \/ WriteEntrypoint \/ PatchManifest
  \/ WebAssets \/ CreateWeb \/ Create \/ Patch \/ ApplyConfig
  \/ Wasm \/ StampWorker \/ BuildWeb \/ GoBuild \/ BuildLib \/ BuildApp
  \/ RmGenerated \/ RmPlatforms \/ GoGet \/ WriteMeta
  \/ Parameterize \/ SetupCustomMk \/ GitInit \/ PullGodashRepo \/ Refresh
  \/ FlutterClean \/ PrepareWasmTest
  \/ Template \/ Commit \/ CommitNothing
  \/ StepFails \/ Interrupt
  \/ EditSource \/ EditEntry \/ EditProtos \/ UserCommits

Spec == Init /\ [][Next]_vars

-----------------------------------------------------------------------------
(* Correctness.                                                            *)

\* What generated code, a manifest and a symbol table can name.
Code == SUBSET ((UNION Protos) \cup Gone \cup Marker)
ProtoSets == Protos \cup {{}}
Entries == {"none", "default", "custom"}
Workers == {"none", "asset", "stamped"}
Stages == [Platforms -> {"none", "half-made", "created", "patched", "configured"}]
WebParts == {"assets", "flutter", "half-made"}

FileTypes ==
  [protos : ProtoSets, user : Nat, entry : Entries, goMod : {0, 1}, meta : {-1, 0, 1},
   goStd : Code, goLite : Code, dartPb : Code, main : Code, handlers : Code,
   manifest : Code, worker : Workers, web : SUBSET WebParts,
   platform : Stages, archive : [Platforms -> Code], lib : [Platforms -> Code],
   app : [Platforms -> [client : Code, symbols : Code, run : Nat]]]

CommitTypes ==
  [user : Nat, protos : ProtoSets, entry : Entries, goMod : {0, 1}, meta : {-1, 0, 1},
   worker : Workers, web : SUBSET WebParts, platform : Stages]

StepNames == {"clone", "checkout", "list module", "materialize", "rm go/pb",
              "protoc go", "protoc lite", "rm lib/pb", "protoc dart", "write main",
              "write handlers", "write entrypoint", "patch manifest", "create",
              "patch", "create web", "web assets", "wasm", "stamp worker", "build web",
              "go build", "build lib", "build app", "rm generated", "flutter clean",
              "rm platforms", "pull", "go get", "refresh", "write meta", "commit",
              "template", "parameterize", "custom.mk", "git init", "apply config",
              "wasm test"}

CommandNames == {"none", "new", "prepare", "proto", "web", "native", "lib", "clean",
                 "reset", "upgrade"}

StepTypes == [do : StepNames, on : Platforms \cup {""}, mode : {"soft", "hard"}]

CommandTypes ==
  [name : CommandNames, rest : Seq(StepTypes), sound : BOOLEAN, moduleDir : BOOLEAN,
   status : {"running", "done", "failed", "interrupted"}, block : BOOLEAN,
   user : Nat, protos : ProtoSets]

TypeOK ==
  /\ dep \in {"version", "path"} /\ checkout \in {"none", "cloned", "at ref"}
  /\ dir \in {"none", "partial", "project"}
  /\ fs \in FileTypes /\ head \in CommitTypes
  /\ cmd \in CommandTypes /\ (cmd.status = "running" => cmd.rest # << >>)
  /\ edits \in Nat /\ commands \in Nat /\ accidents \in Nat

Ended == cmd.status = "done" /\ cmd.sound

\* A command none of whose steps failed repairs whatever earlier commands,
\* failures, interruptions and edits have left ("Idempotent: safe to re-run",
\* main.go:108): all generated code is of the protos as they are, the client of
\* an app built finds every hot symbol it looks up - but on Apple platforms
\* only with a version dependency - and prepare leaves no platform out (one that
\* is half made it takes for one).
SoundRunRepairs ==
  TypeOK /\ (Ended /\ fs.protos = cmd.protos =>
    /\ cmd.name \in {"new", "prepare", "upgrade", "web", "native"} =>
         /\ {fs.goStd, fs.goLite, fs.dartPb, fs.main, fs.handlers} = {fs.protos}
         /\ fs.entry # "none"
    /\ cmd.name \in {"prepare", "upgrade", "web", "native"} /\ dep = "version" =>
         fs.manifest = fs.protos
    /\ cmd.name \in {"new", "prepare", "upgrade"} =>
         /\ fs.web # {}
         /\ \A p \in Platforms : fs.platform[p] # "none"
    /\ \A p \in Platforms :
         /\ fs.app[p].run = commands
         /\ p \in AppleOnes => dep = "version"
         => fs.app[p].client = fs.app[p].symbols)

Own(f) == << f.goMod, f.meta, f.worker, f.web, f.platform >>

\* `godash new` makes a whole project or none: one that fails leaves no
\* project, one none of whose steps failed leaves a working tree that
\* `godash upgrade` accepts (comment of commitScaffoldState).  What is half
\* done - a platform half made or without its patches, a checkout not at the
\* ref - comes from a failure or an interruption only (and nothing repairs it).
WholeOrNothing ==
  /\ cmd.name = "new" /\ cmd.status = "failed" => dir # "project"
  /\ cmd.name = "new" /\ Ended => Own(fs) = Own(head)
  /\ accidents = 0 /\ Idle => /\ \A p \in Platforms : fs.platform[p] \notin {"half-made", "created"}
                             /\ "half-made" \notin fs.web
                             /\ checkout # "cloned"

\* What the developer wrote is kept: the entrypoint survives every command, and
\* a commit that godash upgrade makes takes nothing that was uncommitted when
\* it started (it does take an edit made while it runs).
UserWorkKept ==
  [][/\ fs.entry = "custom" /\ dir' = "project" => fs'.entry = "custom"
     /\ cmd.name = "upgrade" /\ cmd.status = "running" /\ head'.user # head.user =>
          head.user = cmd.user]_vars
=============================================================================
