------------------------------- MODULE Buildspec -------------------------------
(* What a pipeline's flow becomes: BuildSpecGeneratorService groups the nodes   *)
(* and turns them into the commands of three phases, generateDockerfileScript   *)
(* adds a Dockerfile where the repository has none, and CodeBuild runs the      *)
(* commands.  A command is a record of what it does, the package manager it     *)
(* needs, the directory it changes to first and the node it was made from;      *)
(* its text, and the echo, pwd and version commands, are left out.              *)
(*                                                                              *)
(* CodeBuild is external: buildspec version 0.2 (line 38) runs every command in *)
(* one shell, so that a `cd` lasts, ends a phase at the first command that      *)
(* fails, skips the build after a failed pre_build and runs post_build after a  *)
(* failed build.                                                                *)
EXTENDS Integers, Sequences, FiniteSetsExt, SequencesExt

CONSTANTS Nodes,       \* the nodes a flow is made of
          MaxNodes,    \* bound: nodes of a flow
          Dirs,        \* the directories of the repository, as paths
          MaxFailures  \* bound: commands that fail by themselves

ASSUME BuildspecAssumption ==
  /\ Nodes \subseteq [block : STRING, group : STRING, manager : STRING, dir : STRING,
                      given : SUBSET STRING, lines : Nat]
  /\ MaxNodes \in Nat /\ MaxFailures \in Nat /\ <<>> \in Dirs

VARIABLES flow,        \* the nodes, in the order of data.flowNodes
          packages,    \* the directories that hold a package.json
          dockerfiles, \* the directories that hold a Dockerfile of their own
          scripts,     \* those whose build script runs in the Dockerfile generated
                       \* there, which installs production dependencies only
          phase, at,   \* the phase under way and its next command
          cwd,         \* the directory the shell is in
          done,        \* the commands that ran, each with its directory
          failed,      \* the phases that failed
          failures     \* how many commands failed by themselves

repository == <<packages, dockerfiles, scripts>>
shellVars == <<flow, repository, phase, at, cwd, done, failed, failures>>
--------------------------------------------------------------------------------
(* Commands.                                                                    *)
Here == "."
NoNode == [block |-> "none"]
Known == {"npm", "yarn", "pnpm"}

Manager(n) == IF n.manager = "none" THEN "npm" ELSE n.manager

Own(what, with) == <<[what |-> what, with |-> with, in |-> Here, of |-> NoNode]>>
Does(n, what, with) == <<[what |-> what, with |-> with, in |-> Here, of |-> n]>>
When(condition, commands) == IF condition THEN commands ELSE <<>>
Times(k, commands) == FlattenSeq([i \in 1..k |-> commands])

(* `cd workingDirectory && command`, before each command of a node that names a *)
(* directory.                                                                   *)
InDirectory(n, commands) == [i \in DOMAIN commands |-> [commands[i] EXCEPT !.in = n.dir]]

(* A flag or a field of a node is set when n.given holds its name; n.lines is   *)
(* the length of its list (packages, variables, commands).                      *)
OSPackage(n) ==
  LET manager == IF n.manager = "none" THEN "apt-get" ELSE n.manager
      change == Does(n, "os", manager)
  IN  When(manager \in {"apt", "apt-get", "yum"},
           When("updatePackageList" \in n.given, change) \o When(n.lines > 0, change))

EnvironmentSetup(n) ==
  Times(n.lines, Does(n, "export", "npm"))
    \o When("loadFromFile" \in n.given, Does(n, "source", "npm"))

(* A clean install, webpack and vite have a command for the known managers      *)
(* only: any other leaves `then ...; ; else`, which no shell parses.            *)
InstallPackages(n) ==
  Does(n, IF "cleanInstall" \in n.given /\ Manager(n) \notin Known
          THEN "nonsense" ELSE "install", Manager(n))

Webpack(n) == Does(n, IF Manager(n) \in Known THEN "bundle" ELSE "nonsense", Manager(n))

(* With a base path, vite of another manager is `VITE_BASE_PATH=... ;`, which   *)
(* does nothing.                                                                *)
Vite(n) ==
  Does(n, IF Manager(n) \in Known THEN "bundle"
          ELSE IF "basePath" \in n.given THEN "nothing" ELSE "nonsense", Manager(n))
    \o When("outputDir" \in n.given, Does(n, "move", "npm"))

CustomBuild(n) ==
  InDirectory(n, When("scriptName" \in n.given, Does(n, "script", Manager(n)))
                   \o Times(n.lines, Does(n, "build", "npm")))

CustomTest(n) == InDirectory(n, Times(n.lines, Does(n, "test", "npm")))

Jest(n) == Does(n, "test script", "npm")

Vitest(n) == Does(n, "test", "npm")

Mocha(n) == Does(n, "test", "npm")

Playwright(n) == Does(n, "test", "npm")

Slack(n) == When({"channel", "webhookUrlEnv"} \subseteq n.given, Does(n, "notify", "npm"))

Email(n) == When({"recipients", "subject"} \subseteq n.given, Does(n, "notify", "npm"))
--------------------------------------------------------------------------------
(* The switches: what a node of each group gives, by its block type.            *)
PreBuildCommands(n) ==
  CASE n.block = "os_package" -> OSPackage(n)
    [] n.block = "environment_setup" -> EnvironmentSetup(n)
    [] OTHER -> <<>>

BuildCommands(n) ==
  CASE n.block = "install_module_node" -> InstallPackages(n)
    [] n.block = "build_webpack" -> Webpack(n)
    [] n.block = "build_vite" -> Vite(n)
    [] n.block = "build_custom" -> CustomBuild(n)
    [] OTHER -> <<>>

TestCommands(n) ==
  CASE n.block = "test_jest" -> Jest(n)
    [] n.block = "test_vitest" -> Vitest(n)
    [] n.block = "test_mocha" -> Mocha(n)
    [] n.block = "test_playwright" -> Playwright(n)
    [] n.block = "test_custom" -> CustomTest(n)
    [] OTHER -> <<>>

NotificationCommands(n) ==
  CASE n.block = "notification_slack" -> Slack(n)
    [] n.block = "notification_email" -> Email(n)
    [] OTHER -> <<>>

(* The commands of each node, one after the other.                              *)
Of(nodes, Turn(_)) == FlattenSeq([i \in DOMAIN nodes |-> Turn(nodes[i])])

(* groupNodesByType.                                                            *)
Group(nodes, group) == Of(nodes, LAMBDA n : When(n.group = group, <<n>>))

(* find: the first node of a block type, if any.                                *)
First(nodes, blocks) ==
  LET those == {i \in DOMAIN nodes : nodes[i].block \in blocks}
  IN  IF those = {} THEN NoNode ELSE nodes[Min(those)]

InstallManager(nodes) ==
  LET install == First(nodes, {"install_module_node"})
  IN  IF install = NoNode THEN "npm" ELSE Manager(install)

NodeVersion(nodes) ==
  LET version == First(nodes, {"node_version"})
  IN  When(version # NoNode /\ "version" \in version.given, Does(version, "node", "npm"))

\* a mutant: the manager of a node that asks for a clean install only
GetManagerIfClean(nodes) ==
  When(InstallManager(nodes) # "npm" /\ "cleanInstall" \in First(nodes, {"install_module_node"}).given,
       Own("get manager", InstallManager(nodes)))
GetManager(nodes) ==
  When(InstallManager(nodes) # "npm", Own("get manager", InstallManager(nodes)))

(* The generated Dockerfile runs the build script (getDockerBuildCommand) if the *)
(* flow has a build node, whatever that node does itself.                       *)
RunsScript(nodes) == First(nodes, {"build_webpack", "build_vite", "build_custom"}) # NoNode

(* It installs dependencies and starts the application for known managers only. *)
DockerfileScript(nodes) ==
  Own(IF InstallManager(nodes) \in Known THEN "dockerfile" ELSE "dockerfile without start",
      InstallManager(nodes))
--------------------------------------------------------------------------------
(* generateBuildSpec.                                                           *)
PreBuild(nodes) ==
  NodeVersion(nodes) \o Own("login", "npm") \o Own("name", "npm") \o GetManager(nodes)
    \o Of(Group(nodes, "prebuild"), PreBuildCommands) \o DockerfileScript(nodes)

DockerBuild == Own("docker build", "npm") \o Own("docker tag", "npm")

Build(nodes) == Of(Group(nodes, "build"), BuildCommands) \o DockerBuild

\* a mutant: the utility group is forgotten
TestsOfTestOnly(nodes) == Of(Group(nodes, "test"), TestCommands)
Tests(nodes) ==
  Of(Group(nodes, "test"), TestCommands)
    \o Of(Group(nodes, "utility"), LAMBDA n : When(n.block = "test_custom", CustomTest(n)))

DockerPush ==
  Own("push latest", "npm") \o Own("push tag", "npm") \o Own("definitions", "npm")

\* two mutants: the tests go last, the notifications go first
PostBuildTestedLast(nodes) ==
  DockerPush \o Tests(nodes) \o Of(Group(nodes, "notification"), NotificationCommands)
PostBuildToldFirst(nodes) ==
  Of(Group(nodes, "notification"), NotificationCommands) \o Tests(nodes) \o DockerPush
(* The tests go in at index 2 of post_build: after its two echo commands,       *)
(* before the push.                                                             *)
PostBuild(nodes) ==
  Tests(nodes) \o DockerPush \o Of(Group(nodes, "notification"), NotificationCommands)

Commands(p) ==
  CASE p = "pre_build" -> PreBuild(flow)
    [] p = "build" -> Build(flow)
    [] p = "post_build" -> PostBuild(flow)
    [] p = "ended" -> <<>>
--------------------------------------------------------------------------------
(* The shell.                                                                   *)
Phases == <<"pre_build", "build", "post_build", "ended">>

Ran(what) == \E i \in DOMAIN done : done[i].what = what

Directory(c) == IF c.in = Here THEN cwd ELSE Append(cwd, c.in)

Installed(manager) ==
  \/ manager = "npm"
  \/ \E i \in DOMAIN done : done[i].what = "get manager" /\ done[i].with = manager

(* The Dockerfile is written where pre_build runs, unless there is one.         *)
HasDockerfile(dir) ==
  \/ dir \in dockerfiles
  \/ \E i \in DOMAIN done :
       done[i].what \in {"dockerfile", "dockerfile without start"} /\ done[i].dir = dir

(* What `docker build` needs: the Dockerfile generated runs a script, if there   *)
(* is a package.json, on what it has installed.                                 *)
ImageBuilds(dir) ==
  \/ dir \in dockerfiles
  \/ dir \in packages /\ RunsScript(flow) => dir \in scripts /\ InstallManager(flow) \in Known

(* What a command needs to succeed: an install and a bundler are skipped where  *)
(* there is no package.json, a script and `mv` are not.                         *)
Works(c) ==
  /\ c.what # "nonsense"
  /\ Directory(c) \in Dirs
  /\ c.what \in {"install", "bundle"} /\ Directory(c) \in packages => Installed(c.with)
  /\ c.what \in {"script", "test script"} => Directory(c) \in packages /\ Installed(c.with)
  /\ c.what = "move" => Directory(c) \in packages
  /\ c.what = "docker build" => HasDockerfile(Directory(c)) /\ ImageBuilds(Directory(c))
  /\ c.what \in {"docker tag", "push latest"} => Ran("docker build")
  /\ c.what = "push tag" => Ran("docker tag")

ShellTypeOK ==
  /\ flow \in Seq(Nodes) /\ Len(flow) <= MaxNodes
  /\ packages \subseteq Dirs /\ dockerfiles \subseteq Dirs /\ scripts \subseteq packages /\ cwd \in Dirs
  /\ phase \in ToSet(Phases) /\ at \in 1..(Len(Commands(phase)) + 1)
  /\ \A i \in DOMAIN done : done[i].dir \in Dirs
  /\ failed \subseteq ToSet(Phases) /\ failures \in 0..MaxFailures
  /\ \A c \in ToSet(Commands(phase)) : c.with # "none"

ShellInit ==
  /\ flow \in UNION {[1..k -> Nodes] : k \in 0..MaxNodes}
  /\ packages \in SUBSET Dirs /\ dockerfiles \in SUBSET Dirs /\ scripts \in SUBSET (packages \ dockerfiles)
  /\ phase = "pre_build" /\ at = 1 /\ cwd = <<>>
  /\ done = <<>> /\ failed = {} /\ failures = 0

RunCommand ==
  /\ at <= Len(Commands(phase))
  /\ LET c == Commands(phase)[at]
     IN  /\ Works(c)
         /\ cwd' = Directory(c)
         /\ done' = Append(done, [what |-> c.what, with |-> c.with, of |-> c.of, dir |-> Directory(c)])
  /\ at' = at + 1
  /\ UNCHANGED <<flow, repository, phase, failed, failures>>

After(p, ok) ==
  CASE p = "pre_build" -> IF ok THEN "build" ELSE "ended"
    [] p = "build" -> "post_build"
    [] OTHER -> "ended"

(* A command fails: for what it needs, or by itself (a test, a build, a call).  *)
(* If it changed the directory, the shell stays there.                          *)
FailCommand ==
  /\ at <= Len(Commands(phase))
  /\ LET c == Commands(phase)[at]
     IN  /\ \/ ~Works(c) /\ failures' = failures
            \/ Works(c) /\ failures < MaxFailures /\ failures' = failures + 1
         /\ cwd' = IF Directory(c) \in Dirs THEN Directory(c) ELSE cwd
  /\ failed' = failed \cup {phase}
  /\ phase' = After(phase, FALSE) /\ at' = 1
  /\ UNCHANGED <<flow, repository, done>>

EndPhase ==
  /\ phase # "ended"
  /\ at > Len(Commands(phase))
  /\ phase' = After(phase, TRUE) /\ at' = 1
  /\ UNCHANGED <<flow, repository, cwd, done, failed, failures>>

ShellNext == RunCommand \/ FailCommand \/ EndPhase

ShellSpec == ShellInit /\ [][ShellNext]_shellVars
--------------------------------------------------------------------------------
(* Every command of every test node ran before the command number i.            *)
TestedBefore(i) ==
  \A n \in ToSet(flow) :
    n.group = "test" \/ (n.group = "utility" /\ n.block = "test_custom") =>
      \A c \in ToSet(TestCommands(n)) :
        \E j \in 1..(i - 1) : done[j].of = n /\ done[j].what = c.what

(* An image is pushed only when the test commands of every test node ran, and   *)
(* after they did: post_build also runs after a failed build, and a failed test *)
(* must keep the image out of the registry the deployment reads.                *)
PushedIsTested ==
  \A i \in DOMAIN done : done[i].what \in {"push latest", "push tag"} => TestedBefore(i)

(* Notifications say that the build completed successfully: whoever gets one    *)
(* finds both tags pushed and imagedefinitions.json written.                    *)
ToldIsPushed ==
  Ran("notify") => Ran("push latest") /\ Ran("push tag") /\ Ran("definitions")

(* The nodes that ask nothing of the shell's directory, of a script, of an      *)
(* output directory, or of a manager other than the first install node's.       *)
Plain(n) ==
  /\ n.dir = Here
  /\ n.given \cap {"scriptName", "outputDir"} = {} /\ n.block # "test_jest"
  /\ n.block \in {"install_module_node", "build_webpack", "build_vite"}
       => Manager(n) \in Known \cap {"npm", InstallManager(flow)}

(* A flow of such nodes, in any order and number, pushes its image unless a     *)
(* command fails by itself, of a repository that has a Dockerfile of its own or *)
(* builds in the one generated; the image is made of the root of the repository *)
(* and has a start command.                                                     *)
PlainFlowsPush ==
  (phase = "ended" /\ failures = 0 /\ (\A n \in ToSet(flow) : Plain(n)) /\ ImageBuilds(<<>>)) =>
    /\ failed = {} /\ Ran("push tag") /\ Ran("definitions")
    /\ \A i \in DOMAIN done : done[i].what = "docker build" => done[i].dir = <<>>
    /\ ~Ran("dockerfile without start")

(* The group a block belongs to.                                                *)
Home(block) ==
  CASE block \in {"os_package", "environment_setup"} -> {"prebuild"}
    [] block \in {"install_module_node", "build_webpack", "build_vite", "build_custom"} -> {"build"}
    [] block \in {"test_jest", "test_vitest", "test_mocha", "test_playwright"} -> {"test"}
    [] block = "test_custom" -> {"test", "utility"}
    [] block \in {"notification_slack", "notification_email"} -> {"notification"}
    [] OTHER -> {}

(* A node asks for something the generator has a command for: an OS package of  *)
(* a manager it knows, a message with an addressee, at least one line.          *)
Asks(n) ==
  /\ n.block = "os_package" => n.manager \in {"none", "apt", "apt-get", "yum"}
  /\ n.block = "notification_slack" => {"channel", "webhookUrlEnv"} \subseteq n.given
  /\ n.block = "notification_email" => {"recipients", "subject"} \subseteq n.given
  /\ n.lines > 0

(* A build that succeeds has run something of every node that stands in its own *)
(* group and asks for something, and of those of a group in the flow's order.   *)
NoNodeIsLost ==
  (phase = "ended" /\ failed = {}) =>
    \A g \in {"prebuild", "build", "test", "utility", "notification"} :
      LET asking == {i \in DOMAIN flow :
                       flow[i].group = g /\ g \in Home(flow[i].block) /\ Asks(flow[i])}
      IN  \E run \in [asking -> DOMAIN done] :
            \A i \in asking : /\ done[run[i]].of = flow[i]
                              /\ \A j \in asking : i < j => run[i] < run[j]
================================================================================
