------------------------------- MODULE MCBuildspec -----------------------------
(* Nodes of every group, plain ones and ones that name a directory, a script or *)
(* a manager of their own; a repository with one directory below its root.      *)
EXTENDS Buildspec

Node(block, group, manager, dir, given, lines) ==
  [block |-> block, group |-> group, manager |-> manager, dir |-> dir,
   given |-> given, lines |-> lines]

RootAndApp == {<<>>, <<"app">>}

SomeNodes == {
  Node("os_package", "prebuild", "yum", Here, {"updatePackageList"}, 1),
  Node("environment_setup", "prebuild", "none", Here, {"loadFromFile"}, 2),
  Node("install_module_node", "build", "bun", Here, {"cleanInstall"}, 1),
  Node("install_module_node", "build", "pnpm", Here, {}, 1),
  Node("build_webpack", "build", "pnpm", Here, {}, 1),
  Node("build_vite", "build", "none", Here, {"outputDir"}, 1),
  Node("build_custom", "build", "none", "app", {"scriptName"}, 1),
  Node("test_jest", "test", "none", Here, {}, 1),
  Node("test_vitest", "test", "none", Here, {}, 1),
  Node("test_custom", "utility", "none", "app", {}, 1),
  Node("notification_slack", "notification", "none", Here, {"channel", "webhookUrlEnv"}, 1)}
================================================================================
