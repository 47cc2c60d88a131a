---------------------------- MODULE MCPalPlatform ----------------------------
(* pal-platform.py with targets of two elements, as pal-platform.json has  *)
(* them (pinned git repositories, one patched, one with submodules) and as *)
(* its other protocols and references allow.                               *)
EXTENDS PalPlatform, TLC

Git(ref, submodules, patch, clash) ==
  [protocol |-> "git", ref |-> ref, submodules |-> submodules,
   patch |-> patch, clash |-> clash]

Plain(protocol, patch) ==
  [protocol |-> protocol, ref |-> "tag", submodules |-> FALSE,
   patch |-> patch, clash |-> FALSE]

MCConfigurations ==
  { 1 :> Git("tag", FALSE, TRUE, TRUE) @@ 2 :> Git("tag", TRUE, FALSE, FALSE),
    1 :> Git("branch", FALSE, TRUE, FALSE)
      @@ 2 :> Git("hash", TRUE, TRUE, FALSE),
    1 :> Git("branch", TRUE, FALSE, FALSE) @@ 2 :> Plain("files", TRUE),
    1 :> Git("hash", FALSE, TRUE, TRUE) @@ 2 :> Plain("copy", TRUE) }
=============================================================================
