---------------------------- MODULE MCDeployment ----------------------------
(***************************************************************************)
(* A small instance of Deployment for TLC: two indexers, one server, and   *)
(* three command lines of indexengine, which between them use each option. *)
(***************************************************************************)
EXTENDS Deployment, TLC

CONSTANTS i1, i2, s1

MCIndexers == {i1, i2}
MCServers == {s1}

\* The two indexers are alike, and only safety is checked.
IndexersAlike == Permutations(MCIndexers)

CommandLine(method, recreate, query) ==
    [method |-> method, recreate |-> recreate, query |-> query]

MCOptions == {CommandLine("golomb", TRUE, FALSE), CommandLine("golomb", FALSE, TRUE),
              CommandLine("none", FALSE, FALSE)}

=============================================================================
