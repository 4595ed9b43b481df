----------------------------- MODULE MCHermetic -----------------------------
(* Hermetic on a repository of several ecosystems and a few hosts. *)
EXTENDS Hermetic

CONSTANTS js, py, rs, v3, v4, linux, macos

ThreeTrees == {js, py, rs}
Manifests == [t \in ThreeTrees |-> CASE t = js -> {"package.json"}
                                     [] t = py -> {"pyproject.toml", "go.mod"}
                                     [] t = rs -> {"Cargo.toml", "requirements.in"}]
ByName == {"npm", "uv", "poetry"}
TwoVersions == {v3, v4}
TwoPlatforms == {linux, macos}
Formats == [v \in {v3, v4} |-> v]

Machine(tool, runtime, platform) ==
    [tool |-> [e \in Eco |-> tool], runtime |-> [e \in Eco |-> runtime], platform |-> platform]

\* A host to record on; one with a newer tool, one with a newer runtime; and
\* one on another platform, without the Python tools.
FewHosts == {Machine(v3, v3, linux), Machine(v4, v3, linux), Machine(v3, v4, linux),
             [tool |-> [e \in Eco |-> IF e \in {"uv", "poetry"} THEN Unknown ELSE v3],
              runtime |-> [e \in Eco |-> v3], platform |-> macos]}
LeftBehind == {Unknown, v4}

Given(before, registry) ==
    [f \in Field |-> CASE f = "before" -> before
                        [] f \in {"registry", "goproxy", "index_commit"} -> registry
                        [] OTHER -> "absent"]
SomeArgs == {Given("absolute", "snapshot"), Given("absolute", "live"),
             Given("relative", "snapshot")}
=============================================================================
