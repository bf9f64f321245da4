------------------------------ MODULE MCVersioning ------------------------------
(* Two specifications, two revisions for one of them, a lock of an unreleased *)
(* specification and a damaged lock, for Versioning.                          *)
EXTENDS Versioning, TLC

Lock(tagged, version, commit) ==
    [repository |-> "axtp", tag |-> tagged, version |-> version, commit |-> commit]
MCLocks == {Lock("spec/v1.2.3", "1.2.3", "c1"), Lock("spec/v1.3.0", "1.3.0", "c2"),
            Lock("unreleased", "1.3.0", "c2"), Lock("spec/v1.3.0", "1.3.0", Undef)}
MCVersions == {"1.3.0", "1.3.0.1"}
MCGenerators == {"0.9", "0.10"}
MCCheckouts ==
    {[lock |-> l, version |-> "1.3.0", generator |-> "0.9"] : l \in {x \in MCLocks : x.version = "1.3.0"}}
MCSpecVersion(v) == "1.3.0"
MCSpecTag(v) == IF v = "1.2.3" THEN "spec/v1.2.3" ELSE "spec/v1.3.0"
MCRevision(v) == IF v = "1.3.0.1" THEN 1 ELSE 0
MCWithin(value) ==
    CASE value \in {"spec/v1.3.0", "1.3.0.1"} -> {value, "1.3.0"}
      [] value = "spec/v1.2.3" -> {value, "1.2.3"}
      [] OTHER -> {value}

Symmetry == Permutations(Procs) \cup Permutations(Stamps)
=============================================================================
