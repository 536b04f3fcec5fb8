----------------------------- MODULE PatchSeries -----------------------------
(* The build-time application of the patch series to the vLLM clone         *)
(* (patches/build_apply.py, and the build command of setup.py that calls    *)
(* it), over repeated builds, with or without a fresh checkout, and builds  *)
(* that are interrupted.                                                    *)
(*                                                                          *)
(* A region is a stretch of source that patches change or expect as a       *)
(* whole.  Its contents are named by the patch that wrote them: 0 is        *)
(* upstream's text.  Patch i was made on a tree with patches 1 .. i-1.      *)
EXTENDS Integers, Sequences, FiniteSetsExt

CONSTANTS
    Regions,
    AllSeries,  \* the series to consider: sequences of patches
    MaxBuilds   \* bound: builds that are started

Patch == [scope : SUBSET Regions, writes : SUBSET Regions]

ASSUME SeriesAssumption ==
    /\ MaxBuilds \in Nat
    /\ \A s \in AllSeries :
          /\ s \in Seq(Patch)
          /\ \A i \in 1 .. Len(s) : s[i].writes \subseteq s[i].scope

VARIABLES
    series,     \* the patches, in the order of the series directory
    tree,       \* tree[x]: the contents of region x of the clone
    build,      \* "idle", "patching", "writing", "failed", "broken" or "installed"
    noBuildPatch, \* the build has VLLM_MUSA_NO_BUILD_PATCH=1
    next,       \* the patch the build has come to
    unwritten,  \* while "writing": the regions git apply has yet to write
    clean,      \* the build began with a fresh checkout
    builds

vars == <<series, tree, build, noBuildPatch, next, unwritten, clean, builds>>

Upstream == [x \in Regions |-> 0]

Init ==
    /\ series \in AllSeries
    /\ tree = Upstream
    /\ build = "idle"
    /\ noBuildPatch = FALSE
    /\ next = 1
    /\ unwritten = {}
    /\ clean = FALSE
    /\ builds = 0

-----------------------------------------------------------------------------
(* What patch i expects to find in a region of its scope, and leaves there. *)

Before(i, x) == Max({0} \union {j \in 1 .. i - 1 : x \in series[j].writes})

After(i, x) == IF x \in series[i].writes THEN i ELSE Before(i, x)

(* mutant: a patch is checked against upstream, not against the clone *)
AppliesOnUpstream(i) == \A x \in series[i].scope : Before(i, x) = 0

(* git apply --check: every hunk, with its context, is there.               *)
Applies(i) == \A x \in series[i].scope : tree[x] = Before(i, x)

(* mutant: the check passes when one of the patch's regions looks applied   *)
PartlyReverses(i) == \E x \in series[i].scope : tree[x] = After(i, x)

(* git apply --reverse --check                                              *)
Reverses(i) == \A x \in series[i].scope : tree[x] = After(i, x)

(* the tree with the whole series applied                                   *)
Patched == [x \in Regions |-> Before(Len(series) + 1, x)]

-----------------------------------------------------------------------------
(* mutant: the series is entered one patch too early *)
BeginAtZero ==
    /\ build \notin {"patching", "writing"}
    /\ builds < MaxBuilds
    /\ builds' = builds + 1
    /\ build' = "patching"
    /\ noBuildPatch' \in BOOLEAN
    /\ next' = 0

Begin ==
    /\ build \notin {"patching", "writing"}
    /\ builds < MaxBuilds
    /\ builds' = builds + 1
    /\ build' = "patching"
    /\ noBuildPatch' \in BOOLEAN
    /\ next' = 1

(* mutant: the checkout is not followed by a reset of the modified files *)
CheckoutWithoutReset == Begin /\ clean' = TRUE /\ UNCHANGED <<series, tree, unwritten>>

(* A build that fetches the pinned revision and resets the clone to it.     *)
CloneAndCheckout ==
    /\ Begin
    /\ tree' = Upstream
    /\ clean' = TRUE
    /\ UNCHANGED <<series, unwritten>>

(* A build with SKIP_THIRD_PARTY=1, on the clone as the last one left it.   *)
SkipThirdParty ==
    /\ Begin
    /\ clean' = FALSE
    /\ UNCHANGED <<series, tree, unwritten>>

More == build = "patching" /\ ~noBuildPatch /\ next <= Len(series)

AlreadyApplied ==
    /\ More
    /\ Reverses(next)
    /\ next' = next + 1
    /\ UNCHANGED <<series, tree, build, noBuildPatch, unwritten, clean, builds>>

Apply ==
    /\ More
    /\ ~Reverses(next) /\ Applies(next)
    /\ build' = "writing"
    /\ unwritten' = series[next].writes
    /\ UNCHANGED <<series, tree, noBuildPatch, next, clean, builds>>

(* git apply writes the patched files one after the other.                  *)
Write ==
    /\ build = "writing"
    /\ \E x \in unwritten :
          /\ tree' = [tree EXCEPT ![x] = next]
          /\ unwritten' = unwritten \ {x}
    /\ UNCHANGED <<series, build, noBuildPatch, next, clean, builds>>

Applied ==
    /\ build = "writing"
    /\ unwritten = {}
    /\ build' = "patching"
    /\ next' = next + 1
    /\ UNCHANGED <<series, tree, noBuildPatch, unwritten, clean, builds>>

(* mutant: the conflict is tried again *)
RetryConflict ==
    /\ More
    /\ ~Reverses(next) /\ ~Applies(next)
    /\ next' = 1
    /\ UNCHANGED <<series, tree, build, noBuildPatch, unwritten, clean, builds>>

(* strict: the first patch that does not apply fails the build.             *)
Conflict ==
    /\ More
    /\ ~Reverses(next) /\ ~Applies(next)
    /\ build' = "failed"
    /\ UNCHANGED <<series, tree, noBuildPatch, next, unwritten, clean, builds>>

(* The series is through, or _apply_musa_patch_series returned at once.     *)
SeriesDone == build = "patching" /\ (noBuildPatch \/ next = Len(series) + 1)

InstallVllm ==
    /\ SeriesDone
    /\ build' = "installed"
    /\ UNCHANGED <<series, tree, noBuildPatch, next, unwritten, clean, builds>>

(* A step of the install raises: there is no clone, or pip fails.           *)
InstallFails ==
    /\ SeriesDone
    /\ build' = "broken"
    /\ UNCHANGED <<series, tree, noBuildPatch, next, unwritten, clean, builds>>

(* git apply fails although its check passed (no space, no permission).     *)
(* The code raises as it does for a conflict.                               *)
ApplyFails ==
    /\ build = "writing"
    /\ build' = "broken"
    /\ unwritten' = {}
    /\ UNCHANGED <<series, tree, noBuildPatch, next, clean, builds>>

(* The build is interrupted, perhaps in the middle of a patch.              *)
Interrupt ==
    /\ build \in {"patching", "writing"}
    /\ build' = "idle"
    /\ unwritten' = {}
    /\ UNCHANGED <<series, tree, noBuildPatch, next, clean, builds>>

-----------------------------------------------------------------------------
ApplySeries == AlreadyApplied \/ Apply \/ Write \/ Applied \/ Conflict \/ InstallVllm

Fault == InstallFails \/ ApplyFails \/ Interrupt

Next == CloneAndCheckout \/ SkipThirdParty \/ ApplySeries \/ Fault

Spec == Init /\ [][Next]_vars

(* A build that was started goes on by itself.                              *)
FairSpec == Spec /\ WF_vars(ApplySeries)

-----------------------------------------------------------------------------
TypeOK ==
    /\ series \in AllSeries
    /\ tree \in [Regions -> 0 .. Len(series)]
    /\ build \in {"idle", "patching", "writing", "failed", "broken", "installed"}
    /\ noBuildPatch \in BOOLEAN
    /\ next \in 1 .. Len(series) + 1
    /\ unwritten \subseteq Regions
    /\ build = "writing" => next <= Len(series) /\ unwritten \subseteq series[next].writes
    /\ clean \in BOOLEAN
    /\ builds \in 0 .. MaxBuilds

(* Unless VLLM_MUSA_NO_BUILD_PATCH=1 tells the build to take the tree as it *)
(* is, vLLM is installed only from a tree that carries the whole series,    *)
(* each patch once, whatever state earlier builds, with the switch or       *)
(* without, left the tree in.                                               *)
InstalledIsPatched == build = "installed" /\ ~noBuildPatch => tree = Patched

(* In a build on a fresh checkout every patch applies, however many builds  *)
(* failed or were interrupted before it.                                    *)
FreshBuildApplies == clean => build # "failed"

(* That a patch does not apply has one of two causes: a later patch has     *)
(* changed a region it expects, or git was stopped in the middle of it.     *)
WhyConflict ==
    build = "failed" =>
        \/ \E x \in series[next].scope : tree[x] > next
        \/ \E x, y \in series[next].writes : tree[x] = next /\ tree[y] < next

(* A build that is not interrupted ends.                                    *)
BuildEnds == []<>(build \notin {"patching", "writing"})

(* The applier's promise to be idempotent: on a tree that carries the whole *)
(* series it has nothing to complain of.  The code does not keep it: see    *)
(* the README.                                                              *)
Idempotent == tree = Patched => build # "failed"
=============================================================================
