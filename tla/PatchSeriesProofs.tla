-------------------------- MODULE PatchSeriesProofs --------------------------
(* Proofs about PatchSeries, for every series, every clone and any number   *)
(* of builds: what installs is fully patched unless the build was told to   *)
(* leave the tree alone, a fresh build never meets a conflict, and what a   *)
(* conflict means.                                                          *)
EXTENDS PatchSeries, TLAPS

(* A region holds upstream's text or that of a patch that writes it.        *)
Authored ==
    \A x \in Regions :
        tree[x] # 0 => tree[x] \in 1 .. Len(series) /\ x \in series[tree[x]].writes

(* What the build has passed is in the tree, or has been written over.      *)
Passed ==
    \A j \in 1 .. next - 1 : \A x \in series[j].writes : tree[x] >= j

Written ==
    build = "writing" => \A x \in series[next].writes \ unwritten : tree[x] = next

(* A fresh build has the tree exactly as far as it has come.                *)
FreshTree ==
    clean =>
        /\ build = "patching" => \A x \in Regions : tree[x] = Before(next, x)
        /\ build = "writing" =>
              \A x \in Regions :
                  tree[x] = IF x \in series[next].writes \ unwritten
                              THEN next ELSE Before(next, x)

AtTheEnd == build = "installed" /\ ~noBuildPatch => next = Len(series) + 1

IInv ==
    TypeOK /\ Authored /\ Passed /\ Written /\ FreshTree /\ FreshBuildApplies /\ AtTheEnd

-----------------------------------------------------------------------------
(* What SeriesAssumption says of the series of a build.                     *)
LEMMA SeriesFacts ==
    ASSUME series \in AllSeries
    PROVE  /\ Len(series) \in Nat
           /\ \A i \in 1 .. Len(series) :
                 series[i].writes \subseteq series[i].scope /\ series[i].scope \subseteq Regions
<1>1. series \in Seq(Patch)
  BY SeriesAssumption
<1>2. \A i \in 1 .. Len(series) : series[i] \in Patch
  BY <1>1
<1>. QED  BY <1>1, <1>2, SeriesAssumption DEF Patch

(* A number of the set that no other exceeds is its maximum.                *)
LEMMA MaxIs ==
    ASSUME NEW S \in SUBSET Int, NEW m \in S, \A n \in S : n <= m
    PROVE  Max(S) = m
<1>1. \A k \in S : (\A n \in S : k >= n) => k = m
  OBVIOUS
<1>. QED  BY <1>1 DEF Max

(* The next patch expects what the one before it left.                      *)
LEMMA BeforeNext ==
    ASSUME NEW i \in Nat \ {0}, NEW x
    PROVE  Before(i + 1, x) = After(i, x)
<1>1. (i + 1) - 1 = i
  OBVIOUS
<1>2. CASE x \in series[i].writes
  <2>. DEFINE S == {0} \union {j \in 1 .. i : x \in series[j].writes}
  <2>1. S \in SUBSET Int /\ i \in S /\ \A n \in S : n <= i
    BY <1>2
  <2>2. Max(S) = i
    BY <2>1, MaxIs
  <2>. QED  BY <1>1, <1>2, <2>2 DEF Before, After
<1>3. CASE x \notin series[i].writes
  <2>1. {j \in 1 .. i : x \in series[j].writes}
          = {j \in 1 .. i - 1 : x \in series[j].writes}
    BY <1>3
  <2>. QED  BY <1>1, <1>3, <2>1 DEF Before, After
<1>. QED  BY <1>2, <1>3

(* The first patch expects upstream's text.                                 *)
LEMMA BeforeFirst ==
    ASSUME NEW x
    PROVE  Before(1, x) = 0
<1>1. {j \in 1 .. 1 - 1 : x \in series[j].writes} = {}
  OBVIOUS
<1>2. Max({0} \union {}) = 0
  BY MaxIs
<1>. QED  BY <1>1, <1>2 DEF Before

(* A region whose author is below i, and that no patch below i has written  *)
(* since, holds what patch i expects.                                       *)
LEMMA BeforeIs ==
    ASSUME IInv, NEW i \in 1 .. Len(series) + 1, NEW x \in Regions,
           tree[x] < i,
           \A j \in 1 .. i - 1 : x \in series[j].writes => tree[x] >= j
    PROVE  Before(i, x) = tree[x]
<1>. DEFINE S == {0} \union {j \in 1 .. i - 1 : x \in series[j].writes}
<1>1. Len(series) \in Nat /\ tree[x] \in 0 .. Len(series)
  BY SeriesFacts DEF IInv, TypeOK
<1>2. tree[x] \in S
  BY <1>1 DEF IInv, Authored
<1>3. S \in SUBSET Int /\ \A n \in S : n <= tree[x]
  BY <1>1
<1>4. Max(S) = tree[x]
  BY <1>2, <1>3, MaxIs
<1>. QED  BY <1>4 DEF Before

-----------------------------------------------------------------------------
(* The upstream tree, before any build, satisfies the inductive invariant.  *)
LEMMA InitIInv == Init => IInv
<1>. SUFFICES ASSUME Init PROVE IInv
  OBVIOUS
<1>1. Len(series) \in Nat /\ MaxBuilds \in Nat
  BY SeriesFacts, SeriesAssumption DEF Init
<1>2. TypeOK
  <2>1. clean \in BOOLEAN /\ noBuildPatch \in BOOLEAN
    BY Zenon DEF Init
  <2>. QED  BY <1>1, <2>1 DEF Init, TypeOK, Upstream
<1>. QED
  BY <1>2 DEF Init, IInv, Upstream, Authored, Passed, Written, FreshTree,
              FreshBuildApplies, AtTheEnd

(* Every step of a build keeps it.                                          *)
LEMMA StepIInv == IInv /\ [Next]_vars => IInv'
<1>. SUFFICES ASSUME IInv, [Next]_vars PROVE IInv'
  OBVIOUS
<1>. USE DEF IInv
<1>0. /\ series' = series
      /\ Len(series) \in Nat /\ MaxBuilds \in Nat
      /\ \A i \in 1 .. Len(series) :
            series[i].writes \subseteq series[i].scope /\ series[i].scope \subseteq Regions
  <2>1. series' = series
    BY DEF Next, ApplySeries, CloneAndCheckout, SkipThirdParty, AlreadyApplied,
           Apply, Write, Applied, Conflict, InstallVllm, Fault, InstallFails, ApplyFails,
           Interrupt, vars
  <2>. QED  BY <2>1, SeriesFacts, SeriesAssumption DEF TypeOK
<1>1. CASE CloneAndCheckout
  <2>1. TypeOK'
    <3>1. noBuildPatch' \in BOOLEAN
      BY <1>1, Zenon DEF CloneAndCheckout, Begin
    <3>. QED  BY <1>0, <1>1, <3>1 DEF CloneAndCheckout, Begin, TypeOK, Upstream
  <2>2. Authored' /\ Passed'
    BY <1>0, <1>1 DEF CloneAndCheckout, Begin, Authored, Passed, Upstream
  <2>3. FreshTree'
    <3>1. \A x \in Regions : Before(1, x)' = 0
      BY <1>0, BeforeFirst DEF Before
    <3>. QED  BY <1>1, <3>1 DEF CloneAndCheckout, Begin, FreshTree, Upstream
  <2>. QED
    BY <1>1, <2>1, <2>2, <2>3
    DEF CloneAndCheckout, Begin, Written, FreshBuildApplies, AtTheEnd
<1>2. CASE SkipThirdParty
  <2>1. TypeOK'
    <3>1. clean' \in BOOLEAN /\ noBuildPatch' \in BOOLEAN
      BY <1>2, Zenon DEF SkipThirdParty, Begin
    <3>. QED  BY <1>0, <1>2, <3>1 DEF SkipThirdParty, Begin, TypeOK
  <2>. QED
    BY <1>0, <1>2, <2>1
    DEF SkipThirdParty, Begin, Authored, Passed, Written, FreshTree,
        FreshBuildApplies, AtTheEnd
<1>3. CASE AlreadyApplied
  <2>. USE <1>3 DEF AlreadyApplied, More
  <2>0. next \in 1 .. Len(series)
    BY <1>0 DEF TypeOK
  <2>1. TypeOK'
    BY <1>0, <2>0 DEF TypeOK
  <2>2. Passed'
    <3>1. \A x \in series[next].writes : tree[x] = next
      BY <1>0, <2>0 DEF Reverses, After
    <3>. QED  BY <1>0, <2>0, <3>1 DEF Passed
  <2>3. FreshTree'
    <3>. SUFFICES ASSUME clean, NEW x \in Regions
                  PROVE  tree[x] = Before(next + 1, x)
      BY <1>0, <2>0 DEF FreshTree, Before
    <3>1. tree[x] = Before(next, x)
      BY DEF FreshTree
    <3>2. x \in series[next].writes => tree[x] = After(next, x)
      BY <1>0, <2>0 DEF Reverses
    <3>. QED  BY <2>0, <3>1, <3>2, BeforeNext DEF After
  <2>. QED
    BY <1>0, <2>1, <2>2, <2>3 DEF Authored, Written, FreshBuildApplies, AtTheEnd
<1>4. CASE Apply
  <2>. USE <1>4 DEF Apply, More
  <2>1. TypeOK'
    BY <1>0 DEF TypeOK
  <2>2. FreshTree'
    BY <1>0 DEF FreshTree, Before
  <2>. QED
    BY <1>0, <2>1, <2>2 DEF Authored, Passed, Written, FreshBuildApplies, AtTheEnd
<1>5. CASE Write
  <2>. USE <1>5
  <2>0. PICK x \in unwritten : /\ tree' = [tree EXCEPT ![x] = next]
                               /\ unwritten' = unwritten \ {x}
    BY DEF Write
  <2>. USE <2>0
  <2>1. /\ build = "writing" /\ next \in 1 .. Len(series)
        /\ x \in series[next].writes /\ x \in Regions
        /\ tree \in [Regions -> 0 .. Len(series)]
        /\ UNCHANGED <<series, build, noBuildPatch, next, clean, builds>>
    BY <1>0 DEF Write, TypeOK
  <2>2. TypeOK'
    BY <1>0, <2>1 DEF TypeOK
  <2>3. Authored'
    BY <1>0, <2>1 DEF Authored
  <2>4. Passed'
    <3>. SUFFICES ASSUME NEW j \in 1 .. next - 1, NEW y \in series[j].writes
                  PROVE  tree'[y] >= j
      BY <2>1 DEF Passed
    <3>1. y \in Regions
      BY <1>0, <2>1
    <3>. QED  BY <2>1, <3>1 DEF Passed
  <2>5. Written'
    BY <1>0, <2>1 DEF Written
  <2>6. FreshTree'
    <3>1. \A y : Before(next, y)' = Before(next, y)
      BY <1>0, <2>1 DEF Before
    <3>2. ASSUME clean, NEW y \in Regions
          PROVE  tree'[y] = IF y \in series[next].writes \ unwritten'
                              THEN next ELSE Before(next, y)
      BY <1>0, <2>1, <3>2 DEF FreshTree
    <3>. QED  BY <1>0, <2>1, <3>1, <3>2 DEF FreshTree
  <2>. QED
    BY <2>1, <2>2, <2>3, <2>4, <2>5, <2>6 DEF FreshBuildApplies, AtTheEnd
<1>6. CASE Applied
  <2>. USE <1>6 DEF Applied
  <2>0. next \in 1 .. Len(series)
    BY <1>0 DEF TypeOK
  <2>1. TypeOK'
    BY <1>0, <2>0 DEF TypeOK
  <2>2. Passed'
    <3>1. \A x \in series[next].writes : tree[x] = next
      BY DEF Written
    <3>. QED  BY <1>0, <2>0, <3>1 DEF Passed
  <2>3. FreshTree'
    <3>. SUFFICES ASSUME clean, NEW x \in Regions
                  PROVE  tree[x] = Before(next + 1, x)
      BY <1>0, <2>0 DEF FreshTree, Before
    <3>. QED  BY <2>0, BeforeNext DEF FreshTree, After
  <2>. QED
    BY <1>0, <2>1, <2>2, <2>3 DEF Authored, Written, FreshBuildApplies, AtTheEnd
<1>7. CASE Conflict
  <2>. USE <1>7 DEF Conflict, More
  <2>1. TypeOK'
    BY <1>0 DEF TypeOK
  <2>2. FreshBuildApplies'
    <3>1. clean => Applies(next)
      BY <1>0 DEF FreshTree, Applies, TypeOK
    <3>. QED  BY <3>1 DEF FreshBuildApplies
  <2>. QED
    BY <1>0, <2>1, <2>2 DEF Authored, Passed, Written, FreshTree, AtTheEnd
<1>8. CASE InstallVllm
  <2>1. TypeOK'
    BY <1>0, <1>8 DEF InstallVllm, SeriesDone, TypeOK
  <2>. QED
    BY <1>0, <1>8, <2>1
    DEF InstallVllm, SeriesDone, Authored, Passed, Written, FreshTree,
        FreshBuildApplies, AtTheEnd
<1>9. CASE Fault
  <2>1. TypeOK'
    BY <1>0, <1>9 DEF Fault, InstallFails, ApplyFails, Interrupt, SeriesDone, TypeOK
  <2>. QED
    BY <1>0, <1>9, <2>1
    DEF Fault, InstallFails, ApplyFails, Interrupt, SeriesDone, Authored, Passed,
        Written, FreshTree, FreshBuildApplies, AtTheEnd
<1>10. CASE UNCHANGED vars
  BY <1>10
  DEF vars, TypeOK, Authored, Passed, Written, FreshTree, Before,
      FreshBuildApplies, AtTheEnd
<1>. QED
  BY <1>1, <1>2, <1>3, <1>4, <1>5, <1>6, <1>7, <1>8, <1>9, <1>10
  DEF Next, ApplySeries

(* The inductive invariant of repeated builds.                              *)
THEOREM Invariant == Spec => []IInv
<1>. QED  BY InitIInv, StepIInv, PTL DEF Spec

(* Every variable stays in its range.                                       *)
THEOREM TypeCorrect == Spec => []TypeOK
<1>1. IInv => TypeOK
  BY DEF IInv
<1>. QED  BY Invariant, <1>1, PTL

(* setup.py, not told by VLLM_MUSA_NO_BUILD_PATCH=1 to leave the tree       *)
(* alone, installs vLLM only from a tree with the whole series in it.       *)
THEOREM InstallsPatched == Spec => []InstalledIsPatched
<1>1. IInv => InstalledIsPatched
  <2>. SUFFICES ASSUME IInv, build = "installed", ~noBuildPatch PROVE tree = Patched
    BY DEF InstalledIsPatched
  <2>1. Len(series) \in Nat /\ next = Len(series) + 1 /\ tree \in [Regions -> 0 .. Len(series)]
    BY SeriesFacts DEF IInv, TypeOK, AtTheEnd
  <2>2. \A x \in Regions : tree[x] = Before(Len(series) + 1, x)
    <3>. TAKE x \in Regions
    <3>1. \A j \in 1 .. (Len(series) + 1) - 1 : x \in series[j].writes => tree[x] >= j
      BY <2>1 DEF IInv, Passed
    <3>2. tree[x] < Len(series) + 1 /\ Len(series) + 1 \in 1 .. Len(series) + 1
      BY <2>1
    <3>. QED  BY <3>1, <3>2, BeforeIs
  <2>. QED  BY <2>1, <2>2 DEF Patched
<1>. QED  BY Invariant, <1>1, PTL

(* A build that starts from a fresh checkout never fails on a conflict.     *)
THEOREM FreshApplies == Spec => []FreshBuildApplies
<1>1. IInv => FreshBuildApplies
  BY DEF IInv
<1>. QED  BY Invariant, <1>1, PTL

(* A build fails only because a later patch has changed what an earlier one *)
(* expects, or on the remains of a half-written patch: never without cause. *)
THEOREM ConflictExplained == Spec => []WhyConflict
<1>1. Init => WhyConflict
  BY DEF Init, WhyConflict
<1>2. IInv /\ WhyConflict /\ [Next]_vars => WhyConflict'
  <2>. SUFFICES ASSUME IInv, WhyConflict, [Next]_vars, build' = "failed"
                PROVE  WhyConflict'
    BY DEF WhyConflict
  <2>1. CASE Conflict
    <3>1. /\ next \in 1 .. Len(series) /\ ~Reverses(next) /\ ~Applies(next)
          /\ UNCHANGED <<series, tree, next>>
      BY <2>1, SeriesFacts DEF Conflict, More, IInv, TypeOK
    <3>2. /\ series[next].writes \subseteq series[next].scope
          /\ series[next].scope \subseteq Regions
          /\ tree \in [Regions -> 0 .. Len(series)] /\ Len(series) \in Nat
      BY <3>1, SeriesFacts DEF IInv, TypeOK
    <3>. SUFFICES ASSUME \A x \in series[next].scope : tree[x] <= next
                  PROVE  \E x, y \in series[next].writes : tree[x] = next /\ tree[y] < next
      BY <3>1, <3>2 DEF WhyConflict
    <3>3. \A x \in series[next].scope : tree[x] < next => Before(next, x) = tree[x]
      <4>. SUFFICES ASSUME NEW x \in series[next].scope, tree[x] < next
                    PROVE  Before(next, x) = tree[x]
        OBVIOUS
      <4>1. \A j \in 1 .. next - 1 : x \in series[j].writes => tree[x] >= j
        BY DEF IInv, Passed
      <4>. QED  BY <3>1, <3>2, <4>1, BeforeIs
    <3>4. PICK x \in series[next].scope : tree[x] # Before(next, x)
      BY <3>1 DEF Applies
    <3>5. tree[x] = next /\ x \in series[next].writes
      BY <3>1, <3>2, <3>3, <3>4 DEF IInv, Authored
    <3>6. PICK y \in series[next].scope : tree[y] # After(next, y)
      BY <3>1 DEF Reverses
    <3>7. tree[y] < next /\ y \in series[next].writes
      BY <3>1, <3>2, <3>3, <3>6 DEF After, IInv, Authored
    <3>. QED  BY <3>5, <3>7
  <2>2. CASE ~Conflict
    BY <2>2
    DEF Next, ApplySeries, CloneAndCheckout, SkipThirdParty, Begin, AlreadyApplied,
        Apply, Write, Applied, InstallVllm, Fault, InstallFails, ApplyFails, Interrupt,
        vars, WhyConflict, More
  <2>. QED  BY <2>1, <2>2
<1>. QED  BY <1>1, <1>2, Invariant, PTL DEF Spec
=============================================================================
