------------------------ MODULE CustomAllReduceProofs -----------------------
(* For any number of ranks, grid sizes, slots and sequence of launches: no  *)
(* rank is two launches ahead of another, no block accesses what another    *)
(* writes, and every result is the one that Collectives promises.           *)
EXTENDS CustomAllReduce, TLAPS

-----------------------------------------------------------------------------
(* The inductive invariant.  Barrier calls are counted from the start of a  *)
(* rank's current launch: what a rank made before depends on its position   *)
(* alone, and two ranks' positions differ by one launch at most.            *)

OneStageKinds == {"one_stage", "fused_one_stage"}

(* the barrier calls block b of rank r has made in its current launch *)
Made(r, b) ==
    IF Current(r).kind = "all_gather"
    THEN IF b # 0 THEN 0
         ELSE IF kernel[r] = 1 THEN IF block[r][b] > 0 THEN 1 ELSE 0
         ELSE IF kernel[r] = 2 THEN 1
         ELSE IF block[r][b] > 0 THEN 2 ELSE 1
    ELSE IF block[r][b] > 2 THEN 2
    ELSE IF block[r][b] > 0 THEN 1 ELSE 0

(* those of them on row b of slot s *)
MadeOn(r, s, b) ==
    IF stage[r] = "kernel" /\ Current(r).slot = s THEN Made(r, b) ELSE 0

(* the calls rank r made on the row in the launches it has completed *)
Before(r, s, b) == arrived[s][b][r] - MadeOn(r, s, b)

(* the calls launch l makes on row b of slot s *)
TotalOn(l, s, b) ==
    IF l.slot # s THEN 0
    ELSE IF l.kind = "all_gather" THEN IF b = 0 THEN 2 ELSE 0
    ELSE IF b < l.grid THEN 2 ELSE 0

(* whether block b of rank r is in a barrier call on the row *)
WaitsOn(r, s, b) ==
    IF InStep(r, b, "barrier") /\ Current(r).slot = s THEN 1 ELSE 0

Typing ==
    /\ program \in Programs
    /\ position \in [Ranks -> 1 .. Len(program) + 1]
    /\ stage \in [Ranks -> {"idle", "copy", "kernel"}]
    /\ kernel \in [Ranks -> 1 .. 3]
    /\ block \in [Ranks -> [Blocks -> 0 .. 5]]
    /\ staging \in [Slots -> [Ranks -> 0 .. Len(program)]]
    /\ arrived \in [Slots -> [Blocks -> [Ranks -> Nat]]]
    /\ left \in [Slots -> [Blocks -> [Ranks -> Nat]]]

(* A rank that is not idle has a launch; its blocks are in a kernel of it.  *)
Launched(r) ==
    /\ stage[r] # "idle" => position[r] <= Len(program)
    /\ stage[r] = "kernel" =>
          /\ kernel[r] <= Len(Kernels(Current(r)))
          /\ \A b \in Blocks :
                /\ b \notin GridOf(r) => block[r][b] = 0
                /\ block[r][b] <= Len(CurrentKernel(r).steps) + 1

(* A rank's calls are open while it waits.  None returned before every rank *)
(* made it.                                                                 *)
Returned(r) ==
    \A s \in Slots : \A b \in Blocks :
        /\ arrived[s][b][r] = left[s][b][r] + WaitsOn(r, s, b)
        /\ \A q \in Ranks : left[s][b][r] <= arrived[s][b][q]

(* What ranks made before their current launches.                           *)
InStepWith(r, q) ==
    \A s \in Slots : \A b \in Blocks :
        /\ position[r] = position[q] => Before(r, s, b) = Before(q, s, b)
        /\ position[r] = position[q] + 1 =>
              Before(r, s, b) = Before(q, s, b) + TotalOn(program[position[q]], s, b)

IInv ==
    /\ Typing
    /\ \A r \in Ranks : Launched(r)
    /\ \A r \in Ranks : Returned(r)
    /\ AtMostOneLaunchAhead
    /\ \A r, q \in Ranks : InStepWith(r, q)

-----------------------------------------------------------------------------
(* The kernels.                                                             *)

(* The steps of a kernel, and the blocks that do them.                      *)
Does(k, grid, steps) == k.grid = grid /\ k.steps = steps

StepsOf(l) ==
    IF l.kind \in OneStageKinds
    THEN <<"barrier", "reduce", "barrier">>
    ELSE <<"barrier", "reduce", "barrier", "gather">>

(* The kernels of a launch.                                                 *)
LEMMA KernelShapes ==
    ASSUME NEW l \in Launch
    PROVE  /\ l.kind = "all_gather" =>
                 /\ Len(Kernels(l)) = 3
                 /\ Does(Kernels(l)[1], 1, <<"barrier">>)
                 /\ Does(Kernels(l)[2], AllGatherGrid(l), <<"gather">>)
                 /\ Does(Kernels(l)[3], 1, <<"barrier">>)
           /\ l.kind # "all_gather" =>
                 /\ Len(Kernels(l)) = 1
                 /\ Does(Kernels(l)[1], l.grid, StepsOf(l))
<1>1. l.kind \in Kinds
  BY DEF Launch
<1>2. ASSUME NEW g, NEW s PROVE Does(Kernel(g, s), g, s)
  BY DEF Does, Kernel
<1>3. CASE l.kind = "all_gather"
  <2>1. Kernels(l) = AllGather(l)
    BY <1>3 DEF Kernels
  <2>2. /\ Len(AllGather(l)) = 3
        /\ AllGather(l)[1] = Kernel(1, <<"barrier">>)
        /\ AllGather(l)[2] = Kernel(AllGatherGrid(l), <<"gather">>)
        /\ AllGather(l)[3] = Kernel(1, <<"barrier">>)
    BY DEF AllGather
  <2>3. QED
    BY <1>2, <1>3, <2>1, <2>2
<1>4. CASE l.kind \in OneStageKinds
  <2>1. Kernels(l) = OneStage(l) /\ l.kind # "all_gather"
    BY <1>4 DEF Kernels, OneStageKinds
  <2>2. /\ Len(OneStage(l)) = 1
        /\ OneStage(l)[1] = Kernel(l.grid, <<"barrier", "reduce", "barrier">>)
    BY DEF OneStage
  <2>3. StepsOf(l) = <<"barrier", "reduce", "barrier">>
    BY <1>4 DEF StepsOf
  <2>4. QED
    BY <1>2, <2>1, <2>2, <2>3
<1>5. CASE l.kind \in {"two_stage", "two_shot", "fused_two_shot"}
  <2>1. Kernels(l) = TwoStep(l) /\ l.kind # "all_gather"
    BY <1>5 DEF Kernels
  <2>2. /\ Len(TwoStep(l)) = 1
        /\ TwoStep(l)[1] = Kernel(l.grid, <<"barrier", "reduce", "barrier", "gather">>)
    BY DEF TwoStep
  <2>3. StepsOf(l) = <<"barrier", "reduce", "barrier", "gather">>
    BY <1>5 DEF StepsOf, OneStageKinds
  <2>4. QED
    BY <1>2, <2>1, <2>2, <2>3
<1>6. QED
  BY <1>1, <1>3, <1>4, <1>5 DEF Kinds, FusedKinds, OneStageKinds

(* A rank at a launch: the kernel it is in, and its steps.                  *)
LEMMA CurrentFacts ==
    ASSUME Typing, NEW r \in Ranks, position[r] <= Len(program)
    PROVE  /\ Current(r) \in Launch
           /\ Current(r).grid \in Nat \ {0} /\ Current(r).grid <= MaxGrid
           /\ Current(r).slot \in Slots
<1>1. program \in Seq(Launch) /\ position[r] \in 1 .. Len(program) + 1
  BY ProgramsAssumption DEF Typing
<1>2. position[r] \in 1 .. Len(program)
  BY <1>1
<1>3. Current(r) \in Launch
  BY <1>1, <1>2 DEF Current
<1>4. MaxGrid \in Nat
  BY ProgramsAssumption
<1>5. QED
  BY <1>3, <1>4 DEF Launch

(* The kernel a rank is in.                                                 *)
LEMMA KernelFacts ==
    ASSUME Typing, NEW r \in Ranks, Launched(r), stage[r] = "kernel"
    PROVE  /\ position[r] <= Len(program)
           /\ Current(r).kind = "all_gather" =>
                 /\ Len(Kernels(Current(r))) = 3
                 /\ kernel[r] \in {1, 3} => Does(CurrentKernel(r), 1, <<"barrier">>)
                 /\ kernel[r] = 2 =>
                       Does(CurrentKernel(r), AllGatherGrid(Current(r)), <<"gather">>)
           /\ Current(r).kind # "all_gather" =>
                 /\ kernel[r] = 1 /\ Len(Kernels(Current(r))) = 1
                 /\ Does(CurrentKernel(r), Current(r).grid, StepsOf(Current(r)))
<1> DEFINE l == Current(r)
           k == kernel[r]
<1>1. /\ position[r] <= Len(program) /\ k <= Len(Kernels(l)) /\ k \in 1 .. 3
      /\ CurrentKernel(r) = Kernels(l)[k]
  BY DEF Launched, Typing, CurrentKernel
<1>2. l \in Launch
  BY <1>1, CurrentFacts
<1> HIDE DEF l, k
<1>3. CASE l.kind = "all_gather"
  <2>1. /\ Len(Kernels(l)) = 3
        /\ Does(Kernels(l)[1], 1, <<"barrier">>)
        /\ Does(Kernels(l)[2], AllGatherGrid(l), <<"gather">>)
        /\ Does(Kernels(l)[3], 1, <<"barrier">>)
    BY <1>2, <1>3, KernelShapes
  <2>2. QED
    BY <1>1, <1>3, <2>1 DEF l, k
<1>4. CASE l.kind # "all_gather"
  <2>1. Len(Kernels(l)) = 1 /\ Does(Kernels(l)[1], l.grid, StepsOf(l))
    BY <1>2, <1>4, KernelShapes
  <2>2. k = 1
    BY <1>1, <2>1
  <2>3. QED
    BY <1>1, <1>4, <2>1, <2>2 DEF l, k
<1>5. QED
  BY <1>3, <1>4 DEF l

(* Where a block is, by the number of its step.                             *)
LEMMA StepFacts ==
    ASSUME Typing, NEW r \in Ranks, Launched(r), stage[r] = "kernel", NEW b \in Blocks
    PROVE  /\ Current(r).kind = "all_gather" =>
                 /\ Len(CurrentKernel(r).steps) = 1
                 /\ kernel[r] # 2 => (b \in GridOf(r) <=> b = 0)
                 /\ InStep(r, b, "barrier") <=>
                       kernel[r] # 2 /\ b = 0 /\ block[r][b] = 1
                 /\ ~ InStep(r, b, "reduce")
                 /\ InStep(r, b, "gather") => kernel[r] = 2
           /\ Current(r).kind # "all_gather" =>
                 /\ Len(CurrentKernel(r).steps)
                       = IF Current(r).kind \in OneStageKinds THEN 3 ELSE 4
                 /\ b \in GridOf(r) <=> b < Current(r).grid
                 /\ InStep(r, b, "barrier") <=>
                       b < Current(r).grid /\ block[r][b] \in {1, 3}
                 /\ InStep(r, b, "reduce") <=>
                       b < Current(r).grid /\ block[r][b] = 2
                 /\ InStep(r, b, "gather") <=>
                       /\ b < Current(r).grid /\ block[r][b] = 4
                       /\ Current(r).kind \notin OneStageKinds
<1> DEFINE l == Current(r)
           k == CurrentKernel(r)
           j == block[r][b]
<1>1. /\ j \in Nat /\ b \in Nat
      /\ kernel[r] \in {1, 2, 3}
  <2>1. block[r][b] \in 0 .. 5 /\ kernel[r] \in 1 .. 3
    BY DEF Typing
  <2>2. b \in Nat
    BY ProgramsAssumption DEF Blocks
  <2>3. QED
    BY <2>1, <2>2
<1>2. /\ GridOf(r) = 0 .. k.grid - 1
      /\ \A name : InStep(r, b, name) <=>
            b \in GridOf(r) /\ j \in 1 .. Len(k.steps) /\ k.steps[j] = name
  BY DEF InStep, Running, GridOf
<1>3. l.grid \in Nat
  BY KernelFacts, CurrentFacts
<1>4. /\ l.kind = "all_gather" =>
            /\ kernel[r] \in {1, 3} => Does(k, 1, <<"barrier">>)
            /\ kernel[r] = 2 => Does(k, AllGatherGrid(l), <<"gather">>)
      /\ l.kind # "all_gather" => Does(k, l.grid, StepsOf(l))
  BY KernelFacts
<1> HIDE DEF l, k, j
<1>5. CASE l.kind = "all_gather" /\ kernel[r] # 2
  <2>1. k.grid = 1 /\ k.steps = <<"barrier">>
    BY <1>1, <1>4, <1>5 DEF Does
  <2>2. Len(k.steps) = 1 /\ k.steps[1] = "barrier"
    BY <2>1
  <2>3. GridOf(r) = {0}
    BY <1>2, <2>1
  <2>4. \A name : InStep(r, b, name) <=> b = 0 /\ j = 1 /\ "barrier" = name
    BY <1>1, <1>2, <2>2, <2>3
  <2>5. QED
    BY <1>5, <2>2, <2>3, <2>4 DEF l, k, j
<1>6. CASE l.kind = "all_gather" /\ kernel[r] = 2
  <2>1. k.steps = <<"gather">>
    BY <1>1, <1>4, <1>6 DEF Does
  <2>2. Len(k.steps) = 1 /\ k.steps[1] = "gather"
    BY <2>1
  <2>3. \A name : InStep(r, b, name) <=> b \in GridOf(r) /\ j = 1 /\ "gather" = name
    BY <1>1, <1>2, <2>2
  <2>4. QED
    BY <1>6, <2>2, <2>3 DEF l, k, j
<1>7. CASE l.kind # "all_gather"
  <2>1. k.grid = l.grid /\ k.steps = StepsOf(l)
    BY <1>4, <1>7 DEF Does
  <2>2. /\ Len(k.steps) = IF l.kind \in OneStageKinds THEN 3 ELSE 4
        /\ k.steps[1] = "barrier" /\ k.steps[2] = "reduce" /\ k.steps[3] = "barrier"
        /\ l.kind \notin OneStageKinds => k.steps[4] = "gather"
    BY <2>1 DEF StepsOf
  <2>3. b \in GridOf(r) <=> b < l.grid
    BY <1>1, <1>2, <1>3, <2>1
  <2>4. CASE l.kind \in OneStageKinds
    <3>1. Len(k.steps) = 3
      BY <2>2, <2>4
    <3>2. j \in 1 .. Len(k.steps) <=> j \in {1, 2, 3}
      BY <1>1, <3>1
    <3>3. QED
      BY <1>2, <1>7, <2>2, <2>3, <2>4, <3>1, <3>2 DEF l, k, j
  <2>5. CASE l.kind \notin OneStageKinds
    <3>1. Len(k.steps) = 4
      BY <2>2, <2>5
    <3>2. j \in 1 .. Len(k.steps) <=> j \in {1, 2, 3, 4}
      BY <1>1, <3>1
    <3>3. QED
      BY <1>2, <1>7, <2>2, <2>3, <2>5, <3>1, <3>2 DEF l, k, j
  <2>6. QED
    BY <2>4, <2>5
<1>8. QED
  BY <1>5, <1>6, <1>7 DEF l

-----------------------------------------------------------------------------
(* The steps of a block.                                                    *)

(* the block's next step is a barrier call *)
EntersBarrier(r, b) ==
    /\ block[r][b] + 1 <= Len(CurrentKernel(r).steps)
    /\ CurrentKernel(r).steps[block[r][b] + 1] = "barrier"

(* Whatever a block does, it goes on by one step, and the barrier calls of  *)
(* its row are what that says.                                              *)
LEMMA BlockStepFacts ==
    ASSUME IInv, NEW r \in Ranks, NEW b \in Blocks, BlockStep(r, b)
    PROVE  /\ stage[r] = "kernel" /\ b \in GridOf(r)
           /\ block[r][b] <= Len(CurrentKernel(r).steps)
           /\ block' = [block EXCEPT ![r][b] = block[r][b] + 1]
           /\ UNCHANGED <<program, position, stage, kernel, staging>>
           /\ arrived' = IF EntersBarrier(r, b)
                         THEN [arrived EXCEPT ![Current(r).slot][b][r] = @ + 1]
                         ELSE arrived
           /\ left' = IF InStep(r, b, "barrier")
                      THEN [left EXCEPT ![Current(r).slot][b][r] = @ + 1]
                      ELSE left
           /\ InStep(r, b, "barrier") =>
                 \A q \in Ranks : arrived[Current(r).slot][b][q]
                                     >= arrived[Current(r).slot][b][r]
<1>1. ASSUME Advance(r, b)
      PROVE  /\ block' = [block EXCEPT ![r][b] = block[r][b] + 1]
             /\ arrived' = IF EntersBarrier(r, b)
                           THEN [arrived EXCEPT ![Current(r).slot][b][r] = @ + 1]
                           ELSE arrived
  BY <1>1 DEF Advance, EntersBarrier
<1>2. CASE Dispatch(r, b)
  <2>1. block[r][b] = 0 /\ ~ InStep(r, b, "barrier")
    BY <1>2 DEF Dispatch, InStep, Running
  <2>2. Len(CurrentKernel(r).steps) >= 0
    <3>1. stage[r] = "kernel" /\ Typing /\ Launched(r)
      BY <1>2 DEF Dispatch, IInv
    <3>2. Len(CurrentKernel(r).steps) \in {1, 3, 4}
      BY <3>1, StepFacts
    <3>3. QED
      BY <3>2
  <2>3. QED
    BY <1>1, <1>2, <2>1, <2>2 DEF Dispatch
<1>3. CASE LeaveBarrier(r, b)
  <2>1. /\ InStep(r, b, "barrier")
        /\ \A q \in Ranks : arrived[Current(r).slot][b][q]
                               >= arrived[Current(r).slot][b][r]
    BY <1>3 DEF LeaveBarrier, Row!CanLeave
  <2>2. QED
    BY <1>1, <1>3, <2>1 DEF LeaveBarrier, InStep, Running
<1>4. CASE FinishReduce(r, b)
  BY <1>1, <1>4 DEF FinishReduce, InStep, Running
<1>5. CASE FinishGather(r, b)
  BY <1>1, <1>5 DEF FinishGather, InStep, Running
<1>6. QED
  BY <1>2, <1>3, <1>4, <1>5 DEF BlockStep

(* Which steps are barrier calls.                                           *)
LEMMA EntersFacts ==
    ASSUME Typing, NEW r \in Ranks, Launched(r), stage[r] = "kernel", NEW b \in Blocks
    PROVE  /\ Current(r).kind = "all_gather" =>
                 (EntersBarrier(r, b) <=> kernel[r] # 2 /\ block[r][b] = 0)
           /\ Current(r).kind # "all_gather" =>
                 (EntersBarrier(r, b) <=> block[r][b] \in {0, 2})
<1> DEFINE l == Current(r)
           k == CurrentKernel(r)
           j == block[r][b]
<1>1. j \in 0 .. 5 /\ kernel[r] \in 1 .. 3
  BY DEF Typing
<1>2. j \in Nat /\ kernel[r] \in {1, 2, 3}
  BY <1>1
<1>3. /\ l.kind = "all_gather" =>
            /\ kernel[r] \in {1, 3} => Does(k, 1, <<"barrier">>)
            /\ kernel[r] = 2 => Does(k, AllGatherGrid(l), <<"gather">>)
      /\ l.kind # "all_gather" => Does(k, l.grid, StepsOf(l))
  BY KernelFacts
<1>4. EntersBarrier(r, b) <=> j + 1 <= Len(k.steps) /\ k.steps[j + 1] = "barrier"
  BY DEF EntersBarrier
<1> HIDE DEF l, k, j
<1>5. CASE l.kind = "all_gather" /\ kernel[r] # 2
  <2>1. Len(k.steps) = 1 /\ k.steps[1] = "barrier"
    BY <1>2, <1>3, <1>5 DEF Does
  <2>2. EntersBarrier(r, b) <=> j = 0
    BY <1>2, <1>4, <2>1
  <2>3. QED
    BY <1>5, <2>2 DEF l, j
<1>6. CASE l.kind = "all_gather" /\ kernel[r] = 2
  <2>1. Len(k.steps) = 1 /\ k.steps[1] = "gather"
    BY <1>3, <1>6 DEF Does
  <2>2. ~ EntersBarrier(r, b)
    BY <1>2, <1>4, <2>1
  <2>3. QED
    BY <1>6, <2>2 DEF l
<1>7. CASE l.kind # "all_gather"
  <2>1. /\ Len(k.steps) = 3 \/ (Len(k.steps) = 4 /\ k.steps[4] = "gather")
        /\ k.steps[1] = "barrier" /\ k.steps[2] = "reduce" /\ k.steps[3] = "barrier"
    <3>1. k.steps = StepsOf(l)
      BY <1>3, <1>7 DEF Does
    <3>2. CASE l.kind \in OneStageKinds
      <4>1. k.steps = <<"barrier", "reduce", "barrier">>
        BY <3>1, <3>2 DEF StepsOf
      <4>2. Len(k.steps) = 3
        BY <4>1
      <4>3. k.steps[1] = "barrier" /\ k.steps[2] = "reduce" /\ k.steps[3] = "barrier"
        BY <4>1
      <4>4. QED
        BY <4>2, <4>3
    <3>3. CASE l.kind \notin OneStageKinds
      <4>1. k.steps = <<"barrier", "reduce", "barrier", "gather">>
        BY <3>1, <3>3 DEF StepsOf
      <4>2. QED
        BY <4>1
    <3>4. QED
      BY <3>2, <3>3
  <2>2. EntersBarrier(r, b) <=> j = 0 \/ j = 2
    BY <1>2, <1>4, <2>1
  <2>3. QED
    BY <1>7, <2>2 DEF l, j
<1>8. QED
  BY <1>5, <1>6, <1>7 DEF l

(* The next step is a barrier call just when the block makes one more.      *)
LEMMA MadeGrows ==
    ASSUME Typing, NEW r \in Ranks, Launched(r),
           stage[r] = "kernel", NEW b \in Blocks, b \in GridOf(r),
           block[r][b] <= Len(CurrentKernel(r).steps),
           block' = [block EXCEPT ![r][b] = block[r][b] + 1],
           UNCHANGED <<program, position, stage, kernel>>
    PROVE  /\ EntersBarrier(r, b) <=> InStep(r, b, "barrier")'
           /\ Made(r, b)' = Made(r, b) + IF EntersBarrier(r, b) THEN 1 ELSE 0
           /\ block'[r][b] \in 1 .. 5
           /\ block'[r][b] <= Len(CurrentKernel(r).steps) + 1
<1>1. block[r][b] \in 0 .. 5 /\ kernel[r] \in 1 .. 3 /\ block'[r][b] = block[r][b] + 1
  BY DEF Typing
<1>2. block[r][b] \in Nat /\ kernel[r] \in {1, 2, 3}
  BY <1>1
<1>3. /\ Current(r)' = Current(r) /\ CurrentKernel(r)' = CurrentKernel(r)
      /\ GridOf(r)' = GridOf(r) /\ stage'[r] = "kernel" /\ kernel'[r] = kernel[r]
  BY DEF Current, CurrentKernel, GridOf
<1>4. Len(CurrentKernel(r).steps) \in {1, 3, 4}
  BY StepFacts
<1>5. EntersBarrier(r, b) <=> InStep(r, b, "barrier")'
  <2>1. block[r][b] + 1 \in 1 .. Len(CurrentKernel(r).steps)
            <=> block[r][b] + 1 <= Len(CurrentKernel(r).steps)
    BY <1>2, <1>4
  <2>2. QED
    BY <1>1, <1>3, <2>1 DEF EntersBarrier, InStep, Running
<1>6. ASSUME Current(r).kind = "all_gather"
      PROVE  Made(r, b)' = Made(r, b) + IF EntersBarrier(r, b) THEN 1 ELSE 0
  <2>1. EntersBarrier(r, b) <=> kernel[r] # 2 /\ block[r][b] = 0
    BY <1>6, EntersFacts
  <2>2. block[r][b] <= 1 /\ (kernel[r] # 2 => b = 0)
    BY <1>6, StepFacts
  <2>3. CASE kernel[r] = 2
    <3>1. ~ EntersBarrier(r, b)
      BY <2>1, <2>3
    <3>2. /\ Made(r, b) = IF b # 0 THEN 0 ELSE 1
          /\ Made(r, b)' = IF b # 0 THEN 0 ELSE 1
      BY <1>3, <1>6, <2>3 DEF Made
    <3>3. QED
      BY <3>1, <3>2
  <2>4. CASE kernel[r] # 2
    <3>1. b = 0 /\ block[r][b] \in {0, 1} /\ block'[r][b] > 0
      BY <1>1, <1>2, <2>2, <2>4
    <3>2. Made(r, b)' = IF kernel[r] = 1 THEN 1 ELSE 2
      BY <1>2, <1>3, <1>6, <2>4, <3>1 DEF Made
    <3>3. CASE block[r][b] = 0
      <4>1. EntersBarrier(r, b) /\ ~ (block[r][b] > 0)
        BY <2>1, <2>4, <3>3
      <4>2. Made(r, b) = IF kernel[r] = 1 THEN 0 ELSE 1
        BY <1>6, <2>4, <3>1, <4>1 DEF Made
      <4>3. QED
        BY <3>2, <4>1, <4>2
    <3>4. CASE block[r][b] = 1
      <4>1. ~ EntersBarrier(r, b) /\ block[r][b] > 0
        BY <2>1, <2>4, <3>4
      <4>2. Made(r, b) = IF kernel[r] = 1 THEN 1 ELSE 2
        BY <1>6, <2>4, <3>1, <4>1 DEF Made
      <4>3. QED
        BY <3>2, <4>1, <4>2
    <3>5. QED
      BY <3>1, <3>3, <3>4
  <2>5. QED
    BY <2>3, <2>4
<1>7. ASSUME Current(r).kind # "all_gather"
      PROVE  Made(r, b)' = Made(r, b) + IF EntersBarrier(r, b) THEN 1 ELSE 0
  <2>1. EntersBarrier(r, b) <=> block[r][b] \in {0, 2}
    BY <1>7, EntersFacts
  <2>2. Made(r, b) = IF block[r][b] > 2 THEN 2 ELSE IF block[r][b] > 0 THEN 1 ELSE 0
    BY <1>7 DEF Made
  <2>3. Made(r, b)' = IF block'[r][b] > 2 THEN 2 ELSE IF block'[r][b] > 0 THEN 1 ELSE 0
    BY <1>3, <1>7 DEF Made
  <2>4. CASE block[r][b] = 0
    BY <1>1, <2>1, <2>2, <2>3, <2>4
  <2>5. CASE block[r][b] = 2
    BY <1>1, <2>1, <2>2, <2>3, <2>5
  <2>6. CASE block[r][b] = 1
    BY <1>1, <2>1, <2>2, <2>3, <2>6
  <2>7. CASE block[r][b] > 2
    <3>1. ~ EntersBarrier(r, b)
      BY <2>1, <2>7
    <3>2. Made(r, b) = 2 /\ Made(r, b)' = 2
      BY <1>1, <1>2, <2>2, <2>3, <2>7
    <3>3. QED
      BY <3>1, <3>2
  <2>8. block[r][b] = 0 \/ block[r][b] = 1 \/ block[r][b] = 2 \/ block[r][b] > 2
    BY <1>2
  <2>9. QED
    BY <2>4, <2>5, <2>6, <2>7, <2>8
<1>8. block'[r][b] \in 1 .. 5 /\ block'[r][b] <= Len(CurrentKernel(r).steps) + 1
  <2> DEFINE n == Len(CurrentKernel(r).steps)
  <2>1. n \in {1, 3, 4} /\ block[r][b] <= n
    BY <1>4
  <2> HIDE DEF n
  <2>2. block'[r][b] \in 1 .. 5 /\ block'[r][b] <= n + 1
    BY <1>1, <1>2, <2>1
  <2>3. QED
    BY <2>2 DEF n
<1>9. QED
  BY <1>5, <1>6, <1>7, <1>8

(* A row's count is one higher for one rank.                                *)
LEMMA CountUpdate ==
    ASSUME NEW f \in [Slots -> [Blocks -> [Ranks -> Nat]]], NEW g,
           NEW slot \in Slots, NEW b \in Blocks, NEW r \in Ranks,
           g = [f EXCEPT ![slot][b][r] = @ + 1]
    PROVE  /\ g \in [Slots -> [Blocks -> [Ranks -> Nat]]]
           /\ \A s \in Slots, c \in Blocks, q \in Ranks :
                 ~ (s = slot /\ c = b /\ q = r) => g[s][c][q] = f[s][c][q]
           /\ g[slot][b][r] = f[slot][b][r] + 1
<1>1. \A s \in Slots, c \in Blocks, q \in Ranks : f[s][c][q] \in Nat
  OBVIOUS
<1> DEFINE row == [f[slot][b] EXCEPT ![r] = f[slot][b][r] + 1]
           rows == [f[slot] EXCEPT ![b] = row]
<1>2. /\ row \in [Ranks -> Nat] /\ row[r] = f[slot][b][r] + 1
      /\ \A q \in Ranks : q # r => row[q] = f[slot][b][q]
  BY <1>1
<1>3. g = [f EXCEPT ![slot] = rows]
  OBVIOUS
<1> HIDE DEF row
<1>4. /\ rows \in [Blocks -> [Ranks -> Nat]] /\ rows[b] = row
      /\ \A c \in Blocks : c # b => rows[c] = f[slot][c]
  BY <1>2
<1> HIDE DEF rows
<1>5. /\ g \in [Slots -> [Blocks -> [Ranks -> Nat]]] /\ g[slot] = rows
      /\ \A s \in Slots : s # slot => g[s] = f[s]
  BY <1>3, <1>4
<1>6. QED
  BY <1>1, <1>2, <1>4, <1>5

(* What a block's step leaves of the counts, everywhere.                    *)
LEMMA BlockStepCounts ==
    ASSUME IInv, NEW r \in Ranks, NEW b \in Blocks, BlockStep(r, b)
    PROVE  /\ Typing'
           /\ \A q \in Ranks : Launched(q)'
           /\ \A q \in Ranks, s \in Slots, c \in Blocks :
                 /\ Before(q, s, c)' = Before(q, s, c)
                 /\ arrived'[s][c][q] >= arrived[s][c][q]
                 /\ arrived'[s][c][q] = left'[s][c][q] + WaitsOn(q, s, c)'
                 /\ \/ left'[s][c][q] = left[s][c][q]
                    \/ /\ left'[s][c][q] = arrived[s][c][q]
                       /\ \A p \in Ranks : arrived[s][c][p] >= arrived[s][c][q]
<1> DEFINE slot == Current(r).slot
           n == IF EntersBarrier(r, b) THEN 1 ELSE 0
           w == IF InStep(r, b, "barrier") THEN 1 ELSE 0
<1>1. /\ stage[r] = "kernel" /\ b \in GridOf(r)
      /\ block[r][b] <= Len(CurrentKernel(r).steps)
      /\ block' = [block EXCEPT ![r][b] = block[r][b] + 1]
      /\ UNCHANGED <<program, position, stage, kernel, staging>>
      /\ arrived' = IF EntersBarrier(r, b)
                    THEN [arrived EXCEPT ![slot][b][r] = @ + 1] ELSE arrived
      /\ left' = IF InStep(r, b, "barrier")
                 THEN [left EXCEPT ![slot][b][r] = @ + 1] ELSE left
      /\ InStep(r, b, "barrier") =>
            \A q \in Ranks : arrived[slot][b][q] >= arrived[slot][b][r]
  BY BlockStepFacts
<1>2. Typing /\ Launched(r) /\ Returned(r)
  BY DEF IInv
<1>3. /\ EntersBarrier(r, b) <=> InStep(r, b, "barrier")'
      /\ Made(r, b)' = Made(r, b) + n
      /\ block'[r][b] \in 1 .. 5
      /\ block'[r][b] <= Len(CurrentKernel(r).steps) + 1
  BY <1>1, <1>2, MadeGrows
<1>4. slot \in Slots
  BY <1>1, <1>2, KernelFacts, CurrentFacts
<1>5. /\ \A q \in Ranks : /\ Current(q)' = Current(q) /\ GridOf(q)' = GridOf(q)
                          /\ CurrentKernel(q)' = CurrentKernel(q)
      /\ \A q \in Ranks, c \in Blocks : <<q, c>> # <<r, b>> => block'[q][c] = block[q][c]
  BY <1>1, <1>2 DEF Current, CurrentKernel, GridOf, Typing
<1>6. \A q \in Ranks, c \in Blocks : <<q, c>> # <<r, b>> =>
          /\ Made(q, c)' = Made(q, c)
          /\ InStep(q, c, "barrier")' <=> InStep(q, c, "barrier")
  BY <1>1, <1>5 DEF Made, InStep, Running
<1>7. /\ arrived' \in [Slots -> [Blocks -> [Ranks -> Nat]]]
      /\ \A q \in Ranks, s \in Slots, c \in Blocks :
            /\ arrived[s][c][q] \in Nat
            /\ arrived'[s][c][q] = IF s = slot /\ c = b /\ q = r
                                   THEN arrived[s][c][q] + n ELSE arrived[s][c][q]
  <2>1. arrived \in [Slots -> [Blocks -> [Ranks -> Nat]]]
    BY <1>2 DEF Typing
  <2> HIDE DEF slot
  <2>2. CASE EntersBarrier(r, b)
    <3>1. arrived' = [arrived EXCEPT ![slot][b][r] = @ + 1] /\ n = 1
      BY <1>1, <2>2
    <3> HIDE DEF n
    <3>2. QED
      BY <1>4, <2>1, <3>1, CountUpdate
  <2>3. CASE ~ EntersBarrier(r, b)
    <3>1. arrived' = arrived /\ n = 0
      BY <1>1, <2>3
    <3> HIDE DEF n
    <3>2. QED
      BY <2>1, <3>1
  <2>4. QED
    BY <2>2, <2>3
<1>8. /\ left' \in [Slots -> [Blocks -> [Ranks -> Nat]]]
      /\ \A q \in Ranks, s \in Slots, c \in Blocks :
            /\ left[s][c][q] \in Nat
            /\ left'[s][c][q] = IF s = slot /\ c = b /\ q = r
                                THEN left[s][c][q] + w ELSE left[s][c][q]
  <2>1. left \in [Slots -> [Blocks -> [Ranks -> Nat]]]
    BY <1>2 DEF Typing
  <2> HIDE DEF slot
  <2>2. CASE InStep(r, b, "barrier")
    <3>1. left' = [left EXCEPT ![slot][b][r] = @ + 1] /\ w = 1
      BY <1>1, <2>2
    <3> HIDE DEF w
    <3>2. QED
      BY <1>4, <2>1, <3>1, CountUpdate
  <2>3. CASE ~ InStep(r, b, "barrier")
    <3>1. left' = left /\ w = 0
      BY <1>1, <2>3
    <3> HIDE DEF w
    <3>2. QED
      BY <2>1, <3>1
  <2>4. QED
    BY <2>2, <2>3
<1>9. Typing'
  <2>1. block' \in [Ranks -> [Blocks -> 0 .. 5]]
    <3>1. block \in [Ranks -> [Blocks -> 0 .. 5]]
      BY <1>2 DEF Typing
    <3>2. block'[r][b] = block[r][b] + 1
      BY <1>1, <3>1
    <3>3. block[r][b] + 1 \in 0 .. 5
      BY <1>3, <3>2
    <3>4. block' = [block EXCEPT ![r] = [block[r] EXCEPT ![b] = block[r][b] + 1]]
      BY <1>1
    <3>5. [block[r] EXCEPT ![b] = block[r][b] + 1] \in [Blocks -> 0 .. 5]
      BY <3>1, <3>3
    <3>6. QED
      BY <3>1, <3>4, <3>5
  <2>2. QED
    BY <1>1, <1>2, <1>7, <1>8, <2>1 DEF Typing
<1>10. ASSUME NEW q \in Ranks PROVE Launched(q)'
  BY <1>1, <1>3, <1>5 DEF IInv, Launched
<1>11. n \in {0, 1} /\ w \in {0, 1}
  OBVIOUS
<1> HIDE DEF slot, n, w
<1>12. ASSUME NEW q \in Ranks, NEW s \in Slots, NEW c \in Blocks,
              ~ (s = slot /\ c = b /\ q = r)
       PROVE  /\ MadeOn(q, s, c)' = MadeOn(q, s, c)
              /\ WaitsOn(q, s, c)' = WaitsOn(q, s, c)
  BY <1>1, <1>5, <1>6, <1>12 DEF MadeOn, WaitsOn, slot
<1>13. ASSUME NEW s \in Slots, s = slot
       PROVE  /\ MadeOn(r, s, b)' = MadeOn(r, s, b) + n
              /\ WaitsOn(r, s, b)' = n
              /\ WaitsOn(r, s, b) = w
  BY <1>1, <1>3, <1>5, <1>13 DEF MadeOn, WaitsOn, slot, n, w
<1>14. \A s \in Slots : MadeOn(r, s, b) \in {0, 1, 2}
  BY DEF MadeOn, Made
<1>15. ASSUME NEW q \in Ranks, NEW s \in Slots, NEW c \in Blocks
       PROVE  /\ Before(q, s, c)' = Before(q, s, c)
              /\ arrived'[s][c][q] >= arrived[s][c][q]
              /\ arrived'[s][c][q] = left'[s][c][q] + WaitsOn(q, s, c)'
              /\ \/ left'[s][c][q] = left[s][c][q]
                 \/ /\ left'[s][c][q] = arrived[s][c][q]
                    /\ \A p \in Ranks : arrived[s][c][p] >= arrived[s][c][q]
  <2>1. arrived[s][c][q] = left[s][c][q] + WaitsOn(q, s, c)
    BY DEF IInv, Returned
  <2>2. arrived[s][c][q] \in Nat /\ left[s][c][q] \in Nat
    BY <1>7, <1>8
  <2>3. CASE ~ (s = slot /\ c = b /\ q = r)
    <3>1. /\ arrived'[s][c][q] = arrived[s][c][q] /\ left'[s][c][q] = left[s][c][q]
          /\ MadeOn(q, s, c)' = MadeOn(q, s, c) /\ WaitsOn(q, s, c)' = WaitsOn(q, s, c)
      BY <1>7, <1>8, <1>12, <2>3
    <3>2. Before(q, s, c)' = Before(q, s, c)
      BY <3>1 DEF Before
    <3>3. QED
      BY <2>1, <2>2, <3>1, <3>2
  <2>4. CASE s = slot /\ c = b /\ q = r
    <3>1. /\ arrived'[s][c][q] = arrived[s][c][q] + n
          /\ left'[s][c][q] = left[s][c][q] + w
          /\ MadeOn(q, s, c)' = MadeOn(q, s, c) + n
          /\ WaitsOn(q, s, c)' = n
          /\ arrived[s][c][q] = left[s][c][q] + w
          /\ MadeOn(q, s, c) \in {0, 1, 2}
      BY <1>7, <1>8, <1>13, <1>14, <2>1, <2>4
    <3>2. Before(q, s, c)' = Before(q, s, c)
      BY <1>11, <2>2, <3>1 DEF Before
    <3>3. w = 1 => \A p \in Ranks : arrived[s][c][p] >= arrived[s][c][q]
      BY <1>1, <2>4 DEF w, slot
    <3>4. QED
      BY <1>11, <2>2, <3>1, <3>2, <3>3
  <2>5. QED
    BY <2>3, <2>4
<1>16. QED
  BY <1>9, <1>10, <1>15

-----------------------------------------------------------------------------
(* The steps of a stream.                                                   *)

(* A step that completes no launch, and whose barrier calls are counted,    *)
(* keeps the invariant.                                                     *)
LEMMA SameLaunches ==
    ASSUME IInv, Typing', \A q \in Ranks : Launched(q)',
           UNCHANGED <<program, position>>,
           \A q \in Ranks, s \in Slots, c \in Blocks :
                 /\ Before(q, s, c)' = Before(q, s, c)
                 /\ arrived'[s][c][q] >= arrived[s][c][q]
                 /\ arrived'[s][c][q] = left'[s][c][q] + WaitsOn(q, s, c)'
                 /\ \/ left'[s][c][q] = left[s][c][q]
                    \/ /\ left'[s][c][q] = arrived[s][c][q]
                       /\ \A p \in Ranks : arrived[s][c][p] >= arrived[s][c][q]
    PROVE  IInv'
<1>1. ASSUME NEW q \in Ranks PROVE Returned(q)'
  <2> SUFFICES ASSUME NEW s \in Slots, NEW c \in Blocks, NEW p \in Ranks
               PROVE  left'[s][c][q] <= arrived'[s][c][p]
    BY DEF Returned
  <2>1. /\ arrived[s][c][p] \in Nat /\ arrived[s][c][q] \in Nat
        /\ arrived'[s][c][p] \in Nat /\ left[s][c][q] \in Nat
    BY DEF IInv, Typing
  <2>2. arrived'[s][c][p] >= arrived[s][c][p]
    OBVIOUS
  <2>3. left[s][c][q] <= arrived[s][c][p]
    BY DEF IInv, Returned
  <2>4. left'[s][c][q] <= arrived[s][c][p]
    BY <2>1, <2>3
  <2>5. left'[s][c][q] \in Nat
    BY DEF Typing
  <2>6. QED
    BY <2>1, <2>2, <2>4, <2>5
<1>2. AtMostOneLaunchAhead'
  BY DEF IInv, AtMostOneLaunchAhead
<1>3. ASSUME NEW q \in Ranks, NEW p \in Ranks PROVE InStepWith(q, p)'
  BY DEF IInv, InStepWith
<1>4. QED
  BY <1>1, <1>2, <1>3 DEF IInv

(* A step of a stream concerns its own rank.                                *)
LEMMA OthersSame ==
    ASSUME IInv, NEW r \in Ranks, UNCHANGED <<program, arrived, left>>,
           \A q \in Ranks \ {r} : /\ position'[q] = position[q] /\ stage'[q] = stage[q]
                                  /\ kernel'[q] = kernel[q] /\ block'[q] = block[q],
           NEW q \in Ranks \ {r}
    PROVE  /\ Launched(q)'
           /\ \A s \in Slots, c \in Blocks :
                 /\ Before(q, s, c)' = Before(q, s, c)
                 /\ WaitsOn(q, s, c)' = WaitsOn(q, s, c)
<1>1. /\ Current(q)' = Current(q) /\ CurrentKernel(q)' = CurrentKernel(q)
      /\ GridOf(q)' = GridOf(q)
  BY DEF Current, CurrentKernel, GridOf
<1>2. Launched(q)'
  BY <1>1 DEF IInv, Launched
<1>3. \A s \in Slots, c \in Blocks : MadeOn(q, s, c)' = MadeOn(q, s, c)
  BY <1>1 DEF MadeOn, Made
<1>4. \A s \in Slots, c \in Blocks : WaitsOn(q, s, c)' = WaitsOn(q, s, c)
  BY <1>1 DEF WaitsOn, InStep, Running
<1>5. QED
  BY <1>2, <1>3, <1>4 DEF Before

(* A stream's step within a launch: what it made there is what it had made. *)
LEMMA StreamStepWithin ==
    ASSUME IInv, Typing', NEW r \in Ranks, UNCHANGED <<program, position, arrived, left>>,
           \A q \in Ranks \ {r} : /\ stage'[q] = stage[q]
                                  /\ kernel'[q] = kernel[q] /\ block'[q] = block[q],
           Launched(r)',
           \A s \in Slots, c \in Blocks :
              /\ MadeOn(r, s, c)' = MadeOn(r, s, c)
              /\ WaitsOn(r, s, c)' = WaitsOn(r, s, c)
    PROVE  IInv'
<1>1. \A q \in Ranks : Launched(q)'
  BY OthersSame
<1>2. \A q \in Ranks, s \in Slots, c \in Blocks :
          Before(q, s, c)' = Before(q, s, c) /\ WaitsOn(q, s, c)' = WaitsOn(q, s, c)
  BY OthersSame DEF Before
<1>3. \A q \in Ranks, s \in Slots, c \in Blocks :
          /\ arrived[s][c][q] \in Nat
          /\ arrived[s][c][q] = left[s][c][q] + WaitsOn(q, s, c)
  BY DEF IInv, Typing, Returned
<1>4. QED
  BY <1>1, <1>2, <1>3, SameLaunches

(* The copy begins: the rank has a launch, and has called nothing in it.    *)
LEMMA BeginCopyCorrect ==
    ASSUME IInv, NEW r \in Ranks, BeginCopy(r) PROVE IInv'
<1>1. /\ stage[r] = "idle" /\ position[r] <= Len(program)
      /\ stage' = [stage EXCEPT ![r] = "copy"]
      /\ UNCHANGED <<program, position, kernel, block, arrived, left, staging>>
  BY DEF BeginCopy
<1>2. stage'[r] = "copy" /\ Typing'
  BY <1>1 DEF IInv, Typing
<1>3. Launched(r)'
  BY <1>1, <1>2 DEF Launched
<1>4. \A s \in Slots, c \in Blocks :
          MadeOn(r, s, c) = 0 /\ MadeOn(r, s, c)' = 0
  BY <1>1, <1>2 DEF MadeOn
<1>5. \A s \in Slots, c \in Blocks :
          WaitsOn(r, s, c) = 0 /\ WaitsOn(r, s, c)' = 0
  BY <1>1, <1>2 DEF WaitsOn, InStep, Running
<1>6. QED
  BY <1>1, <1>2, <1>3, <1>4, <1>5, StreamStepWithin

(* The first kernel begins, with no block dispatched.                       *)
LEMMA EndCopyCorrect ==
    ASSUME IInv, NEW r \in Ranks, EndCopy(r) PROVE IInv'
<1>1. /\ stage[r] = "copy"
      /\ staging' = [staging EXCEPT ![Current(r).slot][r] = position[r]]
      /\ stage' = [stage EXCEPT ![r] = "kernel"]
      /\ kernel' = [kernel EXCEPT ![r] = 1]
      /\ block' = [block EXCEPT ![r] = [b \in Blocks |-> 0]]
      /\ UNCHANGED <<program, position, arrived, left>>
  BY DEF EndCopy
<1>2. Typing /\ position[r] <= Len(program) /\ position[r] \in 1 .. Len(program) + 1
  BY <1>1 DEF IInv, Launched, Typing
<1>3. /\ stage'[r] = "kernel" /\ kernel'[r] = 1
      /\ \A b \in Blocks : block'[r][b] = 0
  BY <1>1, <1>2 DEF Typing
<1>4. Current(r) \in Launch /\ Current(r)' = Current(r) /\ Current(r).slot \in Slots
  BY <1>1, <1>2, CurrentFacts DEF Current
<1>5. Typing'
  <2>1. position[r] \in 0 .. Len(program)
    <3>1. Len(program) \in Nat
      BY <1>2, ProgramsAssumption DEF Typing
    <3>2. QED
      BY <1>2, <3>1
  <2>2. staging' \in [Slots -> [Ranks -> 0 .. Len(program)]]
    BY <1>1, <1>2, <1>4, <2>1 DEF Typing
  <2>3. QED
    BY <1>1, <1>2, <2>2 DEF Typing
<1>6. Launched(r)'
  <2>1. Len(Kernels(Current(r))) \in {1, 3}
    BY <1>4, KernelShapes
  <2>2. /\ CurrentKernel(r)' = Kernels(Current(r))[1]
        /\ Len(Kernels(Current(r))[1].steps) \in {1, 3, 4}
    <3>1. CurrentKernel(r)' = Kernels(Current(r))[1]
      BY <1>3, <1>4 DEF CurrentKernel
    <3>2. \/ Does(Kernels(Current(r))[1], 1, <<"barrier">>)
          \/ Does(Kernels(Current(r))[1], Current(r).grid, StepsOf(Current(r)))
      BY <1>4, KernelShapes
    <3>3. QED
      BY <3>1, <3>2 DEF Does, StepsOf
  <2>3. \A b \in Blocks : block'[r][b] <= Len(CurrentKernel(r).steps)' + 1
    BY <1>3, <2>2
  <2>4. kernel'[r] <= Len(Kernels(Current(r)))'
    BY <1>3, <1>4, <2>1
  <2>5. QED
    BY <1>1, <1>2, <1>3, <2>3, <2>4 DEF Launched
<1>7. \A s \in Slots, c \in Blocks :
          MadeOn(r, s, c) = 0 /\ MadeOn(r, s, c)' = 0
  BY <1>1, <1>3 DEF MadeOn, Made
<1>8. \A s \in Slots, c \in Blocks :
          WaitsOn(r, s, c) = 0 /\ WaitsOn(r, s, c)' = 0
  BY <1>1, <1>3 DEF WaitsOn, InStep, Running
<1>9. QED
  BY <1>1, <1>2, <1>5, <1>6, <1>7, <1>8, StreamStepWithin DEF Typing

(* No launch makes more calls than it has; a rank that has left its launch  *)
(* behind has made them all.                                                *)
LEMMA AtMostTotal ==
    ASSUME IInv, NEW q \in Ranks, position[q] <= Len(program),
           NEW s \in Slots, NEW b \in Blocks
    PROVE  /\ MadeOn(q, s, b) \in {0, 1, 2}
           /\ TotalOn(program[position[q]], s, b) \in {0, 2}
           /\ MadeOn(q, s, b) <= TotalOn(program[position[q]], s, b)
<1>1. Typing /\ Launched(q)
  BY DEF IInv
<1>2. program[position[q]] = Current(q)
  BY DEF Current
<1>3. MadeOn(q, s, b) \in {0, 1, 2} /\ TotalOn(Current(q), s, b) \in {0, 2}
  BY DEF MadeOn, Made, TotalOn
<1>4. CASE stage[q] = "kernel" /\ Current(q).slot = s
  <2>1. CASE Current(q).kind = "all_gather"
    BY <1>2, <1>3, <1>4, <2>1 DEF MadeOn, Made, TotalOn
  <2>2. CASE Current(q).kind # "all_gather"
    <3>1. b < Current(q).grid \/ block[q][b] = 0
      BY <1>1, <1>4, <2>2, StepFacts DEF Launched
    <3>2. b < Current(q).grid => TotalOn(Current(q), s, b) = 2
      BY <1>4, <2>2 DEF TotalOn
    <3>3. block[q][b] = 0 => MadeOn(q, s, b) = 0
      BY <1>4, <2>2 DEF MadeOn, Made
    <3>4. QED
      BY <1>2, <1>3, <3>1, <3>2, <3>3
  <2>3. QED
    BY <2>1, <2>2
<1>5. CASE ~ (stage[q] = "kernel" /\ Current(q).slot = s)
  BY <1>2, <1>3, <1>5 DEF MadeOn
<1>6. QED
  BY <1>4, <1>5

(* A rank that is a launch ahead has left no barrier of its launch.         *)
LEMMA AheadHasLeftNone ==
    ASSUME IInv, NEW r \in Ranks, NEW q \in Ranks, position[r] = position[q] + 1,
           NEW s \in Slots, NEW b \in Blocks
    PROVE  left[s][b][r] <= Before(r, s, b)
<1>1. position[q] <= Len(program) /\ Len(program) \in Nat
  <2>1. Len(program) \in Nat
    BY ProgramsAssumption DEF IInv, Typing
  <2>2. position[r] \in 1 .. Len(program) + 1 /\ position[q] \in 1 .. Len(program) + 1
    BY DEF IInv, Typing
  <2>3. QED
    BY <2>1, <2>2
<1> DEFINE m == MadeOn(q, s, b)
           t == TotalOn(program[position[q]], s, b)
<1>2. m \in {0, 1, 2} /\ t \in {0, 2} /\ m <= t
  BY <1>1, AtMostTotal
<1>3. /\ left[s][b][r] \in Nat /\ arrived[s][b][q] \in Nat
      /\ left[s][b][r] <= arrived[s][b][q]
  BY DEF IInv, Typing, Returned
<1>4. Before(q, s, b) = arrived[s][b][q] - m
  BY DEF Before
<1>5. Before(r, s, b) = Before(q, s, b) + t
  BY DEF IInv, InStepWith
<1> HIDE DEF m, t
<1>6. QED
  BY <1>2, <1>3, <1>4, <1>5

(* A block that has finished its kernel made all calls of the launch that   *)
(* are not in a later kernel, and waits in none.                            *)
LEMMA FinishedFacts ==
    ASSUME IInv, NEW r \in Ranks, stage[r] = "kernel",
           \A b \in GridOf(r) : Finished(r, b),
           NEW s \in Slots, NEW b \in Blocks
    PROVE  /\ WaitsOn(r, s, b) = 0
           /\ kernel[r] = Len(Kernels(Current(r))) =>
                 MadeOn(r, s, b) = TotalOn(Current(r), s, b)
           /\ Current(r).kind = "all_gather" /\ kernel[r] \in {1, 2} =>
                 Made(r, b) = IF b = 0 THEN 1 ELSE 0
<1>1. /\ Typing /\ Launched(r)
      /\ block[r][b] \in 0 .. 5
      /\ b \in GridOf(r) => block[r][b] > Len(CurrentKernel(r).steps)
      /\ b \notin GridOf(r) => block[r][b] = 0
  BY DEF IInv, Typing, Launched, Finished
<1>2. Len(CurrentKernel(r).steps) \in {1, 3, 4}
  BY <1>1, StepFacts
<1>3. WaitsOn(r, s, b) = 0
  <2>1. ~ (b \in GridOf(r) /\ block[r][b] \in 1 .. Len(CurrentKernel(r).steps))
    BY <1>1, <1>2
  <2>2. QED
    BY <2>1 DEF WaitsOn, InStep, Running
<1>4. CASE Current(r).kind = "all_gather"
  <2>1. Len(Kernels(Current(r))) = 3 /\ kernel[r] \in {1, 2, 3}
    BY <1>1, <1>4, KernelFacts DEF Typing
  <2>2. kernel[r] # 2 /\ b = 0 => block[r][b] > 0
    BY <1>1, <1>2, <1>4, StepFacts
  <2>3. QED
    BY <1>3, <1>4, <2>1, <2>2 DEF MadeOn, Made, TotalOn
<1>5. CASE Current(r).kind # "all_gather"
  <2>1. /\ Len(CurrentKernel(r).steps) \in {3, 4}
        /\ b \in GridOf(r) <=> b < Current(r).grid
    BY <1>1, <1>5, StepFacts
  <2>2. b \in GridOf(r) => block[r][b] > 2
    <3> SUFFICES ASSUME b \in GridOf(r) PROVE block[r][b] > 2
      OBVIOUS
    <3> DEFINE n == Len(CurrentKernel(r).steps)
    <3>1. n \in {3, 4} /\ block[r][b] > n
      BY <1>1, <2>1
    <3> HIDE DEF n
    <3>2. block[r][b] \in Nat
      BY <1>1
    <3>3. QED
      BY <3>1, <3>2
  <2>3. CASE b \in GridOf(r)
    BY <1>3, <1>5, <2>1, <2>2, <2>3 DEF MadeOn, Made, TotalOn
  <2>4. CASE b \notin GridOf(r)
    BY <1>1, <1>3, <1>5, <2>1, <2>4 DEF MadeOn, Made, TotalOn
  <2>5. QED
    BY <2>3, <2>4
<1>6. QED
  BY <1>4, <1>5

(* The next kernel of a launch begins: an all-gather's.                     *)
LEMMA NextKernelCorrect ==
    ASSUME IInv, NEW r \in Ranks, FinishKernel(r),
           kernel[r] < Len(Kernels(Current(r)))
    PROVE  IInv'
<1>1. /\ stage[r] = "kernel"
      /\ \A b \in GridOf(r) : Finished(r, b)
      /\ kernel' = [kernel EXCEPT ![r] = kernel[r] + 1]
      /\ block' = [block EXCEPT ![r] = [b \in Blocks |-> 0]]
      /\ UNCHANGED <<program, position, stage, arrived, left, staging>>
  BY DEF FinishKernel
<1>2. Typing /\ Launched(r) /\ kernel[r] \in 1 .. 3
  BY DEF IInv, Typing
<1>3. /\ Current(r).kind = "all_gather" /\ Len(Kernels(Current(r))) = 3
      /\ kernel[r] \in {1, 2}
  <2>1. CASE Current(r).kind # "all_gather"
    <3>1. kernel[r] = 1 /\ Len(Kernels(Current(r))) = 1
      BY <1>1, <1>2, <2>1, KernelFacts
    <3>2. QED
      BY <3>1
  <2>2. CASE Current(r).kind = "all_gather"
    <3>1. Len(Kernels(Current(r))) = 3
      BY <1>1, <1>2, <2>2, KernelFacts
    <3>2. kernel[r] \in {1, 2}
      BY <1>2, <3>1
    <3>3. QED
      BY <2>2, <3>1, <3>2
  <2>3. QED
    BY <2>1, <2>2
<1>4. /\ kernel'[r] = kernel[r] + 1 /\ kernel'[r] \in {2, 3}
      /\ \A b \in Blocks : block'[r][b] = 0
      /\ stage'[r] = "kernel" /\ Current(r)' = Current(r)
  BY <1>1, <1>2, <1>3 DEF Typing, Current
<1>5. Typing'
  BY <1>1, <1>2, <1>3, <1>4 DEF Typing
<1>6. Launched(r)'
  <2>1. Current(r) \in Launch
    BY <1>1, <1>2, KernelFacts, CurrentFacts
  <2>2. Len(CurrentKernel(r).steps)' = 1
    <3>1. \/ Does(Kernels(Current(r))[kernel'[r]], AllGatherGrid(Current(r)), <<"gather">>)
          \/ Does(Kernels(Current(r))[kernel'[r]], 1, <<"barrier">>)
      BY <1>3, <1>4, <2>1, KernelShapes
    <3>2. CurrentKernel(r)' = Kernels(Current(r))[kernel'[r]]
      BY <1>4 DEF CurrentKernel
    <3>3. \/ CurrentKernel(r).steps' = <<"gather">>
          \/ CurrentKernel(r).steps' = <<"barrier">>
      BY <3>1, <3>2 DEF Does
    <3>4. Len(<<"gather">>) = 1 /\ Len(<<"barrier">>) = 1
      OBVIOUS
    <3>5. QED
      BY <3>3, <3>4, Zenon
  <2>3. position'[r] <= Len(program')
    BY <1>1, <1>2 DEF Launched
  <2>4. kernel'[r] <= Len(Kernels(Current(r)))'
    <3>1. Len(Kernels(Current(r)))' = 3
      BY <1>3, <1>4
    <3>2. kernel'[r] <= 3
      BY <1>4
    <3>3. QED
      BY <3>1, <3>2
  <2>5. QED
    BY <1>4, <2>2, <2>3, <2>4 DEF Launched
<1>7. ASSUME NEW s \in Slots, NEW c \in Blocks
      PROVE  MadeOn(r, s, c)' = MadeOn(r, s, c) /\ WaitsOn(r, s, c)' = WaitsOn(r, s, c)
  <2>1. WaitsOn(r, s, c) = 0 /\ Made(r, c) = IF c = 0 THEN 1 ELSE 0
    BY <1>1, <1>3, FinishedFacts
  <2>2. Made(r, c)' = IF c = 0 THEN 1 ELSE 0
    BY <1>3, <1>4 DEF Made
  <2>3. WaitsOn(r, s, c)' = 0
    BY <1>4 DEF WaitsOn, InStep, Running
  <2>4. QED
    BY <1>1, <1>4, <2>1, <2>2, <2>3 DEF MadeOn
<1>8. QED
  BY <1>1, <1>2, <1>5, <1>6, <1>7, StreamStepWithin DEF Typing

(* A launch is complete.  No other rank is behind: one that has not begun   *)
(* this launch would have kept a block in its first barrier.                *)
LEMMA FinishLaunchCorrect ==
    ASSUME IInv, NEW r \in Ranks, FinishKernel(r),
           ~ (kernel[r] < Len(Kernels(Current(r))))
    PROVE  IInv'
<1>1. /\ stage[r] = "kernel"
      /\ \A b \in GridOf(r) : Finished(r, b)
      /\ position' = [position EXCEPT ![r] = position[r] + 1]
      /\ stage' = [stage EXCEPT ![r] = "idle"]
      /\ UNCHANGED <<program, kernel, block, arrived, left, staging>>
  BY DEF FinishKernel
<1>2. Typing /\ Launched(r)
  BY DEF IInv
<1>3. /\ position[r] \in 1 .. Len(program) + 1 /\ position[r] <= Len(program)
      /\ Len(program) \in Nat /\ position[r] \in Nat
      /\ \A q \in Ranks : position[q] \in Nat
  <2>1. Len(program) \in Nat
    BY <1>2, ProgramsAssumption DEF Typing
  <2>2. \A q \in Ranks : position[q] \in 1 .. Len(program) + 1
    BY <1>2 DEF Typing
  <2>3. position[r] <= Len(program)
    BY <1>1, <1>2 DEF Launched
  <2>4. QED
    BY <2>1, <2>2, <2>3
<1>4. /\ position'[r] = position[r] + 1 /\ stage'[r] = "idle"
      /\ \A q \in Ranks \ {r} : position'[q] = position[q] /\ stage'[q] = stage[q]
  BY <1>1, <1>2 DEF Typing
<1>5. Typing'
  <2>1. position[r] + 1 \in 1 .. Len(program) + 1
    BY <1>3
  <2>2. QED
    BY <1>1, <1>2, <2>1 DEF Typing
<1>6. kernel[r] = Len(Kernels(Current(r)))
  <2>1. kernel[r] \in 1 .. 3 /\ kernel[r] <= Len(Kernels(Current(r)))
    BY <1>1, <1>2 DEF Typing, Launched
  <2>2. Len(Kernels(Current(r))) \in {1, 3}
    BY <1>1, <1>2, KernelFacts
  <2>3. QED
    BY <2>1, <2>2
<1>7. \A s \in Slots, c \in Blocks :
          /\ MadeOn(r, s, c) = TotalOn(program[position[r]], s, c)
          /\ WaitsOn(r, s, c) = 0
  BY <1>1, <1>6, FinishedFacts DEF Current
<1>8. \A s \in Slots, c \in Blocks : Before(r, s, c)' = arrived[s][c][r] - 0
  BY <1>1, <1>4 DEF Before, MadeOn
<1>9. \A s \in Slots, c \in Blocks :
          Before(r, s, c)' = Before(r, s, c) + TotalOn(program[position[r]], s, c)
  <2> SUFFICES ASSUME NEW s \in Slots, NEW c \in Blocks
               PROVE  Before(r, s, c)' = Before(r, s, c) + TotalOn(program[position[r]], s, c)
    OBVIOUS
  <2>1. TotalOn(program[position[r]], s, c) \in {0, 2}
    BY <1>3, AtMostTotal
  <2>2. arrived[s][c][r] \in Nat
    BY <1>2 DEF Typing
  <2>3. Before(r, s, c) = arrived[s][c][r] - TotalOn(program[position[r]], s, c)
    BY <1>7 DEF Before
  <2>4. QED
    BY <1>8, <2>1, <2>2, <2>3
<1>10. \A q \in Ranks : position[r] # position[q] + 1
  <2> SUFFICES ASSUME NEW q \in Ranks, position[r] = position[q] + 1 PROVE FALSE
    OBVIOUS
  <2> DEFINE s == Current(r).slot
  <2>1. /\ s \in Slots /\ 0 \in Blocks
        /\ TotalOn(program[position[r]], s, 0) = 2
    <3>1. /\ Current(r).grid \in Nat \ {0} /\ Current(r).slot \in Slots
      BY <1>2, <1>3, CurrentFacts
    <3>2. 0 \in Blocks
      BY ProgramsAssumption DEF Blocks
    <3>3. 0 < Current(r).grid
      BY <3>1
    <3>4. QED
      BY <3>1, <3>2, <3>3 DEF TotalOn, Current
  <2> HIDE DEF s
  <2>2. /\ left[s][0][r] <= Before(r, s, 0)
        /\ arrived[s][0][r] = left[s][0][r] + 0
        /\ left[s][0][r] \in Nat
        /\ Before(r, s, 0) = arrived[s][0][r] - 2
    BY <1>2, <1>7, <2>1, AheadHasLeftNone DEF IInv, Returned, Typing, Before
  <2>3. QED
    BY <2>2
<1>11. ASSUME NEW q \in Ranks PROVE Launched(q)'
  <2>1. CASE q = r
    BY <1>4, <2>1 DEF Launched
  <2>2. CASE q # r
    BY <1>1, <1>4, <2>2, OthersSame
  <2>3. QED
    BY <2>1, <2>2
<1>12. ASSUME NEW q \in Ranks PROVE Returned(q)'
  <2>1. \A s \in Slots, c \in Blocks : WaitsOn(q, s, c)' = WaitsOn(q, s, c)
    <3>1. CASE q = r
      <4>1. \A s \in Slots, c \in Blocks : WaitsOn(r, s, c)' = 0
        BY <1>4 DEF WaitsOn, InStep, Running
      <4>2. QED
        BY <1>7, <3>1, <4>1
    <3>2. CASE q # r
      BY <1>1, <1>4, <3>2, OthersSame
    <3>3. QED
      BY <3>1, <3>2
  <2>2. QED
    BY <1>1, <2>1 DEF IInv, Returned
<1>13. AtMostOneLaunchAhead'
  <2> SUFFICES ASSUME NEW p \in Ranks, NEW q \in Ranks
               PROVE  position'[p] <= position'[q] + 1
    BY DEF AtMostOneLaunchAhead
  <2>1. position[p] <= position[q] + 1 /\ (p = r => position[p] # position[q] + 1)
    BY <1>10 DEF IInv, AtMostOneLaunchAhead
  <2>2. QED
    BY <1>3, <1>4, <2>1
<1>14. ASSUME NEW p \in Ranks, NEW q \in Ranks PROVE InStepWith(p, q)'
  <2> SUFFICES ASSUME NEW s \in Slots, NEW c \in Blocks
               PROVE  /\ position'[p] = position'[q] => Before(p, s, c)' = Before(q, s, c)'
                      /\ position'[p] = position'[q] + 1 =>
                            Before(p, s, c)' = Before(q, s, c)'
                                  + TotalOn(program[position'[q]], s, c)
    BY <1>1 DEF InStepWith
  <2> DEFINE B(x) == Before(x, s, c)
             T(k) == TotalOn(program[k], s, c)
  <2>1. /\ \A x \in Ranks \ {r} : Before(x, s, c)' = B(x)
        /\ Before(r, s, c)' = B(r) + T(position[r])
    BY <1>1, <1>4, <1>9, OthersSame
  <2>2. \A x, y \in Ranks :
            /\ position[x] = position[y] => B(x) = B(y)
            /\ position[x] = position[y] + 1 => B(x) = B(y) + T(position[y])
    BY DEF IInv, InStepWith
  <2> HIDE DEF B, T
  <2>3. CASE p # r /\ q # r
    BY <1>4, <2>1, <2>2, <2>3 DEF T
  <2>4. CASE p = r /\ q = r
    BY <1>3, <1>4, <2>4
  <2>5. CASE p = r /\ q # r
    <3>1. position'[p] = position[r] + 1 /\ position'[q] = position[q]
      BY <1>4, <2>5
    <3>2. ASSUME position[r] + 1 = position[q]
          PROVE  Before(p, s, c)' = Before(q, s, c)'
      BY <2>1, <2>2, <2>5, <3>2
    <3>3. ASSUME position[r] + 1 = position[q] + 1
          PROVE  Before(p, s, c)' = Before(q, s, c)' + T(position[q])
      <4>1. position[r] = position[q]
        BY <1>3, <3>3
      <4>2. QED
        BY <2>1, <2>2, <2>5, <4>1
    <3>4. QED
      BY <3>1, <3>2, <3>3 DEF T
  <2>6. CASE p # r /\ q = r
    <3>1. position'[p] = position[p] /\ position'[q] = position[r] + 1
      BY <1>4, <2>6
    <3>2. position[p] <= position[r] + 1
      BY DEF IInv, AtMostOneLaunchAhead
    <3>3. position'[p] # position'[q] + 1
      BY <1>3, <3>1, <3>2
    <3>4. ASSUME position[p] = position[r] + 1
          PROVE  Before(p, s, c)' = Before(q, s, c)'
      BY <2>1, <2>2, <2>6, <3>4
    <3>5. QED
      BY <3>1, <3>3, <3>4
  <2>7. QED
    BY <2>3, <2>4, <2>5, <2>6
<1>15. QED
  BY <1>5, <1>11, <1>12, <1>13, <1>14 DEF IInv

-----------------------------------------------------------------------------
(* The invariant, and what it contains.                                     *)

(* At first no rank has launched anything.                                  *)
LEMMA InitCorrect == ASSUME Init PROVE IInv
<1>1. Len(program) \in Nat
  BY ProgramsAssumption DEF Init
<1>2. Typing
  BY <1>1 DEF Init, Typing
<1>3. \A r \in Ranks : stage[r] = "idle" /\ position[r] = 1
  BY DEF Init
<1>4. \A r \in Ranks, s \in Slots, b \in Blocks :
          /\ MadeOn(r, s, b) = 0 /\ WaitsOn(r, s, b) = 0
          /\ arrived[s][b][r] = 0 /\ left[s][b][r] = 0
  BY <1>3 DEF Init, MadeOn, WaitsOn, InStep, Running
<1>5. \A r \in Ranks : Launched(r)
  BY <1>3 DEF Launched
<1>6. \A r \in Ranks : Returned(r)
  BY <1>4 DEF Returned
<1>7. AtMostOneLaunchAhead
  BY <1>3 DEF AtMostOneLaunchAhead
<1>8. \A r, q \in Ranks : InStepWith(r, q)
  BY <1>3, <1>4 DEF InStepWith, Before
<1>9. QED
  BY <1>2, <1>5, <1>6, <1>7, <1>8 DEF IInv

(* Every reachable state satisfies the inductive invariant.                 *)
THEOREM Invariant == Spec => []IInv
<1>1. Init => IInv
  BY InitCorrect
<1>2. IInv /\ [Next]_vars => IInv'
  <2> SUFFICES ASSUME IInv, [Next]_vars PROVE IInv'
    OBVIOUS
  <2>1. CASE UNCHANGED vars
    <3> USE <2>1 DEF vars
    <3>1. /\ \A r \in Ranks : Current(r)' = Current(r) /\ GridOf(r)' = GridOf(r)
                              /\ CurrentKernel(r)' = CurrentKernel(r)
      BY DEF Current, CurrentKernel, GridOf
    <3>2. /\ \A r \in Ranks, s \in Slots, b \in Blocks :
                MadeOn(r, s, b)' = MadeOn(r, s, b) /\ WaitsOn(r, s, b)' = WaitsOn(r, s, b)
      BY <3>1 DEF MadeOn, Made, WaitsOn, InStep, Running
    <3>3. Typing' /\ AtMostOneLaunchAhead' /\ \A r \in Ranks : Launched(r)'
      BY <3>1 DEF IInv, Typing, AtMostOneLaunchAhead, Launched
    <3>4. \A r \in Ranks : Returned(r)'
      BY <3>2 DEF IInv, Returned
    <3>5. \A r, q \in Ranks : InStepWith(r, q)'
      BY <3>2 DEF IInv, InStepWith, Before
    <3>6. QED
      BY <3>3, <3>4, <3>5 DEF IInv
  <2>2. ASSUME NEW r \in Ranks, NEW b \in Blocks, BlockStep(r, b) PROVE IInv'
    <3>1. UNCHANGED <<program, position>>
      BY <2>2, BlockStepFacts
    <3>2. QED
      BY <2>2, <3>1, BlockStepCounts, SameLaunches
  <2>3. ASSUME NEW r \in Ranks, StreamStep(r) PROVE IInv'
    BY <2>3, BeginCopyCorrect, EndCopyCorrect, NextKernelCorrect, FinishLaunchCorrect
       DEF StreamStep
  <2>4. QED
    BY <2>1, <2>2, <2>3 DEF Next
<1>3. QED
  BY <1>1, <1>2, PTL DEF Spec

(* Every variable stays in its range, and a row's calls are closed but for  *)
(* the one a block waits in.                                                *)
THEOREM TypeCorrect == Spec => []TypeOK
<1>1. IInv => TypeOK
  <2> SUFFICES ASSUME IInv PROVE TypeOK
    OBVIOUS
  <2>1. ASSUME NEW s \in Slots, NEW b \in Blocks, NEW r \in Ranks
        PROVE  left[s][b][r] <= arrived[s][b][r] /\ arrived[s][b][r] <= left[s][b][r] + 1
    <3>1. /\ arrived[s][b][r] = left[s][b][r] + WaitsOn(r, s, b)
          /\ left[s][b][r] \in Nat
      BY DEF IInv, Returned, Typing
    <3>2. WaitsOn(r, s, b) \in {0, 1}
      BY DEF WaitsOn
    <3>3. QED
      BY <3>1, <3>2
  <2>2. QED
    BY <2>1 DEF IInv, Typing, TypeOK
<1>2. QED
  BY <1>1, Invariant, PTL

(* No rank is ever two launches ahead of another.                           *)
THEOREM NeverTwoAhead == Spec => []AtMostOneLaunchAhead
<1>1. IInv => AtMostOneLaunchAhead
  BY DEF IInv
<1>2. QED
  BY <1>1, Invariant, PTL

-----------------------------------------------------------------------------
(* No races.                                                                *)

(* Where a rank's sum lies tells which block computed it.                   *)
LEMMA IndexDeterminesBlock ==
    ASSUME NEW l, l.kind \in {"two_stage", "two_shot", "fused_two_shot"}, NEW r,
           NEW i, NEW j, TmpIndex(l, r, i) = TmpIndex(l, r, j)
    PROVE  ReduceBlock(l, r, i) = ReduceBlock(l, r, j)
<1>1. CASE l.kind = "two_stage"
  <2>1. i - r * Part(l) = j - r * Part(l)
    BY <1>1 DEF TmpIndex
  <2>2. \A x : ReduceBlock(l, r, x) = BlockOf(l, x - r * Part(l))
    BY <1>1 DEF ReduceBlock, FusedKinds
  <2>3. QED
    BY <2>1, <2>2
<1>2. CASE l.kind \in {"two_shot", "fused_two_shot"}
  BY <1>2 DEF TmpIndex
<1>3. QED
  BY <1>1, <1>2

(* A block gathers only sums that blocks of its own row have computed.      *)
LEMMA GathersItsRow ==
    ASSUME NEW l, l.kind \in {"two_stage", "two_shot", "fused_two_shot"}, NEW c,
           NEW f \in Fetches(l, c), NEW r, NEW i, TmpIndex(l, r, i) = f.at
    PROVE  ReduceBlock(l, r, i) = c
<1>1. CASE l.kind = "two_stage"
  <2>1. f \in TwoStageFetches(l, c)
    BY <1>1 DEF Fetches
  <2>2. PICK k \in {j \in 0 .. Part(l) + (l.size % NRanks) - 1 : BlockOf(l, j) = c} :
            f \in {Fetch(q * Part(l) + k, q, k) :
                      q \in {p \in Ranks : p = NRanks - 1 \/ k < Part(l)}}
    BY <2>1 DEF TwoStageFetches
  <2>3. f.at = k /\ BlockOf(l, k) = c
    BY <2>2 DEF Fetch
  <2>4. i - r * Part(l) = k
    BY <1>1, <2>3 DEF TmpIndex
  <2>5. ReduceBlock(l, r, i) = BlockOf(l, i - r * Part(l))
    BY <1>1 DEF ReduceBlock, FusedKinds
  <2>6. QED
    BY <2>3, <2>4, <2>5
<1>2. CASE l.kind = "two_shot"
  <2>1. f \in TwoShotFetches(l, c)
    BY <1>2 DEF Fetches
  <2>2. BlockOf(l, f.at \div NRanks) = c
    BY <2>1 DEF TwoShotFetches, Fetch
  <2>3. TmpIndex(l, r, i) = i
    BY <1>2 DEF TmpIndex
  <2>4. ReduceBlock(l, r, i) = BlockOf(l, i \div NRanks)
    BY <1>2 DEF ReduceBlock, FusedKinds
  <2>5. QED
    BY <2>2, <2>3, <2>4
<1>3. CASE l.kind = "fused_two_shot"
  <2>1. f \in FusedFetches(l, c)
    BY <1>3 DEF Fetches
  <2>2. BlockOf(l, RowOf(f.at)) = c
    BY <2>1 DEF FusedFetches, Fetch
  <2>3. TmpIndex(l, r, i) = i
    BY <1>3 DEF TmpIndex
  <2>4. ReduceBlock(l, r, i) = BlockOf(l, RowOf(i))
    BY <1>3 DEF ReduceBlock, FusedKinds
  <2>5. QED
    BY <2>2, <2>3, <2>4
<1>4. QED
  BY <1>1, <1>2, <1>3

(* A row's calls: what was made before, what the launch made, and waits in. *)
LEMMA RowCounts ==
    ASSUME IInv, NEW r \in Ranks, NEW s \in Slots, NEW b \in Blocks
    PROVE  /\ Before(r, s, b) \in Int
           /\ arrived[s][b][r] = Before(r, s, b) + MadeOn(r, s, b)
           /\ left[s][b][r] = Before(r, s, b) + MadeOn(r, s, b) - WaitsOn(r, s, b)
           /\ MadeOn(r, s, b) \in {0, 1, 2} /\ WaitsOn(r, s, b) \in {0, 1}
           /\ \A q \in Ranks : left[s][b][r] <= arrived[s][b][q]
<1>1. arrived[s][b][r] \in Nat /\ left[s][b][r] \in Nat
  BY DEF IInv, Typing
<1>2. MadeOn(r, s, b) \in {0, 1, 2} /\ WaitsOn(r, s, b) \in {0, 1}
  BY DEF MadeOn, Made, WaitsOn
<1>3. /\ arrived[s][b][r] = left[s][b][r] + WaitsOn(r, s, b)
      /\ \A q \in Ranks : left[s][b][r] <= arrived[s][b][q]
  BY DEF IInv, Returned
<1>4. QED
  BY <1>1, <1>2, <1>3 DEF Before

(* A block that reads staging buffers is between the two calls of a row.    *)
LEMMA ReadsStagingBetweenCalls ==
    ASSUME IInv, NEW q \in Ranks, NEW c \in Blocks,
           \/ InStep(q, c, "reduce")
           \/ InStep(q, c, "gather") /\ Current(q).kind = "all_gather"
    PROVE  /\ position[q] <= Len(program) /\ Current(q).slot \in Slots
           /\ \E d \in Blocks :
                 /\ InStep(q, c, "reduce") => d = c
                 /\ MadeOn(q, Current(q).slot, d) = 1
                 /\ WaitsOn(q, Current(q).slot, d) = 0
                 /\ TotalOn(program[position[q]], Current(q).slot, d) = 2
<1> DEFINE s == Current(q).slot
<1>1. /\ Typing /\ Launched(q) /\ stage[q] = "kernel"
      /\ program[position[q]] = Current(q)
  BY DEF IInv, InStep, Running, Current
<1>2. position[q] <= Len(program) /\ s \in Slots
  BY <1>1, KernelFacts, CurrentFacts
<1>3. CASE Current(q).kind = "all_gather"
  <2>1. ~ InStep(q, c, "reduce") /\ kernel[q] = 2
    BY <1>1, <1>3, StepFacts
  <2>2. 0 \in Blocks
    BY ProgramsAssumption DEF Blocks
  <2>3. ~ InStep(q, 0, "barrier")
    BY <1>1, <1>3, <2>1, <2>2, StepFacts
  <2>4. MadeOn(q, s, 0) = 1 /\ WaitsOn(q, s, 0) = 0
    BY <1>1, <1>3, <2>1, <2>3 DEF MadeOn, Made, WaitsOn
  <2>5. TotalOn(program[position[q]], s, 0) = 2
    BY <1>1, <1>3 DEF TotalOn
  <2>6. QED
    BY <1>2, <2>1, <2>2, <2>4, <2>5
<1>4. CASE Current(q).kind # "all_gather"
  <2>1. InStep(q, c, "reduce")
    BY <1>4
  <2>2. c < Current(q).grid /\ block[q][c] = 2 /\ ~ InStep(q, c, "barrier")
    BY <1>1, <1>4, <2>1, StepFacts
  <2>3. MadeOn(q, s, c) = 1 /\ WaitsOn(q, s, c) = 0
    BY <1>1, <1>4, <2>2 DEF MadeOn, Made, WaitsOn
  <2>4. TotalOn(program[position[q]], s, c) = 2
    BY <1>1, <1>4, <2>2 DEF TotalOn
  <2>5. QED
    BY <1>2, <2>3, <2>4
<1>5. QED
  BY <1>3, <1>4

(* No staging copy runs while a block reads the buffer.                     *)
LEMMA CopyMeetsNoReader ==
    ASSUME IInv, NEW r \in Ranks, NEW q \in Ranks, NEW c \in Blocks,
           stage[r] = "copy", Current(r).slot = Current(q).slot,
           \/ InStep(q, c, "reduce")
           \/ InStep(q, c, "gather") /\ Current(q).kind = "all_gather"
    PROVE  FALSE
<1> DEFINE s == Current(q).slot
<1>1. PICK d \in Blocks : /\ MadeOn(q, s, d) = 1 /\ WaitsOn(q, s, d) = 0
                          /\ TotalOn(program[position[q]], s, d) = 2
  BY ReadsStagingBetweenCalls
<1>2. s \in Slots
  BY ReadsStagingBetweenCalls
<1>3. MadeOn(r, s, d) = 0 /\ WaitsOn(r, s, d) = 0
  BY DEF MadeOn, WaitsOn, InStep, Running
<1> HIDE DEF s
<1> DEFINE x == Before(r, s, d)
           y == Before(q, s, d)
<1>4. /\ x \in Int /\ y \in Int
      /\ arrived[s][d][r] = x + 0 /\ left[s][d][r] = x + 0 - 0
      /\ arrived[s][d][q] = y + 1 /\ left[s][d][q] = y + 1 - 0
      /\ left[s][d][r] <= arrived[s][d][q]
      /\ left[s][d][q] <= arrived[s][d][r]
  BY <1>1, <1>2, <1>3, RowCounts
<1>5. /\ position[r] = position[q] => x = y
      /\ position[r] = position[q] + 1 => x = y + TotalOn(program[position[q]], s, d)
      /\ position[q] = position[r] + 1 => y = x + TotalOn(program[position[r]], s, d)
  BY <1>2 DEF IInv, InStepWith
<1> HIDE DEF x, y
<1>6. x = y + 1
  BY <1>4
<1>7. /\ position[r] \in Int /\ position[q] \in Int
      /\ position[r] <= position[q] + 1 /\ position[q] <= position[r] + 1
  <2>1. position[r] \in 1 .. Len(program) + 1 /\ position[q] \in 1 .. Len(program) + 1
    BY DEF IInv, Typing
  <2>2. QED
    BY <2>1 DEF IInv, AtMostOneLaunchAhead
<1>8. position[r] # position[q]
  BY <1>4, <1>5, <1>6
<1>9. position[r] # position[q] + 1
  BY <1>1, <1>4, <1>5, <1>6
<1>10. position[q] # position[r] + 1
  <2> SUFFICES ASSUME position[q] = position[r] + 1 PROVE FALSE
    OBVIOUS
  <2>1. position[r] <= Len(program)
    BY DEF IInv, Launched
  <2>2. TotalOn(program[position[r]], s, d) \in {0, 2}
    BY <1>2, <2>1, AtMostTotal
  <2>3. QED
    BY <1>4, <1>5, <1>6, <2>2
<1>11. QED
  BY <1>7, <1>8, <1>9, <1>10

(* A block that gathers sums has left both calls of its row.                *)
LEMMA GathersAfterCalls ==
    ASSUME IInv, NEW q \in Ranks, NEW c \in Blocks,
           InStep(q, c, "gather"), Current(q).kind # "all_gather"
    PROVE  /\ Current(q).kind \in {"two_stage", "two_shot", "fused_two_shot"}
           /\ MadeOn(q, Current(q).slot, c) = 2
           /\ WaitsOn(q, Current(q).slot, c) = 0
<1>1. Typing /\ Launched(q) /\ stage[q] = "kernel"
  BY DEF IInv, InStep, Running
<1>2. /\ block[q][c] = 4 /\ Current(q).kind \notin OneStageKinds
      /\ ~ InStep(q, c, "barrier")
  BY <1>1, StepFacts
<1>3. Current(q).kind \in Kinds
  BY <1>1, KernelFacts, CurrentFacts DEF Launch
<1>4. Current(q).kind \in {"two_stage", "two_shot", "fused_two_shot"}
  BY <1>2, <1>3 DEF Kinds, FusedKinds, OneStageKinds
<1>5. MadeOn(q, Current(q).slot, c) = 2
  BY <1>1, <1>2 DEF MadeOn, Made
<1>6. WaitsOn(q, Current(q).slot, c) = 0
  BY <1>2 DEF WaitsOn
<1>7. QED
  BY <1>4, <1>5, <1>6

(* What a block writes are the sums it reduces.                             *)
LEMMA WritesFacts ==
    ASSUME IInv, NEW r \in Ranks, NEW b \in Blocks, NEW x \in WritesOf(r, b)
    PROVE  /\ InStep(r, b, "reduce")
           /\ Current(r).kind \in {"two_stage", "two_shot", "fused_two_shot"}
           /\ \E i : /\ x = TmpLoc(Current(r).slot, r, TmpIndex(Current(r), r, i))
                     /\ ReduceBlock(Current(r), r, i) = b
<1>1. InStep(r, b, "reduce") /\ Current(r).kind \notin OneStageKinds
  BY DEF WritesOf, OneStageKinds
<1>2. Typing /\ Launched(r) /\ stage[r] = "kernel"
  BY <1>1 DEF IInv, InStep, Running
<1>3. Current(r).kind # "all_gather"
  BY <1>1, <1>2, StepFacts
<1>4. Current(r).kind \in Kinds
  BY <1>2, KernelFacts, CurrentFacts DEF Launch
<1>5. Current(r).kind \in {"two_stage", "two_shot", "fused_two_shot"}
  BY <1>1, <1>3, <1>4 DEF Kinds, FusedKinds, OneStageKinds
<1>6. x \in {TmpLoc(Current(r).slot, r, TmpIndex(Current(r), r, i)) :
                i \in ReducedHere(Current(r), r, b)}
  BY <1>1 DEF WritesOf, OneStageKinds
<1>7. \E i : /\ x = TmpLoc(Current(r).slot, r, TmpIndex(Current(r), r, i))
             /\ ReduceBlock(Current(r), r, i) = b
  BY <1>6 DEF ReducedHere
<1>8. QED
  BY <1>1, <1>5, <1>7

(* No block writes a sum while another gathers it: the gathering block has  *)
(* left a call of its row that the writing one has still to make.           *)
LEMMA WriteMeetsNoGather ==
    ASSUME IInv, NEW r \in Ranks, NEW b \in Blocks, NEW q \in Ranks, NEW c \in Blocks,
           InStep(r, b, "reduce"),
           Current(r).kind \in {"two_stage", "two_shot", "fused_two_shot"},
           InStep(q, c, "gather"), Current(q).kind # "all_gather",
           Current(r).slot = Current(q).slot,
           NEW f \in Fetches(Current(q), c),
           NEW i, TmpIndex(Current(r), r, i) = f.at, ReduceBlock(Current(r), r, i) = b
    PROVE  FALSE
<1> DEFINE s == Current(q).slot
<1>1. s \in Slots
  <2>1. Typing /\ Launched(q) /\ stage[q] = "kernel"
    BY DEF IInv, InStep, Running
  <2>2. QED
    BY <2>1, KernelFacts, CurrentFacts
<1>2. MadeOn(q, s, c) = 2 /\ WaitsOn(q, s, c) = 0
  BY GathersAfterCalls
<1>3. MadeOn(r, s, b) = 1 /\ WaitsOn(r, s, b) = 0
  <2>1. Typing /\ Launched(r) /\ stage[r] = "kernel"
    BY DEF IInv, InStep, Running
  <2>2. block[r][b] = 2 /\ ~ InStep(r, b, "barrier") /\ Current(r).kind # "all_gather"
    BY <2>1, StepFacts
  <2>3. QED
    BY <2>1, <2>2 DEF MadeOn, Made, WaitsOn
<1> HIDE DEF s
<1>4. \A d \in Blocks : Before(r, s, d) \in Int /\ Before(q, s, d) \in Int
  BY <1>1, RowCounts
<1>5. left[s][b][r] = Before(r, s, b) + 1 /\ arrived[s][b][r] = Before(r, s, b) + 1
  <2>1. left[s][b][r] = Before(r, s, b) + 1 - 0 /\ arrived[s][b][r] = Before(r, s, b) + 1
    BY <1>1, <1>3, RowCounts
  <2>2. QED
    BY <1>4, <2>1
<1>6. left[s][c][q] = Before(q, s, c) + 2
  <2>1. left[s][c][q] = Before(q, s, c) + 2 - 0
    BY <1>1, <1>2, RowCounts
  <2>2. QED
    BY <1>4, <2>1
<1>7. position[r] # position[q] + 1
  <2> SUFFICES ASSUME position[r] = position[q] + 1 PROVE FALSE
    OBVIOUS
  <2>1. left[s][b][r] <= Before(r, s, b)
    BY <1>1, AheadHasLeftNone
  <2>2. QED
    BY <1>4, <1>5, <2>1
<1>8. position[q] # position[r] + 1
  <2> SUFFICES ASSUME position[q] = position[r] + 1 PROVE FALSE
    OBVIOUS
  <2>1. left[s][c][q] <= Before(q, s, c)
    BY <1>1, AheadHasLeftNone
  <2>2. QED
    BY <1>4, <1>6, <2>1
<1>9. position[r] # position[q]
  <2> SUFFICES ASSUME position[r] = position[q] PROVE FALSE
    OBVIOUS
  <2>1. Current(r) = Current(q)
    BY DEF Current
  <2>2. b = c
    BY <2>1, GathersItsRow
  <2>3. Before(r, s, b) = Before(q, s, b)
    BY <1>1 DEF IInv, InStepWith
  <2>4. left[s][c][q] <= arrived[s][c][r]
    BY <1>1, RowCounts
  <2>5. QED
    BY <1>4, <1>5, <1>6, <2>2, <2>3, <2>4
<1>10. QED
  <2>1. position[r] \in 1 .. Len(program) + 1 /\ position[q] \in 1 .. Len(program) + 1
    BY DEF IInv, Typing
  <2>2. position[r] <= position[q] + 1 /\ position[q] <= position[r] + 1
    BY DEF IInv, AtMostOneLaunchAhead
  <2>3. QED
    BY <1>7, <1>8, <1>9, <2>1, <2>2

(* What a block reads: staging buffers, or the sums it gathers.             *)
LEMMA ReadsFacts ==
    ASSUME NEW q, NEW c, NEW x \in ReadsOf(q, c)
    PROVE  \/ /\ \/ InStep(q, c, "reduce")
                 \/ InStep(q, c, "gather") /\ Current(q).kind = "all_gather"
              /\ \E p : x = StagingLoc(Current(q).slot, p)
           \/ /\ InStep(q, c, "gather") /\ Current(q).kind # "all_gather"
              /\ \E f \in Fetches(Current(q), c) :
                    x = TmpLoc(Current(q).slot, f.from, f.at)
<1>1. CASE InStep(q, c, "reduce")
  BY <1>1 DEF ReadsOf
<1>2. CASE ~ InStep(q, c, "reduce") /\ InStep(q, c, "gather")
           /\ Current(q).kind = "all_gather"
  BY <1>2 DEF ReadsOf
<1>3. CASE ~ InStep(q, c, "reduce") /\ InStep(q, c, "gather")
           /\ Current(q).kind # "all_gather"
  BY <1>3 DEF ReadsOf
<1>4. CASE ~ InStep(q, c, "reduce") /\ ~ InStep(q, c, "gather")
  BY <1>4 DEF ReadsOf
<1>5. QED
  BY <1>1, <1>2, <1>3, <1>4

(* While a block or a staging copy writes a location that other ranks may   *)
(* access, no other block reads or writes it.                               *)
THEOREM NoRaces == Spec => []RaceFree
<1>1. IInv => RaceFree
  <2> SUFFICES ASSUME IInv, NEW r \in Ranks, NEW q \in Ranks, NEW c \in Blocks
               PROVE  /\ CopiesInto(r) \cap (ReadsOf(q, c) \cup WritesOf(q, c)) = {}
                      /\ \A b \in Blocks : <<r, b>> # <<q, c>> =>
                            WritesOf(r, b) \cap (ReadsOf(q, c) \cup WritesOf(q, c)) = {}
    BY DEF RaceFree
  <2>1. ASSUME NEW x \in CopiesInto(r), x \in ReadsOf(q, c) \cup WritesOf(q, c)
        PROVE  FALSE
    <3>1. stage[r] = "copy" /\ x = StagingLoc(Current(r).slot, r)
      BY <2>1 DEF CopiesInto
    <3>2. CASE x \in ReadsOf(q, c)
      <4>1. PICK p : x = StagingLoc(Current(q).slot, p)
        BY <3>1, <3>2, ReadsFacts DEF StagingLoc, TmpLoc
      <4>2. \/ InStep(q, c, "reduce")
            \/ InStep(q, c, "gather") /\ Current(q).kind = "all_gather"
        BY <3>1, <3>2, ReadsFacts DEF StagingLoc, TmpLoc
      <4>3. Current(r).slot = Current(q).slot
        BY <3>1, <4>1 DEF StagingLoc
      <4>4. QED
        BY <3>1, <4>2, <4>3, CopyMeetsNoReader
    <3>3. CASE x \in WritesOf(q, c)
      BY <3>1, <3>3, WritesFacts DEF StagingLoc, TmpLoc
    <3>4. QED
      BY <2>1, <3>2, <3>3
  <2>2. ASSUME NEW b \in Blocks, <<r, b>> # <<q, c>>,
               NEW x \in WritesOf(r, b), x \in ReadsOf(q, c) \cup WritesOf(q, c)
        PROVE  FALSE
    <3>1. /\ InStep(r, b, "reduce")
          /\ Current(r).kind \in {"two_stage", "two_shot", "fused_two_shot"}
      BY WritesFacts
    <3>2. PICK i : /\ x = TmpLoc(Current(r).slot, r, TmpIndex(Current(r), r, i))
                   /\ ReduceBlock(Current(r), r, i) = b
      BY WritesFacts
    <3>3. CASE x \in ReadsOf(q, c)
      <4>1. InStep(q, c, "gather") /\ Current(q).kind # "all_gather"
        BY <3>2, <3>3, ReadsFacts DEF StagingLoc, TmpLoc
      <4>2. PICK f \in Fetches(Current(q), c) :
                x = TmpLoc(Current(q).slot, f.from, f.at)
        BY <3>2, <3>3, ReadsFacts DEF StagingLoc, TmpLoc
      <4>3. /\ Current(r).slot = Current(q).slot
            /\ TmpIndex(Current(r), r, i) = f.at
        BY <3>2, <4>2 DEF TmpLoc
      <4>4. QED
        BY <3>1, <3>2, <4>1, <4>3, WriteMeetsNoGather
    <3>4. CASE x \in WritesOf(q, c)
      <4>1. PICK j : /\ x = TmpLoc(Current(q).slot, q, TmpIndex(Current(q), q, j))
                     /\ ReduceBlock(Current(q), q, j) = c
        BY <3>4, WritesFacts
      <4>2. q = r /\ TmpIndex(Current(q), q, j) = TmpIndex(Current(r), r, i)
        BY <3>2, <4>1 DEF TmpLoc
      <4>3. b = c
        BY <3>1, <3>2, <4>1, <4>2, IndexDeterminesBlock
      <4>4. QED
        BY <2>2, <4>2, <4>3
    <3>5. QED
      BY <2>2, <3>3, <3>4
  <2>3. QED
    BY <2>1, <2>2
<1>2. QED
  BY <1>1, Invariant, PTL

-----------------------------------------------------------------------------
(* The data.  A rank's result is what the callers are promised because the  *)
(* staging buffers hold its own launch when it reduces, and each peer's     *)
(* temporary buffer still holds the sums of its own launch when it gathers. *)

TwoStepKinds == {"two_stage", "two_shot", "fused_two_shot"}

(* The contributions that launch k of kind and size l owes to element i.    *)
Sums(k, i) == {<<p, k, i>> : p \in Ranks}

Wanted(l, k, i) ==
    IF l.kind = "all_gather" THEN {<<i \div l.size, k, i % l.size>>}
    ELSE UNION {Sums(k, j) : j \in SummedInto(l, i)}

ExpectedResults == {Service!Expected(k) : k \in 1 .. Len(program)}

(* The buffers and tensors have their shapes; a rank has one result for     *)
(* each launch it has completed.                                            *)
DataTyping ==
    /\ DOMAIN tmp = Slots /\ DOMAIN out = Ranks
    /\ \A s \in Slots : DOMAIN tmp[s] = Ranks
    /\ \A s \in Slots, r \in Ranks : DOMAIN tmp[s][r] = 0 .. MaxSize - 1
    /\ \A r \in Ranks : stage[r] # "idle" =>
          out[r] = [i \in OutIndices(Current(r)) |-> out[r][i]]
    /\ results \in [Ranks -> Seq(ExpectedResults)]
    /\ \A r \in Ranks : Len(results[r]) = position[r] - 1

(* A launch's kernels find its input in the staging buffer.                 *)
Staged(q) == stage[q] = "kernel" => staging[Current(q).slot][q] = position[q]

(* rank q's temporary buffer holds its sum of element i in launch k *)
HoldsSum(q, k, i) == tmp[program[k].slot][q][TmpIndex(program[k], q, i)] = Sums(k, i)

(* The sums a rank has computed in its launch are in its temporary buffer,  *)
(* and so are all those of the launch before as long as a rank is in it.    *)
SumsKept(q) ==
    /\ stage[q] = "kernel" /\ Current(q).kind \in TwoStepKinds =>
          \A i \in ReducedBy(Current(q), q) :
              block[q][ReduceBlock(Current(q), q, i)] >= 3 => HoldsSum(q, position[q], i)
    /\ \A r \in Ranks :
          position[q] = position[r] + 1 /\ program[position[r]].kind \in TwoStepKinds =>
              \A i \in ReducedBy(program[position[r]], q) : HoldsSum(q, position[r], i)

(* the gather of block b covers element i of the output *)
Covers(l, b, i) == \E f \in Fetches(l, b) : f.out \in SummedInto(l, i)

(* element i of rank r's output tensor has been written *)
Written(r, i) ==
    LET l == Current(r)
        GatheredBefore(n) == \E b \in Blocks : block[r][b] >= n /\ Covers(l, b, i)
    IN  \/ l.kind \in OneStageKinds /\ block[r][ReduceBlock(l, r, i)] >= 3
        \/ l.kind \in TwoStepKinds /\ GatheredBefore(5)
        \/ l.kind = "all_gather" /\ (kernel[r] = 3 \/ (kernel[r] = 2 /\ GatheredBefore(2)))

(* What has been written of an output tensor is right.                      *)
OutputRight(r) ==
    stage[r] = "kernel" =>
        \A i \in OutIndices(Current(r)) :
            Written(r, i) => out[r][i] = Wanted(Current(r), position[r], i)

DataInv ==
    /\ DataTyping
    /\ \A q \in Ranks : Staged(q)
    /\ \A q \in Ranks : SumsKept(q)
    /\ \A r \in Ranks : OutputRight(r)

-----------------------------------------------------------------------------
(* Which block touches which element.                                       *)

(* Division with a positive divisor.                                        *)
LEMMA DivMod ==
    ASSUME NEW a \in Nat, NEW n \in Nat \ {0}
    PROVE  /\ a \div n \in Nat /\ a % n \in 0 .. n - 1
           /\ n * (a \div n) \in Nat /\ a = n * (a \div n) + (a % n)
<1>1. a \div n \in Nat
  BY SMT
<1>2. a % n \in 0 .. n - 1
  BY SMT
<1>3. n * (a \div n) \in Nat
  BY <1>1, SMT
<1>4. a = n * (a \div n) + (a % n)
  BY SMT
<1>5. QED
  BY <1>1, <1>2, <1>3, <1>4

(* Multiples of n are n apart.                                              *)
LEMMA MultiplesApart ==
    ASSUME NEW n \in Nat, NEW p \in Int, NEW q \in Int, p < q
    PROVE  n * p \in Int /\ n * q \in Int /\ n * p + n <= n * q
<1>1. PICK d \in Nat : q = p + 1 + d
  <2>1. q - p - 1 \in Nat /\ q = p + 1 + (q - p - 1)
    BY SMT
  <2>2. QED
    BY <2>1
<1>2. n * q = n * p + n + n * d
  BY <1>1, SMT
<1>3. n * d >= 0 /\ n * d \in Int /\ n * p \in Int
  BY <1>1, SMT
<1>4. QED
  BY <1>2, <1>3, SMT

(* A quotient and a remainder are unique.                                   *)
LEMMA DivModUnique ==
    ASSUME NEW a \in Nat, NEW n \in Nat \ {0}, NEW q \in Int, NEW m \in 0 .. n - 1,
           a = n * q + m
    PROVE  a \div n = q /\ a % n = m
<1> DEFINE p == a \div n
           s == a % n
<1>1. p \in Nat /\ s \in 0 .. n - 1 /\ a = n * p + s
  BY DivMod
<1> HIDE DEF p, s
<1> DEFINE x == n * p
           y == n * q
<1>2. x \in Int /\ y \in Int
  BY <1>1, SMT
<1>3. /\ p < q => x + n <= y
      /\ q < p => y + n <= x
  BY <1>1, MultiplesApart
<1>4. x + s = y + m /\ (q = p => x = y)
  BY <1>1
<1> HIDE DEF x, y
<1>5. p = q /\ s = m
  BY <1>1, <1>2, <1>3, <1>4
<1>6. QED
  BY <1>5 DEF p, s

(* The parts of a launch, its extent and its grid.                          *)
LEMMA LaunchFacts ==
    ASSUME NEW l \in Launch
    PROVE  /\ NRanks \in Nat \ {0} /\ NRanks - 1 \in Ranks /\ RowSize \in Nat \ {0}
           /\ l.kind \in OneStageKinds \union TwoStepKinds \union {"all_gather"}
           /\ l.size \in Nat \ {0} /\ l.size <= MaxSize /\ MaxSize \in Nat
           /\ l.grid \in Nat \ {0} /\ l.grid <= MaxGrid /\ MaxGrid \in Nat
           /\ l.slot \in Slots
           /\ \A i : i \in Elements(l) <=> i \in Nat /\ i < l.size
           /\ \A b : b \in Blocks <=> b \in Nat /\ b < MaxGrid
           /\ \A q : q \in Ranks <=> q \in Nat /\ q < NRanks
<1>1. NRanks \in Nat \ {0} /\ MaxSize \in Nat /\ MaxGrid \in Nat /\ RowSize \in Nat \ {0}
  BY ProgramsAssumption, ResidencyAssumption
<1>2. /\ l.kind \in Kinds /\ l.size \in 1 .. MaxSize /\ l.grid \in 1 .. MaxGrid
      /\ l.slot \in Slots
  BY DEF Launch
<1>3. l.kind \in OneStageKinds \union TwoStepKinds \union {"all_gather"}
  BY <1>2 DEF Kinds, FusedKinds, OneStageKinds, TwoStepKinds
<1>4. l.size \in Nat \ {0} /\ l.size <= MaxSize /\ l.grid \in Nat \ {0} /\ l.grid <= MaxGrid
  BY <1>1, <1>2
<1>5. \A i : i \in Elements(l) <=> i \in Nat /\ i < l.size
  BY <1>4 DEF Elements
<1>6. /\ \A b : b \in Blocks <=> b \in Nat /\ b < MaxGrid
      /\ \A q : q \in Ranks <=> q \in Nat /\ q < NRanks
      /\ NRanks - 1 \in Ranks
  BY <1>1 DEF Blocks, Ranks
<1>7. QED
  BY <1>1, <1>2, <1>3, <1>4, <1>5, <1>6

(* The two-stage parts: rank q's starts at q * Part(l), and they fit.       *)
LEMMA PartFacts ==
    ASSUME NEW l \in Launch
    PROVE  /\ Part(l) \in Nat /\ NRanks * Part(l) \in Nat
           /\ l.size % NRanks \in Nat
           /\ l.size = NRanks * Part(l) + (l.size % NRanks)
           /\ \A q \in Ranks : /\ q * Part(l) \in Nat
                               /\ q * Part(l) + Part(l) <= NRanks * Part(l)
                               /\ (q + 1) * Part(l) = q * Part(l) + Part(l)
           /\ (NRanks - 1) * Part(l) + Part(l) = NRanks * Part(l)
<1>1. /\ NRanks \in Nat \ {0} /\ l.size \in Nat
      /\ \A q : q \in Ranks <=> q \in Nat /\ q < NRanks
  BY LaunchFacts
<1> DEFINE P == Part(l)
           m == l.size % NRanks
<1>2. P \in Nat /\ m \in 0 .. NRanks - 1 /\ NRanks * P \in Nat /\ l.size = NRanks * P + m
  BY <1>1, DivMod DEF Part
<1> HIDE DEF P, m
<1>3. ASSUME NEW q \in Ranks
      PROVE  /\ q * P \in Nat
             /\ q * P + P <= NRanks * P
             /\ (q + 1) * P = q * P + P
  <2>1. q \in Nat /\ q < NRanks
    BY <1>1
  <2>2. P * q + P <= P * NRanks
    BY <1>1, <1>2, <2>1, MultiplesApart
  <2>3. q * P = P * q /\ NRanks * P = P * NRanks /\ q * P \in Nat
    BY <1>1, <1>2, <2>1, SMT
  <2>4. (q + 1) * P = q * P + P
    BY <1>2, <2>1, SMT
  <2>5. QED
    BY <2>2, <2>3, <2>4
<1>4. (NRanks - 1) * P + P = NRanks * P
  <2>1. PICK q \in Ranks : q = NRanks - 1
    BY <1>1
  <2>2. q + 1 = NRanks
    BY <1>1, <2>1
  <2>3. (q + 1) * P = q * P + P
    BY <1>3
  <2>4. QED
    BY <2>1, <2>2, <2>3
<1>5. QED
  BY <1>1, <1>2, <1>3, <1>4 DEF P, m

(* A block number modulo the grid is one of the grid's.                     *)
LEMMA BlockOfFacts ==
    ASSUME NEW l \in Launch, NEW i \in Nat
    PROVE  BlockOf(l, i) \in Blocks /\ BlockOf(l, i) < l.grid
<1>1. /\ l.grid \in Nat \ {0} /\ l.grid <= MaxGrid /\ MaxGrid \in Nat
      /\ \A b : b \in Blocks <=> b \in Nat /\ b < MaxGrid
  BY LaunchFacts
<1>2. i % l.grid \in 0 .. l.grid - 1
  BY <1>1, DivMod
<1>3. QED
  BY <1>1, <1>2 DEF BlockOf

(* Below n parts, an index lies in one of n.                                *)
LEMMA QuotientBound ==
    ASSUME NEW a \in Nat, NEW p \in Nat \ {0}, NEW n \in Nat, a < p * n
    PROVE  a \div p \in 0 .. n - 1
<1> DEFINE q == a \div p
<1>1. q \in Nat /\ p * q <= a
  BY DivMod
<1> HIDE DEF q
<1>2. p * q < p * n
  BY <1>1
<1>3. q < n
  <2>1. SUFFICES ASSUME q >= n PROVE FALSE
    BY <1>1
  <2>2. p * q >= p * n
    BY <1>1, <2>1
  <2>3. QED
    BY <1>1, <1>2, <2>2
<1>4. QED
  BY <1>1, <1>3 DEF q

(* An element a rank reduces has a block of the grid, and a place of its    *)
(* own in the rank's temporary buffer.                                      *)
LEMMA ReducedFacts ==
    ASSUME NEW l \in Launch, l.kind # "all_gather", NEW q \in Ranks,
           NEW i \in ReducedBy(l, q)
    PROVE  /\ i \in Elements(l)
           /\ TmpIndex(l, q, i) \in 0 .. MaxSize - 1
           /\ ReduceBlock(l, q, i) \in Blocks /\ ReduceBlock(l, q, i) < l.grid
<1>1. /\ NRanks \in Nat \ {0} /\ RowSize \in Nat \ {0} /\ q \in Nat
      /\ l.kind \in OneStageKinds \union TwoStepKinds
      /\ l.size \in Nat \ {0} /\ l.size <= MaxSize /\ MaxSize \in Nat
      /\ \A x : x \in Elements(l) <=> x \in Nat /\ x < l.size
  BY LaunchFacts
<1>2. i \in Elements(l)
  BY <1>1 DEF ReducedBy, OneStageKinds, TwoStepKinds
<1>3. i \in Nat /\ i < l.size
  BY <1>1, <1>2
<1>4. CASE l.kind = "two_stage"
  <2>1. q * Part(l) \in Nat /\ q * Part(l) <= i
    <3>1. q * Part(l) <= i
      BY <1>4 DEF ReducedBy
    <3>2. QED
      BY <3>1, PartFacts
  <2>2. /\ TmpIndex(l, q, i) = i - q * Part(l)
        /\ ReduceBlock(l, q, i) = BlockOf(l, i - q * Part(l))
    BY <1>4 DEF TmpIndex, ReduceBlock, FusedKinds
  <2> DEFINE s == q * Part(l)
  <2>3. s \in Nat /\ s <= i
    BY <2>1
  <2>4. TmpIndex(l, q, i) = i - s /\ ReduceBlock(l, q, i) = BlockOf(l, i - s)
    BY <2>2
  <2> HIDE DEF s
  <2>5. i - s \in Nat /\ i - s < l.size
    BY <1>1, <1>3, <2>3
  <2>6. QED
    BY <1>1, <1>2, <2>4, <2>5, BlockOfFacts
<1>5. CASE l.kind # "two_stage"
  <2>1. TmpIndex(l, q, i) = i /\ i \in 0 .. MaxSize - 1
    BY <1>1, <1>3, <1>5 DEF TmpIndex
  <2>2. i \div NRanks \in Nat /\ RowOf(i) \in Nat
    BY <1>1, <1>3, DivMod DEF RowOf
  <2>3. \/ ReduceBlock(l, q, i) = BlockOf(l, i)
        \/ ReduceBlock(l, q, i) = BlockOf(l, i \div NRanks)
        \/ ReduceBlock(l, q, i) = BlockOf(l, RowOf(i))
    BY <1>1, <1>5 DEF ReduceBlock, OneStageKinds, TwoStepKinds, FusedKinds
  <2>4. QED
    BY <1>2, <1>3, <2>1, <2>2, <2>3, BlockOfFacts
<1>6. QED
  BY <1>4, <1>5

(* No two elements share a place.                                           *)
LEMMA PlacesDistinct ==
    ASSUME NEW l \in Launch, l.kind # "all_gather", NEW q \in Ranks,
           NEW i \in ReducedBy(l, q), NEW j \in ReducedBy(l, q),
           TmpIndex(l, q, i) = TmpIndex(l, q, j)
    PROVE  i = j
<1>1. i \in Nat /\ j \in Nat
  BY ReducedFacts, LaunchFacts
<1>2. CASE l.kind = "two_stage"
  <2> DEFINE s == q * Part(l)
  <2>1. s \in Nat
    BY PartFacts
  <2>2. i - s = j - s
    BY <1>2 DEF TmpIndex
  <2> HIDE DEF s
  <2>3. QED
    BY <1>1, <2>1, <2>2
<1>3. CASE l.kind # "two_stage"
  BY <1>3 DEF TmpIndex
<1>4. QED
  BY <1>2, <1>3

(* What the gather of block b fetches: a sum another block of its row has   *)
(* computed, from the place where that rank keeps it, or, in an all-gather, *)
(* an element of a rank's shard.                                            *)
LEMMA FetchFacts ==
    ASSUME NEW l \in Launch, l.kind \notin OneStageKinds, NEW b, NEW f \in Fetches(l, b)
    PROVE  /\ f.from \in Ranks
           /\ l.kind \in TwoStepKinds =>
                 /\ f.out \in ReducedBy(l, f.from)
                 /\ f.at = TmpIndex(l, f.from, f.out)
                 /\ ReduceBlock(l, f.from, f.out) = b
           /\ l.kind = "all_gather" =>
                 f.at \in Elements(l) /\ f.out = f.from * l.size + f.at
<1>1. /\ NRanks \in Nat \ {0} /\ NRanks - 1 \in Ranks /\ RowSize \in Nat \ {0}
      /\ l.size \in Nat \ {0}
      /\ \A x : x \in Elements(l) <=> x \in Nat /\ x < l.size
      /\ \A p : p \in Ranks <=> p \in Nat /\ p < NRanks
  BY LaunchFacts
<1>2. CASE l.kind = "two_stage"
  <2> DEFINE P == Part(l)
             m == l.size % NRanks
  <2>1. f \in TwoStageFetches(l, b)
    BY <1>2 DEF Fetches
  <2>2. PICK i \in 0 .. P + m - 1, q \in Ranks :
            /\ f = Fetch(q * P + i, q, i)
            /\ BlockOf(l, i) = b
            /\ q = NRanks - 1 \/ i < P
    BY <2>1, Zenon DEF TwoStageFetches
  <2>3. f.from = q /\ f.at = i /\ f.out = q * P + i
    BY <2>2 DEF Fetch
  <2>4. /\ P \in Nat /\ m \in Nat /\ q * P \in Nat /\ NRanks * P \in Nat
        /\ l.size = NRanks * P + m
        /\ q * P + P <= NRanks * P
        /\ (q + 1) * P = q * P + P
        /\ (NRanks - 1) * P + P = NRanks * P
    BY PartFacts
  <2> HIDE DEF P, m
  <2> DEFINE s == q * P
             t == NRanks * P
  <2>5. /\ s \in Nat /\ t \in Nat /\ P \in Nat /\ m \in Nat /\ i \in Nat
        /\ l.size = t + m /\ s + P <= t /\ (q + 1) * P = s + P
        /\ q = NRanks - 1 => s + P = t
        /\ i < P + m /\ (q = NRanks - 1 \/ i < P)
    BY <2>2, <2>4
  <2>6. f.out = s + i
    BY <2>3
  <2> HIDE DEF s, t
  <2>7. s + i \in Nat /\ s + i < l.size /\ s <= s + i /\ (s + i) - s = i
    BY <2>5
  <2>8. q = NRanks - 1 \/ s + i < (q + 1) * P
    BY <2>5
  <2>9. s + i \in ReducedBy(l, q)
    <3>1. ReducedBy(l, q) = {x \in Elements(l) : /\ s <= x
                                                 /\ q = NRanks - 1 \/ x < (q + 1) * P}
      BY <1>2 DEF ReducedBy, s, P
    <3>2. QED
      BY <1>1, <2>7, <2>8, <3>1
  <2>10. TmpIndex(l, q, s + i) = i /\ ReduceBlock(l, q, s + i) = b
    <3>1. /\ TmpIndex(l, q, s + i) = (s + i) - s
          /\ ReduceBlock(l, q, s + i) = BlockOf(l, (s + i) - s)
      BY <1>2 DEF TmpIndex, ReduceBlock, FusedKinds, s, P
    <3>2. QED
      BY <2>2, <2>7, <3>1
  <2>11. QED
    BY <1>2, <2>2, <2>3, <2>6, <2>9, <2>10 DEF TwoStepKinds
<1>3. CASE l.kind = "two_shot"
  <2>1. f \in TwoShotFetches(l, b)
    BY <1>3 DEF Fetches
  <2>2. PICK i \in Elements(l) : /\ f = Fetch(i, i % NRanks, i)
                                 /\ BlockOf(l, i \div NRanks) = b
    BY <2>1 DEF TwoShotFetches
  <2>3. f.from = i % NRanks /\ f.at = i /\ f.out = i
    BY <2>2 DEF Fetch
  <2>4. i % NRanks \in Ranks
    <3>1. i \in Nat
      BY <1>1
    <3>2. QED
      BY <1>1, <3>1, DivMod DEF Ranks
  <2>5. i \in ReducedBy(l, i % NRanks)
    BY <1>3 DEF ReducedBy
  <2>6. TmpIndex(l, i % NRanks, i) = i
    BY <1>3 DEF TmpIndex
  <2>7. ReduceBlock(l, i % NRanks, i) = b
    BY <1>3, <2>2 DEF ReduceBlock, FusedKinds
  <2>8. QED
    BY <1>3, <2>3, <2>4, <2>5, <2>6, <2>7
<1>4. CASE l.kind = "fused_two_shot"
  <2>1. f \in FusedFetches(l, b)
    BY <1>4 DEF Fetches
  <2>2. PICK i \in Elements(l) : f = Fetch(i, Owner(i), i) /\ BlockOf(l, RowOf(i)) = b
    BY <2>1 DEF FusedFetches
  <2>3. f.from = Owner(i) /\ f.at = i /\ f.out = i
    BY <2>2 DEF Fetch
  <2>4. Owner(i) \in Ranks
    <3>1. i \in Nat
      BY <1>1
    <3>2. i % RowSize \in Nat
      BY <1>1, <3>1, DivMod
    <3> DEFINE column == i % RowSize
               part == RowSize \div NRanks
    <3>3. CASE IsPowerOfTwo(NRanks)
      BY <1>1, <3>2, <3>3, DivMod DEF Ranks, Owner
    <3>4. CASE ~ IsPowerOfTwo(NRanks) /\ (part = 0 \/ column >= part * NRanks)
      <4>1. Owner(i) = NRanks - 1
        BY <3>4 DEF Owner
      <4>2. QED
        BY <1>1, <4>1 DEF Ranks
    <3>5. CASE ~ IsPowerOfTwo(NRanks) /\ ~ (part = 0 \/ column >= part * NRanks)
      <4>1. Owner(i) = column \div part
        BY <3>5 DEF Owner
      <4>2. part \in Nat /\ column \in Nat
        BY <1>1, <3>2, DivMod
      <4> HIDE DEF part, column
      <4>3. part \in Nat \ {0} /\ column < part * NRanks
        <5>1. part * NRanks \in Nat
          BY <1>1, <4>2
        <5>2. QED
          BY <3>5, <4>2, <5>1
      <4>4. column \div part \in 0 .. NRanks - 1
        BY <1>1, <4>2, <4>3, QuotientBound
      <4>5. QED
        BY <4>1, <4>4 DEF Ranks
    <3>6. QED
      BY <3>3, <3>4, <3>5
  <2>5. i \in ReducedBy(l, Owner(i))
    BY <1>4 DEF ReducedBy
  <2>6. TmpIndex(l, Owner(i), i) = i
    BY <1>4 DEF TmpIndex
  <2>7. ReduceBlock(l, Owner(i), i) = b
    BY <1>4, <2>2 DEF ReduceBlock, FusedKinds
  <2>8. QED
    BY <1>4, <2>3, <2>4, <2>5, <2>6, <2>7
<1>5. CASE l.kind = "all_gather"
  <2>1. f \in AllGatherFetches(l, b)
    BY <1>5 DEF Fetches
  <2>2. PICK c \in Ranks \X Elements(l) : f = Fetch(c[1] * l.size + c[2], c[1], c[2])
    BY <2>1 DEF AllGatherFetches
  <2>3. QED
    BY <1>5, <2>2 DEF Fetch, TwoStepKinds
<1>6. QED
  BY <1>2, <1>3, <1>4, <1>5, LaunchFacts DEF TwoStepKinds

(* the grid of the kernel that gathers *)
GatherGrid(l) == IF l.kind = "all_gather" THEN AllGatherGrid(l) ELSE l.grid

(* The gathers of the grid's blocks cover the output.                       *)
LEMMA GathersCover ==
    ASSUME NEW l \in Launch, l.kind \notin OneStageKinds, NEW i \in OutIndices(l)
    PROVE  \E b \in Blocks : b < GatherGrid(l) /\ Covers(l, b, i)
<1>1. /\ NRanks \in Nat \ {0} /\ NRanks - 1 \in Ranks /\ RowSize \in Nat \ {0}
      /\ l.size \in Nat \ {0}
      /\ \A x : x \in Elements(l) <=> x \in Nat /\ x < l.size
      /\ \A p : p \in Ranks <=> p \in Nat /\ p < NRanks
  BY LaunchFacts
<1>2. CASE l.kind = "two_stage"
  <2> DEFINE P == Part(l)
             m == l.size % NRanks
  <2>1. /\ P \in Nat /\ m \in Nat /\ NRanks * P \in Nat
        /\ l.size = NRanks * P + m
        /\ (NRanks - 1) * P \in Nat
        /\ (NRanks - 1) * P + P = NRanks * P
    BY <1>1, PartFacts
  <2>2. i \in Nat /\ i < l.size /\ i \in SummedInto(l, i)
    BY <1>1, <1>2 DEF OutIndices, SummedInto, FusedKinds
  <2>3. \E q \in Ranks : /\ q * P \in Nat /\ q * P <= i
                         /\ i - q * P < P + m
                         /\ q = NRanks - 1 \/ i - q * P < P
    <3> HIDE DEF P, m
    <3>1. CASE (NRanks - 1) * P <= i
      <4> DEFINE s == (NRanks - 1) * P
                 t == NRanks * P
      <4>1. s \in Nat /\ s <= i /\ s + P = t /\ i < t + m /\ t \in Nat
        BY <2>1, <2>2, <3>1
      <4> HIDE DEF s, t
      <4>2. i - s < P + m
        BY <2>1, <2>2, <4>1
      <4>3. QED
        BY <1>1, <4>1, <4>2 DEF s
    <3>2. CASE i < (NRanks - 1) * P
      <4>1. P \in Nat \ {0}
        <5>1. P = 0 => (NRanks - 1) * P = 0
          BY <1>1
        <5>2. QED
          BY <2>1, <2>2, <3>2, <5>1
      <4>2. PICK q, u : q = i \div P /\ u = i % P
        OBVIOUS
      <4>3. q \in Nat /\ u \in 0 .. P - 1 /\ P * q \in Nat /\ i = P * q + u
        BY <2>2, <4>1, <4>2, DivMod
      <4>4. q < NRanks - 1
        <5> SUFFICES ASSUME NRanks - 1 <= q PROVE FALSE
          BY <1>1, <4>3
        <5>1. P * (NRanks - 1) <= P * q
          <6>1. CASE NRanks - 1 < q
            <7>1. P * (NRanks - 1) + P <= P * q /\ P * (NRanks - 1) \in Int
              BY <1>1, <2>1, <4>3, <6>1, MultiplesApart
            <7>2. QED
              BY <2>1, <4>3, <7>1
          <6>2. CASE NRanks - 1 = q
            BY <4>3, <6>2
          <6>3. QED
            BY <1>1, <4>3, <6>1, <6>2
        <5>2. P * (NRanks - 1) = (NRanks - 1) * P
          BY <1>1, <2>1
        <5> DEFINE x == P * q
                   y == (NRanks - 1) * P
        <5>3. y <= x /\ x \in Nat /\ y \in Nat /\ i = x + u /\ i < y
          BY <2>1, <3>2, <4>3, <5>1, <5>2
        <5> HIDE DEF x, y
        <5>4. QED
          BY <4>3, <5>3
      <4>5. q \in Ranks
        BY <1>1, <4>3, <4>4
      <4>6. q * P = P * q
        BY <2>1, <4>3
      <4> DEFINE s == q * P
      <4>7. s \in Nat /\ i = s + u
        BY <4>3, <4>6
      <4> HIDE DEF s
      <4>8. s <= i /\ i - s < P + m /\ i - s < P
        BY <2>1, <2>2, <4>3, <4>7
      <4>9. QED
        BY <4>5, <4>7, <4>8 DEF s
    <3>3. QED
      BY <2>1, <2>2, <3>1, <3>2
  <2>4. PICK q \in Ranks : /\ q * P \in Nat /\ q * P <= i
                           /\ i - q * P < P + m
                           /\ q = NRanks - 1 \/ i - q * P < P
    BY <2>3
  <2>5. PICK k : k = i - q * P
    OBVIOUS
  <2>6. k \in 0 .. P + m - 1 /\ i = q * P + k /\ (q = NRanks - 1 \/ k < P)
    <3> DEFINE s == q * P
    <3>1. s \in Nat /\ s <= i /\ i - s < P + m /\ k = i - s /\ P \in Nat /\ m \in Nat
      BY <2>1, <2>4, <2>5
    <3> HIDE DEF s, P, m
    <3>2. k \in 0 .. P + m - 1 /\ i = s + k
      BY <2>2, <3>1
    <3>3. q = NRanks - 1 \/ k < P
      BY <2>4, <2>5
    <3>4. QED
      BY <3>2, <3>3 DEF s
  <2>7. PICK b \in Blocks : b = BlockOf(l, k) /\ b < l.grid
    <3>1. k \in Nat
      BY <2>1, <2>6
    <3>2. QED
      BY <3>1, BlockOfFacts
  <2>8. Fetch(q * P + k, q, k) \in TwoStageFetches(l, b)
    BY <2>6, <2>7 DEF TwoStageFetches
  <2>9. Fetch(i, q, k) \in Fetches(l, b)
    BY <1>2, <2>6, <2>8 DEF Fetches
  <2>10. Covers(l, b, i)
    BY <2>2, <2>9 DEF Covers, Fetch
  <2>11. QED
    BY <1>2, <2>7, <2>10 DEF GatherGrid
<1>3. CASE l.kind = "two_shot"
  <2>1. i \in Elements(l) /\ i \in SummedInto(l, i)
    BY <1>3 DEF OutIndices, SummedInto, FusedKinds
  <2>2. i \div NRanks \in Nat
    BY <1>1, <2>1, DivMod
  <2>3. PICK b \in Blocks : b = BlockOf(l, i \div NRanks) /\ b < l.grid
    BY <2>2, BlockOfFacts
  <2>4. Fetch(i, i % NRanks, i) \in Fetches(l, b)
    BY <1>3, <2>1, <2>3 DEF Fetches, TwoShotFetches
  <2>5. QED
    BY <1>3, <2>1, <2>3, <2>4 DEF Covers, Fetch, GatherGrid
<1>4. CASE l.kind = "fused_two_shot"
  <2>1. i \in Elements(l) /\ i \in SummedInto(l, i)
    BY <1>4 DEF OutIndices, SummedInto, FusedKinds
  <2>2. RowOf(i) \in Nat
    BY <1>1, <2>1, DivMod DEF RowOf
  <2>3. PICK b \in Blocks : b = BlockOf(l, RowOf(i)) /\ b < l.grid
    BY <2>2, BlockOfFacts
  <2>4. Fetch(i, Owner(i), i) \in Fetches(l, b)
    BY <1>4, <2>1, <2>3 DEF Fetches, FusedFetches
  <2>5. QED
    BY <1>4, <2>1, <2>3, <2>4 DEF Covers, Fetch, GatherGrid
<1>5. CASE l.kind = "all_gather"
  <2>1. i \in Nat /\ i < NRanks * l.size /\ NRanks * l.size \in Nat
    <3>1. i \in 0 .. NRanks * l.size - 1
      BY <1>5 DEF OutIndices
    <3>2. NRanks * l.size \in Nat
      BY <1>1, SMT
    <3> DEFINE x == NRanks * l.size
    <3> HIDE DEF x
    <3>3. i \in 0 .. x - 1 /\ x \in Nat
      BY <3>1, <3>2 DEF x
    <3>4. i \in Nat /\ i < x
      BY <3>3
    <3>5. QED
      BY <3>2, <3>4 DEF x
  <2>2. PICK q, j : q = i \div l.size /\ j = i % l.size
    OBVIOUS
  <2>3. q \in Nat /\ j \in 0 .. l.size - 1 /\ l.size * q \in Nat /\ i = l.size * q + j
    BY <1>1, <2>1, <2>2, DivMod
  <2>4. q < NRanks
    <3> SUFFICES ASSUME NRanks <= q PROVE FALSE
      BY <1>1, <2>3
    <3>1. l.size * NRanks <= l.size * q
      <4>1. CASE NRanks < q
        <5>1. l.size * NRanks + l.size <= l.size * q /\ l.size * NRanks \in Int
          BY <1>1, <2>3, <4>1, MultiplesApart
        <5>2. QED
          BY <1>1, <2>3, <5>1
      <4>2. CASE NRanks = q
        BY <2>3, <4>2
      <4>3. QED
        BY <1>1, <2>3, <4>1, <4>2
    <3>2. l.size * NRanks = NRanks * l.size
      BY <1>1
    <3> DEFINE x == l.size * q
               y == NRanks * l.size
    <3>3. y <= x /\ x \in Nat /\ y \in Nat /\ i = x + j /\ i < y
      BY <2>1, <2>3, <3>1, <3>2
    <3> HIDE DEF x, y
    <3>4. QED
      BY <1>1, <2>3, <3>3
  <2>5. q \in Ranks /\ j \in Elements(l) /\ i = q * l.size + j
    <3>1. q * l.size = l.size * q
      BY <1>1, <2>3
    <3>2. j \in Nat /\ j < l.size
      BY <1>1, <2>3
    <3>3. QED
      BY <1>1, <2>3, <2>4, <3>1, <3>2
  <2>6. i \in SummedInto(l, i)
    BY <1>5 DEF SummedInto, FusedKinds
  <2> DEFINE grid == AllGatherGrid(l)
             Copies(b) == IF grid >= NRanks
                          THEN b % NRanks = q /\ j % (grid \div NRanks) = b \div NRanks
                          ELSE q % grid = b
  <2>7. ASSUME NEW b \in Blocks, b < grid, Copies(b)
        PROVE  \E c \in Blocks : c < GatherGrid(l) /\ Covers(l, c, i)
    <3>1. <<q, j>> \in Ranks \X Elements(l) /\ <<q, j>>[1] = q /\ <<q, j>>[2] = j
      BY <2>5
    <3>2. Fetch(q * l.size + j, q, j) \in AllGatherFetches(l, b)
      BY <2>7, <3>1, Zenon DEF AllGatherFetches
    <3>3. Fetch(i, q, j) \in Fetches(l, b)
      BY <1>5, <2>5, <3>2 DEF Fetches
    <3>4. Covers(l, b, i)
      BY <2>6, <3>3 DEF Covers, Fetch
    <3>5. QED
      BY <1>5, <2>7, <3>4 DEF GatherGrid
  <2>8. /\ l.grid \in Nat \ {0} /\ l.grid <= MaxGrid /\ MaxGrid \in Nat
        /\ \A b : b \in Blocks <=> b \in Nat /\ b < MaxGrid
    BY LaunchFacts
  <2>9. CASE l.grid >= NRanks
    <3>1. PICK g : g = l.grid \div NRanks
      OBVIOUS
    <3>2. g \in Nat /\ NRanks * g \in Nat /\ NRanks * g <= l.grid /\ g # 0
      <4>1. PICK x, u : x = NRanks * g /\ u = l.grid % NRanks
        OBVIOUS
      <4>2. g \in Nat /\ x \in Nat /\ u \in 0 .. NRanks - 1 /\ l.grid = x + u
        BY <1>1, <2>8, <3>1, <4>1, DivMod
      <4>3. g = 0 => x = 0
        BY <1>1, <4>1
      <4>4. QED
        BY <1>1, <2>8, <2>9, <4>1, <4>2, <4>3
    <3>3. grid = g * NRanks /\ grid = NRanks * g /\ grid \in Nat
      BY <1>1, <2>9, <3>1, <3>2 DEF AllGatherGrid
    <3>4. grid \div NRanks = g
      <4>1. grid = NRanks * g + 0 /\ 0 \in 0 .. NRanks - 1
        BY <1>1, <3>2, <3>3
      <4>2. QED
        BY <1>1, <3>2, <3>3, <4>1, DivModUnique
    <3>5. grid >= NRanks
      <4>1. NRanks * 0 + NRanks <= NRanks * g
        BY <1>1, <3>2, MultiplesApart
      <4>2. NRanks * 0 = 0
        BY <1>1
      <4>3. QED
        BY <1>1, <3>3, <4>1, <4>2
    <3>6. PICK h : h = j % g
      OBVIOUS
    <3>7. h \in Nat /\ h < g
      <4>1. j \in Nat
        BY <1>1, <2>3
      <4>2. h \in 0 .. g - 1
        BY <3>2, <3>6, <4>1, DivMod
      <4>3. QED
        BY <3>2, <4>2
    <3>8. PICK b : b = NRanks * h + q
      OBVIOUS
    <3>9. b \in Nat /\ b < grid
      <4> DEFINE x == NRanks * h
                 y == NRanks * g
      <4>1. x \in Int /\ x + NRanks <= y
        BY <1>1, <3>2, <3>7, MultiplesApart
      <4>2. x \in Nat /\ b = x + q /\ grid = y /\ y \in Nat
        BY <1>1, <3>2, <3>3, <3>7, <3>8
      <4> HIDE DEF x, y, grid
      <4>3. QED
        BY <1>1, <2>3, <2>4, <4>1, <4>2
    <3>10. b \div NRanks = h /\ b % NRanks = q
      <4>1. q \in 0 .. NRanks - 1
        BY <1>1, <2>3, <2>4
      <4>2. QED
        BY <1>1, <3>7, <3>8, <3>9, <4>1, DivModUnique
    <3>11. b \in Blocks
      BY <2>8, <3>2, <3>3, <3>9
    <3>12. Copies(b)
      BY <3>4, <3>5, <3>6, <3>10
    <3>13. QED
      BY <2>7, <3>9, <3>11, <3>12
  <2>10. CASE l.grid < NRanks
    <3>1. grid = l.grid /\ ~ (grid >= NRanks)
      BY <1>1, <2>8, <2>10 DEF AllGatherGrid
    <3>2. PICK b : b = q % grid
      OBVIOUS
    <3>3. b \in 0 .. l.grid - 1
      BY <2>3, <2>8, <3>1, <3>2, DivMod
    <3>4. b \in Blocks /\ b < grid
      BY <2>8, <3>1, <3>3
    <3>5. Copies(b)
      BY <3>1, <3>2
    <3>6. QED
      BY <2>7, <3>4, <3>5
  <2>11. QED
    BY <1>1, <2>8, <2>9, <2>10
<1>6. QED
  BY <1>2, <1>3, <1>4, <1>5, LaunchFacts DEF TwoStepKinds

(* A block that gathers an element of a row gathers the row.                *)
LEMMA GathersWhole ==
    ASSUME NEW l \in Launch, l.kind \in TwoStepKinds, NEW i, NEW b,
           NEW f \in Fetches(l, b), f.out \in SummedInto(l, i), NEW j \in SummedInto(l, i)
    PROVE  \E g \in Fetches(l, b) : g.out = j
<1>1. CASE l.kind \notin FusedKinds
  BY <1>1 DEF SummedInto
<1>2. CASE l.kind \in FusedKinds
  <2>1. l.kind = "fused_two_shot"
    BY <1>2 DEF TwoStepKinds, FusedKinds
  <2>2. Fetches(l, b) = FusedFetches(l, b)
    BY <2>1 DEF Fetches
  <2>3. PICK e \in Elements(l) : f = Fetch(e, Owner(e), e) /\ BlockOf(l, RowOf(e)) = b
    BY <2>2 DEF FusedFetches
  <2>4. f.out = e
    BY <2>3 DEF Fetch
  <2>5. j \in Elements(l) /\ RowOf(j) = RowOf(e)
    BY <1>2, <2>4 DEF SummedInto
  <2>6. Fetch(j, Owner(j), j) \in FusedFetches(l, b)
    BY <2>3, <2>5 DEF FusedFetches
  <2>7. Fetch(j, Owner(j), j).out = j
    BY DEF Fetch
  <2>8. QED
    BY <2>2, <2>6, <2>7
<1>3. QED
  BY <1>1, <1>2

(* An all-gather puts a rank's shard where the rank's number says.          *)
LEMMA ShardPlace ==
    ASSUME NEW l \in Launch, l.kind = "all_gather", NEW b, NEW f \in Fetches(l, b)
    PROVE  f.out \div l.size = f.from /\ f.out % l.size = f.at
<1>1. /\ l.size \in Nat \ {0}
      /\ \A x : x \in Elements(l) <=> x \in Nat /\ x < l.size
      /\ \A p : p \in Ranks <=> p \in Nat /\ p < NRanks
  BY LaunchFacts
<1>2. f.from \in Ranks /\ f.at \in Elements(l) /\ f.out = f.from * l.size + f.at
  BY FetchFacts DEF OneStageKinds
<1>3. PICK q, u : q = f.from /\ u = f.at
  OBVIOUS
<1>4. q \in Nat /\ u \in 0 .. l.size - 1
  BY <1>1, <1>2, <1>3
<1>5. l.size * q \in Nat /\ q * l.size = l.size * q
  BY <1>1, <1>4, SMT
<1>6. f.out = l.size * q + u /\ f.out \in Nat
  <2> DEFINE x == l.size * q
  <2>1. x \in Nat /\ f.out = x + u
    BY <1>2, <1>3, <1>5
  <2> HIDE DEF x
  <2>2. f.out \in Nat
    BY <1>1, <1>4, <2>1
  <2>3. QED
    BY <2>1, <2>2 DEF x
<1>7. f.out \div l.size = q /\ f.out % l.size = u
  BY <1>1, <1>4, <1>6, DivModUnique
<1>8. QED
  BY <1>3, <1>7

(* The row of an element, as a range.                                       *)
LEMMA RowIsRange ==
    ASSUME NEW l \in Launch, l.size % RowSize = 0, NEW i \in Elements(l)
    PROVE  {j \in Elements(l) : RowOf(j) = RowOf(i)} = Service!Row(i)
<1>1. /\ RowSize \in Nat \ {0} /\ l.size \in Nat \ {0}
      /\ \A x : x \in Elements(l) <=> x \in Nat /\ x < l.size
  BY LaunchFacts
<1>2. PICK c, w : c = i \div RowSize /\ w = l.size \div RowSize
  OBVIOUS
<1>3. /\ c \in Nat /\ RowSize * c \in Nat
      /\ \E u \in 0 .. RowSize - 1 : i = RowSize * c + u
      /\ w \in Nat /\ RowSize * w \in Nat /\ l.size = RowSize * w + 0
  <2>1. i \in Nat
    BY <1>1
  <2>2. /\ c \in Nat /\ i % RowSize \in 0 .. RowSize - 1
        /\ RowSize * c \in Nat /\ i = RowSize * c + (i % RowSize)
    BY <1>1, <1>2, <2>1, DivMod
  <2>3. w \in Nat /\ RowSize * w \in Nat /\ l.size = RowSize * w + (l.size % RowSize)
    BY <1>1, <1>2, DivMod
  <2>4. QED
    BY <2>2, <2>3
<1>4. PICK x : x = RowSize * c
  OBVIOUS
<1>5. x \in Nat /\ x + RowSize <= l.size
  <2>1. c < w
    <3> SUFFICES ASSUME w <= c PROVE FALSE
      BY <1>3
    <3>1. RowSize * w <= RowSize * c
      <4>1. CASE w < c
        <5>1. RowSize * w + RowSize <= RowSize * c
          BY <1>1, <1>3, <4>1, MultiplesApart
        <5>2. QED
          BY <1>1, <1>3, <5>1
      <4>2. CASE w = c
        BY <1>3, <4>2
      <4>3. QED
        BY <1>3, <4>1, <4>2
    <3> DEFINE y == RowSize * w
    <3>2. y <= x /\ y \in Nat /\ x \in Nat /\ l.size = y + 0
      BY <1>3, <1>4, <3>1
    <3>3. PICK u \in 0 .. RowSize - 1 : i = x + u
      BY <1>3, <1>4
    <3> HIDE DEF y
    <3>4. QED
      BY <1>1, <3>2, <3>3
  <2>2. RowSize * c + RowSize <= RowSize * w
    BY <1>1, <1>3, <2>1, MultiplesApart
  <2>3. QED
    BY <1>1, <1>3, <1>4, <2>2
<1>6. Service!Row(i) = x .. x + RowSize - 1
  <2>1. Service!Row(i) = c * RowSize .. c * RowSize + RowSize - 1
    BY <1>2 DEF Service!Row
  <2>2. c * RowSize = x
    BY <1>1, <1>3, <1>4
  <2>3. QED
    BY <2>1, <2>2
<1>7. ASSUME NEW j \in Elements(l), RowOf(j) = RowOf(i) PROVE j \in x .. x + RowSize - 1
  <2>1. j \in Nat /\ j \div RowSize = c
    BY <1>1, <1>2, <1>7 DEF RowOf
  <2>2. j % RowSize \in 0 .. RowSize - 1 /\ j = x + (j % RowSize)
    BY <1>1, <1>4, <2>1, DivMod
  <2>3. QED
    BY <1>1, <1>5, <2>2
<1>8. ASSUME NEW j \in x .. x + RowSize - 1
      PROVE  j \in Elements(l) /\ RowOf(j) = RowOf(i)
  <2>1. PICK u \in 0 .. RowSize - 1 : j = x + u
    <3>1. j - x \in 0 .. RowSize - 1 /\ j = x + (j - x)
      BY <1>1, <1>5
    <3>2. QED
      BY <3>1
  <2>2. j \in Nat /\ j < l.size
    BY <1>1, <1>5
  <2>3. j \div RowSize = c
    BY <1>1, <1>3, <1>4, <2>1, <2>2, DivModUnique
  <2>4. QED
    BY <1>1, <1>2, <2>2, <2>3 DEF RowOf
<1>9. QED
  BY <1>6, <1>7, <1>8

(* What the callers are promised of launch k, element by element.           *)
LEMMA ExpectedResult ==
    ASSUME Typing, NEW k \in 1 .. Len(program)
    PROVE  Service!Expected(k)
              = [i \in OutIndices(program[k]) |-> Wanted(program[k], k, i)]
<1>1. /\ program[k] \in Launch
      /\ program[k].kind \in FusedKinds => program[k].size % RowSize = 0
  <2>1. program \in Programs
    BY DEF Typing
  <2>2. program \in Seq(Launch)
    BY <2>1, ProgramsAssumption
  <2>3. QED
    BY <2>1, <2>2, ProgramsAssumption
<1>2. PICK l : l = program[k]
  OBVIOUS
<1>3. Service!Ranks = Ranks /\ Service!FusedKinds = FusedKinds
  BY DEF Service!Ranks, Ranks, Service!FusedKinds, FusedKinds
<1>4. CASE l.kind = "all_gather"
  <2>1. Service!Expected(k) = [j \in 0 .. NRanks * l.size - 1 |->
                                  {<<j \div l.size, k, j % l.size>>}]
    BY <1>2, <1>4 DEF Service!Expected, Service!Contribution
  <2>2. /\ OutIndices(l) = 0 .. NRanks * l.size - 1
        /\ \A i : Wanted(l, k, i) = {<<i \div l.size, k, i % l.size>>}
    BY <1>4 DEF OutIndices, Wanted
  <2>3. QED
    BY <1>2, <2>1, <2>2
<1>5. CASE l.kind # "all_gather"
  <2> DEFINE T(i) == IF l.kind \in FusedKinds THEN Service!Row(i) ELSE {i}
  <2>1. Service!Expected(k) = [i \in Elements(l) |-> {<<q, k, j>> : q \in Ranks, j \in T(i)}]
    <3> DEFINE S(i) ==
                   {Service!Contribution(q, k, j) : q \in Service!Ranks,
                       j \in IF l.kind \in Service!FusedKinds THEN Service!Row(i) ELSE {i}}
               U(i) == {<<q, k, j>> : q \in Ranks, j \in T(i)}
    <3>1. ASSUME NEW i PROVE S(i) = U(i)
      BY <1>3 DEF Service!Contribution
    <3>2. Service!Expected(k) = [i \in 0 .. l.size - 1 |-> S(i)]
      BY <1>2, <1>5 DEF Service!Expected
    <3> HIDE DEF S, U
    <3>3. Service!Expected(k) = [i \in Elements(l) |-> U(i)]
      BY <3>1, <3>2 DEF Elements
    <3>4. QED
      BY <3>3 DEF U
  <2>2. OutIndices(l) = Elements(l)
    BY <1>5 DEF OutIndices
  <2>3. ASSUME NEW i \in Elements(l) PROVE T(i) = SummedInto(l, i)
    <3>1. CASE l.kind \in FusedKinds
      <4>1. SummedInto(l, i) = {j \in Elements(l) : RowOf(j) = RowOf(i)}
        BY <3>1 DEF SummedInto
      <4>2. {j \in Elements(l) : RowOf(j) = RowOf(i)} = Service!Row(i)
        BY <1>1, <1>2, <3>1, RowIsRange
      <4>3. QED
        BY <3>1, <4>1, <4>2
    <3>2. CASE l.kind \notin FusedKinds
      BY <3>2 DEF SummedInto
    <3>3. QED
      BY <3>1, <3>2
  <2> HIDE DEF T
  <2>4. ASSUME NEW i \in Elements(l)
        PROVE  {<<q, k, j>> : q \in Ranks, j \in T(i)} = Wanted(l, k, i)
    <3>1. Wanted(l, k, i) = UNION {Sums(k, j) : j \in T(i)}
      BY <1>5, <2>3 DEF Wanted
    <3>2. ASSUME NEW z PROVE z \in {<<q, k, j>> : q \in Ranks, j \in T(i)}
                             <=> \E j \in T(i) : z \in Sums(k, j)
      BY DEF Sums
    <3>3. QED
      BY <3>1, <3>2
  <2>5. QED
    BY <1>2, <2>1, <2>2, <2>4
<1>6. QED
  BY <1>4, <1>5

-----------------------------------------------------------------------------
(* Where the other ranks are while one reads.                               *)

(* A block that waits in a call has made it.                                *)
LEMMA WaitsInMadeCall ==
    ASSUME IInv, NEW q \in Ranks, NEW s \in Slots, NEW b \in Blocks
    PROVE  WaitsOn(q, s, b) <= MadeOn(q, s, b)
<1>1. WaitsOn(q, s, b) \in {0, 1} /\ MadeOn(q, s, b) \in {0, 1, 2}
  BY RowCounts
<1>2. CASE WaitsOn(q, s, b) = 0
  BY <1>1, <1>2
<1>3. CASE WaitsOn(q, s, b) # 0
  <2>1. InStep(q, b, "barrier") /\ Current(q).slot = s
    BY <1>3 DEF WaitsOn
  <2>2. Typing /\ Launched(q) /\ stage[q] = "kernel"
    BY <2>1 DEF IInv, InStep, Running
  <2>3. CASE Current(q).kind = "all_gather"
    <3>1. b = 0 /\ kernel[q] # 2 /\ block[q][b] = 1
      BY <2>1, <2>2, <2>3, StepFacts
    <3>2. QED
      BY <1>1, <2>1, <2>2, <2>3, <3>1 DEF MadeOn, Made
  <2>4. CASE Current(q).kind # "all_gather"
    <3>1. block[q][b] \in {1, 3}
      BY <2>1, <2>2, <2>4, StepFacts
    <3>2. QED
      BY <1>1, <2>1, <2>2, <2>4, <3>1 DEF MadeOn, Made
  <2>5. QED
    BY <2>3, <2>4
<1>4. QED
  BY <1>2, <1>3

(* The positions of two ranks differ by one at most.                        *)
LEMMA PositionsClose ==
    ASSUME IInv, NEW r \in Ranks, NEW q \in Ranks
    PROVE  /\ position[r] \in Nat /\ position[q] \in Nat /\ Len(program) \in Nat
           /\ position[q] \in {position[r] - 1, position[r], position[r] + 1}
<1>1. Len(program) \in Nat
  BY ProgramsAssumption DEF IInv, Typing
<1>2. position[r] \in 1 .. Len(program) + 1 /\ position[q] \in 1 .. Len(program) + 1
  BY DEF IInv, Typing
<1>3. position[r] <= position[q] + 1 /\ position[q] <= position[r] + 1
  BY DEF IInv, AtMostOneLaunchAhead
<1>4. QED
  BY <1>1, <1>2, <1>3

(* While a block reads staging buffers, every rank is in its launch: all    *)
(* have made the row's first call, and none has left the second.            *)
LEMMA ReadersTogether ==
    ASSUME IInv, NEW r \in Ranks, NEW b \in Blocks,
           \/ InStep(r, b, "reduce")
           \/ InStep(r, b, "gather") /\ Current(r).kind = "all_gather",
           NEW q \in Ranks
    PROVE  stage[q] = "kernel" /\ position[q] = position[r]
<1> DEFINE s == Current(r).slot
<1>1. s \in Slots /\ position[r] <= Len(program)
  BY ReadsStagingBetweenCalls
<1>2. PICK d \in Blocks : /\ MadeOn(r, s, d) = 1 /\ WaitsOn(r, s, d) = 0
                          /\ TotalOn(program[position[r]], s, d) = 2
  BY ReadsStagingBetweenCalls
<1> HIDE DEF s
<1> DEFINE x == Before(r, s, d)
           y == Before(q, s, d)
           m == MadeOn(q, s, d)
           w == WaitsOn(q, s, d)
<1>3. /\ x \in Int /\ y \in Int /\ m \in {0, 1, 2} /\ w \in {0, 1} /\ w <= m
      /\ arrived[s][d][r] = x + 1 /\ left[s][d][r] = x + 1 - 0
      /\ arrived[s][d][q] = y + m /\ left[s][d][q] = y + m - w
      /\ left[s][d][r] <= arrived[s][d][q] /\ left[s][d][q] <= arrived[s][d][r]
  BY <1>1, <1>2, RowCounts, WaitsInMadeCall
<1>4. /\ position[r] = position[q] => x = y
      /\ position[q] = position[r] + 1 => y = x + TotalOn(program[position[r]], s, d)
      /\ position[r] = position[q] + 1 => left[s][d][r] <= x
  BY <1>1, AheadHasLeftNone DEF IInv, InStepWith
<1> HIDE DEF x, y, w
<1>5. position[q] # position[r] + 1
  BY <1>2, <1>3, <1>4
<1>6. position[r] # position[q] + 1
  BY <1>3, <1>4
<1>7. position[q] = position[r]
  BY <1>5, <1>6, PositionsClose
<1>8. m # 0
  BY <1>3, <1>4, <1>7
<1>9. stage[q] = "kernel"
  BY <1>8 DEF MadeOn
<1>10. QED
  BY <1>7, <1>9

(* While a block gathers sums, no rank is behind, and the blocks of its row *)
(* on the ranks in its launch have computed theirs.                         *)
LEMMA GathersComputed ==
    ASSUME IInv, NEW r \in Ranks, NEW b \in Blocks,
           InStep(r, b, "gather"), Current(r).kind # "all_gather", NEW q \in Ranks
    PROVE  /\ position[q] \in {position[r], position[r] + 1}
           /\ position[q] = position[r] => stage[q] = "kernel" /\ block[q][b] >= 3
<1> DEFINE s == Current(r).slot
<1>1. s \in Slots
  <2>1. Typing /\ Launched(r) /\ stage[r] = "kernel"
    BY DEF IInv, InStep, Running
  <2>2. QED
    BY <2>1, KernelFacts, CurrentFacts
<1>2. MadeOn(r, s, b) = 2 /\ WaitsOn(r, s, b) = 0
  BY GathersAfterCalls
<1> HIDE DEF s
<1> DEFINE x == Before(r, s, b)
           y == Before(q, s, b)
           m == MadeOn(q, s, b)
<1>3. /\ x \in Int /\ y \in Int /\ m \in {0, 1, 2}
      /\ left[s][b][r] = x + 2 - 0 /\ arrived[s][b][q] = y + m
      /\ left[s][b][r] <= arrived[s][b][q]
  BY <1>1, <1>2, RowCounts
<1>4. /\ position[r] = position[q] => x = y
      /\ position[r] = position[q] + 1 => left[s][b][r] <= x
  BY <1>1, AheadHasLeftNone DEF IInv, InStepWith
<1> HIDE DEF x, y
<1>5. position[r] # position[q] + 1
  BY <1>3, <1>4
<1>6. position[q] \in {position[r], position[r] + 1}
  BY <1>5, PositionsClose
<1>7. ASSUME position[q] = position[r] PROVE stage[q] = "kernel" /\ block[q][b] >= 3
  <2>1. m = 2
    BY <1>3, <1>4, <1>7
  <2>2. stage[q] = "kernel" /\ Made(q, b) = 2
    BY <2>1 DEF MadeOn
  <2>3. Current(q).kind # "all_gather"
    BY <1>7 DEF Current
  <2>4. block[q][b] > 2
    BY <2>2, <2>3 DEF Made
  <2>5. block[q][b] \in 0 .. 5
    BY DEF IInv, Typing
  <2>6. QED
    BY <2>2, <2>4, <2>5
<1>8. QED
  BY <1>6, <1>7

(* When a launch completes on a rank, every rank has begun it.              *)
LEMMA CompletesAfterAllBegan ==
    ASSUME IInv, NEW r \in Ranks, stage[r] = "kernel",
           \A b \in GridOf(r) : Finished(r, b), kernel[r] = Len(Kernels(Current(r))),
           NEW q \in Ranks
    PROVE  /\ position[q] \in {position[r], position[r] + 1}
           /\ position[q] = position[r] => stage[q] = "kernel"
<1> DEFINE s == Current(r).slot
<1>1. Typing /\ Launched(r)
  BY DEF IInv
<1>2. s \in Slots /\ 0 \in Blocks /\ TotalOn(Current(r), s, 0) = 2
  <2>1. Current(r).grid \in Nat \ {0} /\ Current(r).slot \in Slots
    BY <1>1, KernelFacts, CurrentFacts
  <2>2. 0 \in Blocks
    BY ProgramsAssumption DEF Blocks
  <2>3. 0 < Current(r).grid
    BY <2>1
  <2>4. QED
    BY <2>1, <2>2, <2>3 DEF TotalOn
<1>3. MadeOn(r, s, 0) = 2 /\ WaitsOn(r, s, 0) = 0
  BY <1>2, FinishedFacts
<1> HIDE DEF s
<1> DEFINE x == Before(r, s, 0)
           y == Before(q, s, 0)
           m == MadeOn(q, s, 0)
<1>4. /\ x \in Int /\ y \in Int /\ m \in {0, 1, 2}
      /\ left[s][0][r] = x + 2 - 0 /\ arrived[s][0][q] = y + m
      /\ left[s][0][r] <= arrived[s][0][q]
  BY <1>2, <1>3, RowCounts
<1>5. /\ position[r] = position[q] => x = y
      /\ position[r] = position[q] + 1 => left[s][0][r] <= x
  BY <1>2, AheadHasLeftNone DEF IInv, InStepWith
<1> HIDE DEF x, y
<1>6. position[r] # position[q] + 1
  BY <1>4, <1>5
<1>7. position[q] \in {position[r], position[r] + 1}
  BY <1>6, PositionsClose
<1>8. ASSUME position[q] = position[r] PROVE stage[q] = "kernel"
  <2>1. m = 2
    BY <1>4, <1>5, <1>8
  <2>2. QED
    BY <2>1 DEF MadeOn
<1>9. QED
  BY <1>7, <1>8

-----------------------------------------------------------------------------
(* The data invariant, step by step.                                        *)

(* Which number a block's step has.                                         *)
LEMMA StepNumbers ==
    ASSUME IInv, NEW r \in Ranks, NEW b \in Blocks
    PROVE  /\ Dispatch(r, b) => block[r][b] = 0
           /\ InStep(r, b, "barrier") =>
                 IF Current(r).kind = "all_gather" THEN kernel[r] # 2
                 ELSE block[r][b] \in {1, 3}
           /\ InStep(r, b, "reduce") => Current(r).kind # "all_gather" /\ block[r][b] = 2
           /\ InStep(r, b, "gather") =>
                 IF Current(r).kind = "all_gather" THEN kernel[r] = 2 /\ block[r][b] = 1
                 ELSE Current(r).kind \in TwoStepKinds /\ block[r][b] = 4
<1>1. Dispatch(r, b) => block[r][b] = 0
  BY DEF Dispatch
<1>2. CASE stage[r] # "kernel"
  BY <1>1, <1>2 DEF InStep, Running
<1>3. CASE stage[r] = "kernel"
  <2>1. Typing /\ Launched(r)
    BY DEF IInv
  <2>2. CASE Current(r).kind = "all_gather"
    <3>1. InStep(r, b, "gather") => block[r][b] = 1
      <4>1. Len(CurrentKernel(r).steps) = 1
        BY <1>3, <2>1, <2>2, StepFacts
      <4>2. InStep(r, b, "gather") => block[r][b] \in 1 .. 1
        BY <4>1 DEF InStep, Running
      <4>3. QED
        BY <4>2
    <3>2. QED
      BY <1>1, <1>3, <2>1, <2>2, <3>1, StepFacts
  <2>3. CASE Current(r).kind # "all_gather"
    <3>1. Current(r) \in Launch
      BY <1>3, <2>1, KernelFacts, CurrentFacts
    <3>2. Current(r).kind \in OneStageKinds \union TwoStepKinds
      BY <2>3, <3>1, LaunchFacts
    <3>3. QED
      BY <1>1, <1>3, <2>1, <2>3, <3>2, StepFacts
  <2>4. QED
    BY <2>2, <2>3
<1>4. QED
  BY <1>2, <1>3

(* What a block's step leaves alone.                                        *)
LEMMA BlockFrame ==
    ASSUME IInv, NEW r \in Ranks, NEW b \in Blocks, BlockStep(r, b)
    PROVE  /\ stage[r] = "kernel" /\ b \in GridOf(r) /\ Current(r) \in Launch
           /\ UNCHANGED <<program, position, stage, kernel, staging, results>>
           /\ \A q \in Ranks : Current(q)' = Current(q)
           /\ \A q \in Ranks \ {r} : block'[q] = block[q]
           /\ \A c \in Blocks \ {b} : block'[r][c] = block[r][c]
           /\ block'[r][b] = block[r][b] + 1 /\ block[r][b] \in 0 .. 5
           /\ \A q \in Ranks, c \in Blocks : block[q][c] \in Nat
<1>1. /\ stage[r] = "kernel" /\ b \in GridOf(r)
      /\ block' = [block EXCEPT ![r][b] = block[r][b] + 1]
      /\ UNCHANGED <<program, position, stage, kernel, staging>>
  BY BlockStepFacts
<1>2. UNCHANGED results
  BY DEF BlockStep, Dispatch, LeaveBarrier, FinishReduce, FinishGather
<1>3. Typing /\ Launched(r) /\ block \in [Ranks -> [Blocks -> 0 .. 5]]
  BY DEF IInv, Typing
<1>4. Current(r) \in Launch
  BY <1>1, <1>3, KernelFacts, CurrentFacts
<1>5. \A q \in Ranks : Current(q)' = Current(q)
  BY <1>1 DEF Current
<1>6. /\ \A q \in Ranks \ {r} : block'[q] = block[q]
      /\ \A c \in Blocks \ {b} : block'[r][c] = block[r][c]
      /\ block'[r][b] = block[r][b] + 1
  BY <1>1, <1>3
<1>7. \A q \in Ranks, c \in Blocks : block[q][c] \in 0 .. 5
  BY <1>3
<1>8. QED
  BY <1>1, <1>2, <1>4, <1>5, <1>6, <1>7

(* A step that writes no sums, and after which no block has computed more.  *)
LEMMA SumsSame ==
    ASSUME IInv, NEW q \in Ranks, SumsKept(q), UNCHANGED <<program, position, tmp>>,
           stage'[q] = "kernel" => stage[q] # "idle",
           stage'[q] = "kernel" /\ Current(q).kind \in TwoStepKinds =>
               \A c \in Blocks : block'[q][c] >= 3 => stage[q] = "kernel" /\ block[q][c] >= 3
    PROVE  SumsKept(q)'
<1>1. Current(q)' = Current(q)
  BY DEF Current
<1>2. \A i, k : HoldsSum(q, k, i)' <=> HoldsSum(q, k, i)
  BY DEF HoldsSum
<1>3. ASSUME stage'[q] = "kernel", Current(q).kind \in TwoStepKinds,
             NEW i \in ReducedBy(Current(q), q),
             block'[q][ReduceBlock(Current(q), q, i)] >= 3
      PROVE  HoldsSum(q, position[q], i)
  <2>1. Current(q) \in Launch /\ Current(q).kind # "all_gather"
    <3>1. Typing /\ position[q] <= Len(program)
      BY <1>3 DEF IInv, Launched
    <3>2. QED
      BY <1>3, <3>1, CurrentFacts DEF TwoStepKinds
  <2>2. ReduceBlock(Current(q), q, i) \in Blocks
    BY <1>3, <2>1, ReducedFacts
  <2>3. stage[q] = "kernel" /\ block[q][ReduceBlock(Current(q), q, i)] >= 3
    BY <1>3, <2>2
  <2>4. QED
    BY <1>3, <2>3 DEF SumsKept
<1>4. ASSUME NEW r \in Ranks, position[q] = position[r] + 1,
             program[position[r]].kind \in TwoStepKinds,
             NEW i \in ReducedBy(program[position[r]], q)
      PROVE  HoldsSum(q, position[r], i)
  BY <1>4 DEF SumsKept
<1>5. QED
  BY <1>1, <1>2, <1>3, <1>4 DEF SumsKept

(* A rank whose blocks did not move has written nothing more.               *)
LEMMA WrittenSame ==
    ASSUME NEW q \in Ranks, UNCHANGED <<program, position>>, kernel'[q] = kernel[q],
           block'[q] = block[q], NEW i
    PROVE  Written(q, i)' <=> Written(q, i)
<1>1. Current(q)' = Current(q)
  BY DEF Current
<1>2. QED
  BY <1>1 DEF Written

(* A step that writes no output, and after which no more counts as written. *)
LEMMA OutputSame ==
    ASSUME NEW q \in Ranks, OutputRight(q), UNCHANGED <<program, position>>,
           stage'[q] = "kernel" =>
               /\ stage[q] = "kernel" /\ out'[q] = out[q]
               /\ \A i \in OutIndices(Current(q)) : Written(q, i)' => Written(q, i)
    PROVE  OutputRight(q)'
<1>1. Current(q)' = Current(q)
  BY DEF Current
<1>2. QED
  BY <1>1 DEF OutputRight

(* What a rank's output tensor holds does not depend on the others' steps.  *)
LEMMA OtherRanksKeep ==
    ASSUME IInv, DataInv, NEW r \in Ranks, NEW q \in Ranks \ {r},
           UNCHANGED <<program, position>>, stage'[q] = stage[q],
           kernel'[q] = kernel[q], block'[q] = block[q], out'[q] = out[q]
    PROVE  OutputRight(q)'
<1>1. OutputRight(q)
  BY DEF DataInv
<1>2. \A i \in OutIndices(Current(q)) : Written(q, i)' => Written(q, i)
  BY WrittenSame
<1>3. QED
  BY <1>1, <1>2, OutputSame

(* What a block's reduction sums are the inputs of its launch.              *)
LEMMA ReducesItsLaunch ==
    ASSUME IInv, DataInv, NEW r \in Ranks, NEW b \in Blocks, InStep(r, b, "reduce"), NEW i
    PROVE  {<<q, staging[Current(r).slot][q], i>> : q \in Ranks} = Sums(position[r], i)
<1>1. ASSUME NEW q \in Ranks PROVE staging[Current(r).slot][q] = position[r]
  <2>1. stage[q] = "kernel" /\ position[q] = position[r]
    BY ReadersTogether
  <2>2. Current(q) = Current(r)
    BY <2>1 DEF Current
  <2>3. QED
    BY <2>1, <2>2 DEF DataInv, Staged
<1>2. QED
  BY <1>1 DEF Sums

(* The effect of a reduction that keeps its sums.                           *)
LEMMA ReduceIntoTmp ==
    ASSUME IInv, DataInv, NEW r \in Ranks, NEW b \in Blocks, FinishReduce(r, b),
           Current(r).kind \in TwoStepKinds
    PROVE  /\ out' = out /\ DOMAIN tmp' = Slots
           /\ \A s \in Slots : DOMAIN tmp'[s] = Ranks
           /\ \A s \in Slots, q \in Ranks : DOMAIN tmp'[s][q] = 0 .. MaxSize - 1
           /\ \A s \in Slots, q \in Ranks \ {r} : tmp'[s][q] = tmp[s][q]
           /\ \A i \in ReducedHere(Current(r), r, b) :
                 tmp'[Current(r).slot][r][TmpIndex(Current(r), r, i)] = Sums(position[r], i)
           /\ \A i \in ReducedBy(Current(r), r) \ ReducedHere(Current(r), r, b) :
                 tmp'[Current(r).slot][r][TmpIndex(Current(r), r, i)]
                     = tmp[Current(r).slot][r][TmpIndex(Current(r), r, i)]
<1> DEFINE l == Current(r)
           mine == ReducedHere(l, r, b)
           Sum(i) == {<<q, staging[l.slot][q], i>> : q \in Ranks}
           At(j) == {e \in mine : TmpIndex(l, r, e) = j}
           new == [j \in DOMAIN tmp[l.slot][r] |->
                      IF At(j) # {} THEN Sum(CHOOSE e \in At(j) : TRUE)
                      ELSE tmp[l.slot][r][j]]
<1>1. InStep(r, b, "reduce") /\ BlockStep(r, b)
  BY DEF FinishReduce, BlockStep
<1>2. l \in Launch /\ l.slot \in Slots /\ l.kind # "all_gather"
      /\ l.kind \notin OneStageKinds
  BY <1>1, BlockFrame, LaunchFacts DEF TwoStepKinds, OneStageKinds
<1>3. tmp' = [tmp EXCEPT ![l.slot][r] = new] /\ out' = out
  BY <1>2 DEF FinishReduce, OneStageKinds
<1>4. /\ DOMAIN tmp = Slots /\ \A s \in Slots : DOMAIN tmp[s] = Ranks
      /\ \A s \in Slots, q \in Ranks : DOMAIN tmp[s][q] = 0 .. MaxSize - 1
  BY DEF DataInv, DataTyping
<1>5. \A i : Sum(i) = Sums(position[r], i)
  BY <1>1, ReducesItsLaunch
<1>6. mine \subseteq ReducedBy(l, r)
  BY DEF ReducedHere
<1>7. \A i \in ReducedBy(l, r) : TmpIndex(l, r, i) \in 0 .. MaxSize - 1
  BY <1>2, ReducedFacts
<1>8. \A i, j \in ReducedBy(l, r) : TmpIndex(l, r, i) = TmpIndex(l, r, j) => i = j
  BY <1>2, PlacesDistinct
<1> HIDE DEF l, mine, Sum
<1>9. DOMAIN new = 0 .. MaxSize - 1
  BY <1>2, <1>4
<1>10. ASSUME NEW i \in mine PROVE new[TmpIndex(l, r, i)] = Sums(position[r], i)
  <2>1. PICK j : j = TmpIndex(l, r, i)
    OBVIOUS
  <2>2. At(j) = {i}
    BY <1>6, <1>8, <2>1
  <2>3. j \in DOMAIN new
    BY <1>6, <1>7, <1>9, <2>1
  <2>4. (CHOOSE e \in At(j) : TRUE) = i
    BY <2>2
  <2>5. new[j] = Sum(i)
    BY <1>9, <2>2, <2>3, <2>4
  <2>6. QED
    BY <1>5, <2>1, <2>5
<1>11. ASSUME NEW i \in ReducedBy(l, r) \ mine
       PROVE  new[TmpIndex(l, r, i)] = tmp[l.slot][r][TmpIndex(l, r, i)]
  <2>1. PICK j : j = TmpIndex(l, r, i)
    OBVIOUS
  <2>2. At(j) = {}
    BY <1>6, <1>8, <2>1
  <2>3. j \in DOMAIN new
    BY <1>7, <1>9, <2>1
  <2>4. QED
    BY <1>9, <2>1, <2>2, <2>3
<1> HIDE DEF new
<1>12. /\ DOMAIN tmp' = Slots /\ \A s \in Slots : DOMAIN tmp'[s] = Ranks
       /\ tmp'[l.slot][r] = new
       /\ \A s \in Slots, q \in Ranks : s # l.slot \/ q # r => tmp'[s][q] = tmp[s][q]
  BY <1>2, <1>3, <1>4
<1>13. \A s \in Slots, q \in Ranks : DOMAIN tmp'[s][q] = 0 .. MaxSize - 1
  BY <1>4, <1>9, <1>12
<1>14. QED
  BY <1>3, <1>10, <1>11, <1>12, <1>13 DEF l, mine

(* The effect of a reduction that is the result.                            *)
LEMMA ReduceIntoOut ==
    ASSUME IInv, DataInv, NEW r \in Ranks, NEW b \in Blocks, FinishReduce(r, b),
           Current(r).kind \in OneStageKinds
    PROVE  /\ tmp' = tmp /\ DOMAIN out' = Ranks
           /\ \A q \in Ranks \ {r} : out'[q] = out[q]
           /\ out'[r] = [i \in OutIndices(Current(r)) |->
                            IF i \in ReducedHere(Current(r), r, b)
                            THEN Wanted(Current(r), position[r], i) ELSE out[r][i]]
<1> DEFINE l == Current(r)
           mine == ReducedHere(l, r, b)
           Sum(i) == {<<q, staging[l.slot][q], i>> : q \in Ranks}
<1>1. InStep(r, b, "reduce") /\ BlockStep(r, b)
  BY DEF FinishReduce, BlockStep
<1>2. /\ tmp' = tmp
      /\ out' = [out EXCEPT ![r] =
                    [i \in DOMAIN out[r] |->
                        IF i \in mine THEN UNION {Sum(j) : j \in SummedInto(l, i)}
                        ELSE out[r][i]]]
  BY DEF FinishReduce, OneStageKinds
<1>3. DOMAIN out = Ranks /\ DOMAIN out[r] = OutIndices(l)
  <2>1. stage[r] # "idle"
    BY <1>1 DEF InStep, Running
  <2>2. out[r] = [i \in OutIndices(l) |-> out[r][i]]
    BY <2>1 DEF DataInv, DataTyping
  <2>3. DOMAIN [i \in OutIndices(l) |-> out[r][i]] = OutIndices(l)
    OBVIOUS
  <2>4. QED
    BY <2>2, <2>3 DEF DataInv, DataTyping
<1>4. \A i : Sum(i) = Sums(position[r], i)
  BY <1>1, ReducesItsLaunch
<1>5. \A i : Wanted(l, position[r], i) = UNION {Sum(j) : j \in SummedInto(l, i)}
  BY <1>4 DEF Wanted, OneStageKinds
<1> HIDE DEF l, mine, Sum
<1>6. out' = [out EXCEPT ![r] = [i \in OutIndices(l) |->
                                    IF i \in mine THEN Wanted(l, position[r], i)
                                    ELSE out[r][i]]]
  BY <1>2, <1>3, <1>5
<1>7. QED
  BY <1>2, <1>3, <1>6 DEF l, mine

(* What a block fetches belongs to its launch: a peer a launch ahead has    *)
(* not written over its sums.                                               *)
LEMMA FetchesItsLaunch ==
    ASSUME IInv, DataInv, NEW r \in Ranks, NEW b \in Blocks, InStep(r, b, "gather"),
           NEW f \in Fetches(Current(r), b)
    PROVE  Fetched(r, f) = IF Current(r).kind = "all_gather"
                           THEN {<<f.from, position[r], f.at>>} ELSE Sums(position[r], f.out)
<1> DEFINE l == Current(r)
<1>1. l \in Launch /\ l.kind \notin OneStageKinds /\ l = program[position[r]]
  <2>1. Typing /\ Launched(r) /\ stage[r] = "kernel"
    BY DEF IInv, InStep, Running
  <2>2. l \in Launch
    BY <2>1, KernelFacts, CurrentFacts
  <2>3. l.kind = "all_gather" \/ l.kind \in TwoStepKinds
    BY StepNumbers
  <2>4. QED
    BY <2>2, <2>3 DEF OneStageKinds, TwoStepKinds, Current
<1>2. f.from \in Ranks
  BY <1>1, FetchFacts
<1>3. CASE l.kind = "all_gather"
  <2>1. stage[f.from] = "kernel" /\ position[f.from] = position[r]
    BY <1>2, <1>3, ReadersTogether
  <2>2. Current(f.from) = l
    BY <2>1 DEF Current
  <2>3. staging[l.slot][f.from] = position[r]
    BY <1>2, <2>1, <2>2 DEF DataInv, Staged
  <2>4. QED
    BY <1>3, <2>3 DEF Fetched
<1>4. CASE l.kind # "all_gather"
  <2>1. l.kind \in TwoStepKinds
    BY <1>4, StepNumbers
  <2>2. /\ f.out \in ReducedBy(l, f.from)
        /\ f.at = TmpIndex(l, f.from, f.out)
        /\ ReduceBlock(l, f.from, f.out) = b
    BY <1>1, <2>1, FetchFacts
  <2>3. SumsKept(f.from)
    BY <1>2 DEF DataInv
  <2>4. /\ position[f.from] \in {position[r], position[r] + 1}
        /\ position[f.from] = position[r] =>
              stage[f.from] = "kernel" /\ block[f.from][b] >= 3
    BY <1>2, <1>4, GathersComputed
  <2>5. HoldsSum(f.from, position[r], f.out)
    <3>1. CASE position[f.from] = position[r]
      <4>1. Current(f.from) = l
        BY <3>1 DEF Current
      <4>2. QED
        BY <2>1, <2>2, <2>3, <2>4, <3>1, <4>1 DEF SumsKept
    <3>2. CASE position[f.from] = position[r] + 1
      BY <1>1, <2>1, <2>2, <2>3, <3>2 DEF SumsKept
    <3>3. QED
      BY <2>4, <3>1, <3>2
  <2>6. tmp[l.slot][f.from][f.at] = Sums(position[r], f.out)
    BY <1>1, <2>2, <2>5 DEF HoldsSum
  <2>7. QED
    BY <1>4, <2>6 DEF Fetched
<1>5. QED
  BY <1>3, <1>4

(* The effect of a gather.                                                  *)
LEMMA GatherEffect ==
    ASSUME IInv, DataInv, NEW r \in Ranks, NEW b \in Blocks, FinishGather(r, b)
    PROVE  /\ tmp' = tmp /\ DOMAIN out' = Ranks
           /\ \A q \in Ranks \ {r} : out'[q] = out[q]
           /\ out'[r] = [i \in OutIndices(Current(r)) |->
                            IF Covers(Current(r), b, i)
                            THEN Wanted(Current(r), position[r], i) ELSE out[r][i]]
<1> DEFINE l == Current(r)
           k == position[r]
           At(i) == {f \in Fetches(l, b) : f.out \in SummedInto(l, i)}
           Value(i) == UNION {Fetched(r, f) : f \in At(i)}
<1>1. InStep(r, b, "gather") /\ BlockStep(r, b)
  BY DEF FinishGather, BlockStep
<1>2. /\ tmp' = tmp
      /\ out' = [out EXCEPT ![r] = [i \in DOMAIN out[r] |->
                                       IF At(i) = {} THEN out[r][i] ELSE Value(i)]]
  BY DEF FinishGather
<1>3. DOMAIN out = Ranks /\ DOMAIN out[r] = OutIndices(l)
  <2>1. stage[r] # "idle"
    BY <1>1 DEF InStep, Running
  <2>2. out[r] = [i \in OutIndices(l) |-> out[r][i]]
    BY <2>1 DEF DataInv, DataTyping
  <2>3. DOMAIN [i \in OutIndices(l) |-> out[r][i]] = OutIndices(l)
    OBVIOUS
  <2>4. QED
    BY <2>2, <2>3 DEF DataInv, DataTyping
<1>4. l \in Launch /\ l.kind \notin OneStageKinds
      /\ l.kind \in TwoStepKinds \union {"all_gather"}
  <2>1. l \in Launch
    BY <1>1, BlockFrame
  <2>2. l.kind = "all_gather" \/ l.kind \in TwoStepKinds
    BY <1>1, StepNumbers
  <2>3. QED
    BY <2>1, <2>2 DEF OneStageKinds, TwoStepKinds
<1>5. \A f \in Fetches(l, b) :
          Fetched(r, f) = IF l.kind = "all_gather" THEN {<<f.from, k, f.at>>}
                          ELSE Sums(k, f.out)
  BY <1>1, FetchesItsLaunch
<1>6. \A i : At(i) # {} <=> Covers(l, b, i)
  BY DEF Covers
<1> HIDE DEF l, k
<1>7. ASSUME NEW i \in OutIndices(l), At(i) # {} PROVE Value(i) = Wanted(l, k, i)
  <2>1. CASE l.kind = "all_gather"
    <3>1. SummedInto(l, i) = {i} /\ Wanted(l, k, i) = {<<i \div l.size, k, i % l.size>>}
      BY <2>1 DEF SummedInto, FusedKinds, Wanted
    <3>2. ASSUME NEW f \in At(i) PROVE Fetched(r, f) = Wanted(l, k, i)
      <4>1. f \in Fetches(l, b) /\ f.out = i
        BY <3>1
      <4>2. i \div l.size = f.from /\ i % l.size = f.at
        BY <1>4, <2>1, <4>1, ShardPlace
      <4>3. QED
        BY <1>5, <2>1, <3>1, <4>1, <4>2
    <3>3. QED
      BY <1>7, <3>2
  <2>2. CASE l.kind # "all_gather"
    <3>1. Wanted(l, k, i) = UNION {Sums(k, j) : j \in SummedInto(l, i)}
      BY <2>2 DEF Wanted
    <3>2. \A f \in At(i) : f.out \in SummedInto(l, i) /\ Fetched(r, f) = Sums(k, f.out)
      BY <1>5, <2>2
    <3>3. \A j \in SummedInto(l, i) : \E f \in At(i) : f.out = j
      <4>1. PICK f \in Fetches(l, b) : f.out \in SummedInto(l, i)
        BY <1>7
      <4>2. l.kind \in TwoStepKinds
        BY <1>4, <2>2
      <4>3. QED
        BY <1>4, <4>1, <4>2, GathersWhole
    <3> HIDE DEF At
    <3>4. ASSUME NEW z
          PROVE  (\E f \in At(i) : z \in Fetched(r, f))
                     <=> (\E j \in SummedInto(l, i) : z \in Sums(k, j))
      BY <3>2, <3>3
    <3>5. QED
      BY <3>1, <3>4
  <2>3. QED
    BY <2>1, <2>2
<1> HIDE DEF At, Value
<1>8. out' = [out EXCEPT ![r] = [i \in OutIndices(l) |->
                                    IF Covers(l, b, i) THEN Wanted(l, k, i) ELSE out[r][i]]]
  BY <1>2, <1>3, <1>6, <1>7
<1>9. QED
  BY <1>2, <1>3, <1>8 DEF l, k

(* A block's step keeps the sums.  It writes its own only while every rank  *)
(* is in its launch, so that none can still need those of the one before.   *)
LEMMA BlockStepSums ==
    ASSUME IInv, DataInv, NEW r \in Ranks, NEW b \in Blocks, BlockStep(r, b), NEW q \in Ranks
    PROVE  SumsKept(q)'
<1>1. /\ stage[r] = "kernel" /\ b \in GridOf(r) /\ Current(r) \in Launch
      /\ UNCHANGED <<program, position, stage, kernel, staging, results>>
      /\ \A p \in Ranks : Current(p)' = Current(p)
      /\ \A p \in Ranks \ {r} : block'[p] = block[p]
      /\ \A c \in Blocks \ {b} : block'[r][c] = block[r][c]
      /\ block'[r][b] = block[r][b] + 1 /\ block[r][b] \in 0 .. 5
  BY BlockFrame
<1>2. SumsKept(q)
  BY DEF DataInv
<1>3. CASE FinishReduce(r, b) /\ Current(r).kind \in TwoStepKinds
  <2> DEFINE l == Current(r)
             k == position[r]
  <2>1. InStep(r, b, "reduce")
    BY <1>3 DEF FinishReduce
  <2>2. \A p \in Ranks : stage[p] = "kernel" /\ position[p] = k /\ Current(p) = l
    BY <2>1, ReadersTogether DEF Current
  <2>3. l = program[k] /\ k \in Nat /\ l.slot \in Slots
    BY <1>1, LaunchFacts, PositionsClose DEF Current
  <2>4. /\ \A s \in Slots, p \in Ranks \ {r} : tmp'[s][p] = tmp[s][p]
        /\ \A i \in ReducedHere(l, r, b) : tmp'[l.slot][r][TmpIndex(l, r, i)] = Sums(k, i)
        /\ \A i \in ReducedBy(l, r) \ ReducedHere(l, r, b) :
              tmp'[l.slot][r][TmpIndex(l, r, i)] = tmp[l.slot][r][TmpIndex(l, r, i)]
    BY <1>3, ReduceIntoTmp
  <2>5. l.kind \in TwoStepKinds /\ l \in Launch /\ l.kind # "all_gather"
    BY <1>1, <1>3 DEF TwoStepKinds
  <2> HIDE DEF l, k
  <2>6. \A i : HoldsSum(q, k, i)' <=> tmp'[l.slot][q][TmpIndex(l, q, i)] = Sums(k, i)
    BY <1>1, <2>3 DEF HoldsSum, k
  <2>7. \A i : HoldsSum(q, k, i) <=> tmp[l.slot][q][TmpIndex(l, q, i)] = Sums(k, i)
    BY <2>3 DEF HoldsSum
  <2>8. \A i \in ReducedBy(l, q) : block[q][ReduceBlock(l, q, i)] >= 3 => HoldsSum(q, k, i)
    BY <1>2, <2>2, <2>5 DEF SumsKept
  <2>9. ASSUME NEW i \in ReducedBy(l, q), block'[q][ReduceBlock(l, q, i)] >= 3
        PROVE  HoldsSum(q, k, i)'
    <3>1. CASE q # r
      BY <1>1, <2>3, <2>4, <2>6, <2>7, <2>8, <2>9, <3>1
    <3>2. CASE q = r /\ i \in ReducedHere(l, r, b)
      BY <2>4, <2>6, <3>2
    <3>3. CASE q = r /\ i \notin ReducedHere(l, r, b)
      <4>1. ReduceBlock(l, r, i) \in Blocks \ {b}
        BY <2>5, <2>9, <3>3, ReducedFacts DEF ReducedHere
      <4>2. block[q][ReduceBlock(l, q, i)] >= 3
        BY <1>1, <2>9, <3>3, <4>1
      <4>3. QED
        BY <2>4, <2>6, <2>7, <2>8, <2>9, <3>3, <4>2
    <3>4. QED
      BY <3>1, <3>2, <3>3
  <2>10. \A p \in Ranks : position[q] # position[p] + 1
    BY <2>2, <2>3
  <2>11. Current(q)' = l /\ position'[q] = k /\ stage'[q] = "kernel"
    BY <1>1, <2>2
  <2>12. \A p \in Ranks : position'[q] # position'[p] + 1
    BY <1>1, <2>10
  <2>13. ASSUME NEW i \in ReducedBy(l, q), block'[q][ReduceBlock(l, q, i)] >= 3
         PROVE  \A n : n = position'[q] =>
                    tmp'[program'[n].slot][q][TmpIndex(program'[n], q, i)] = Sums(n, i)
    BY <1>1, <2>3, <2>6, <2>9, <2>11, <2>13
  <2>14. QED
    BY <2>11, <2>12, <2>13 DEF SumsKept, HoldsSum
<1>4. CASE ~ (FinishReduce(r, b) /\ Current(r).kind \in TwoStepKinds)
  <2>1. UNCHANGED tmp
    <3>1. CASE FinishReduce(r, b)
      <4>1. InStep(r, b, "reduce")
        BY <3>1 DEF FinishReduce
      <4>2. Current(r).kind \in OneStageKinds
        BY <1>1, <1>4, <3>1, <4>1, StepNumbers, LaunchFacts
      <4>3. QED
        BY <3>1, <4>2, ReduceIntoOut
    <3>2. CASE ~ FinishReduce(r, b)
      BY <3>2 DEF BlockStep, Dispatch, LeaveBarrier, FinishGather
    <3>3. QED
      BY <3>1, <3>2
  <2>2. Current(r).kind \in TwoStepKinds => block[r][b] # 2
    <3>1. Current(r).kind \in TwoStepKinds =>
              Dispatch(r, b) \/ LeaveBarrier(r, b) \/ FinishGather(r, b)
      BY <1>4 DEF BlockStep
    <3>2. Current(r).kind \in TwoStepKinds => Current(r).kind # "all_gather"
      BY DEF TwoStepKinds
    <3>3. QED
      BY <3>1, <3>2, StepNumbers DEF LeaveBarrier, FinishGather
  <2>3. Current(q).kind \in TwoStepKinds =>
            \A c \in Blocks : block'[q][c] >= 3 => block[q][c] >= 3
    BY <1>1, <2>2
  <2>4. QED
    BY <1>1, <1>2, <2>1, <2>3, SumsSame
<1>5. QED
  BY <1>3, <1>4

(* A block's step leaves what is written of the outputs right.              *)
LEMMA BlockStepOutput ==
    ASSUME IInv, DataInv, NEW r \in Ranks, NEW b \in Blocks, BlockStep(r, b), NEW q \in Ranks
    PROVE  OutputRight(q)'
<1>1. /\ stage[r] = "kernel" /\ b \in GridOf(r) /\ Current(r) \in Launch
      /\ UNCHANGED <<program, position, stage, kernel, staging, results>>
      /\ \A p \in Ranks : Current(p)' = Current(p)
      /\ \A p \in Ranks \ {r} : block'[p] = block[p]
      /\ \A c \in Blocks \ {b} : block'[r][c] = block[r][c]
      /\ block'[r][b] = block[r][b] + 1 /\ block[r][b] \in 0 .. 5
  BY BlockFrame
<1> DEFINE l == Current(r)
           k == position[r]
           G(n, i) == \E c \in Blocks : block[r][c] >= n /\ Covers(l, c, i)
           H(n, i) == \E c \in Blocks : block'[r][c] >= n /\ Covers(l, c, i)
<1>2. OutputRight(q) /\ OutputRight(r)
  BY DEF DataInv
<1>3. l.kind \in OneStageKinds \union TwoStepKinds \union {"all_gather"}
  BY <1>1, LaunchFacts
<1>4. \A i : Written(r, i)' <=>
          \/ l.kind \in OneStageKinds /\ block'[r][ReduceBlock(l, r, i)] >= 3
          \/ l.kind \in TwoStepKinds /\ H(5, i)
          \/ l.kind = "all_gather" /\ (kernel[r] = 3 \/ (kernel[r] = 2 /\ H(2, i)))
  BY <1>1 DEF Written
<1>5. \A i : Written(r, i) <=>
          \/ l.kind \in OneStageKinds /\ block[r][ReduceBlock(l, r, i)] >= 3
          \/ l.kind \in TwoStepKinds /\ G(5, i)
          \/ l.kind = "all_gather" /\ (kernel[r] = 3 \/ (kernel[r] = 2 /\ G(2, i)))
  BY DEF Written
<1>6. ASSUME NEW n \in Nat, block[r][b] + 1 # n, NEW i PROVE H(n, i) => G(n, i)
  BY <1>1, <1>6
<1>7. ASSUME NEW n \in Nat, NEW i, ~ Covers(l, b, i) PROVE H(n, i) => G(n, i)
  BY <1>1, <1>7
<1>8. ASSUME l.kind \in OneStageKinds, NEW i \in OutIndices(l),
             block[r][b] # 2 \/ i \notin ReducedHere(l, r, b),
             block'[r][ReduceBlock(l, r, i)] >= 3
      PROVE  block[r][ReduceBlock(l, r, i)] >= 3
  <2>1. i \in ReducedBy(l, r) /\ l.kind # "all_gather"
    BY <1>8 DEF OutIndices, ReducedBy, OneStageKinds
  <2>2. ReduceBlock(l, r, i) \in Blocks
    BY <1>1, <2>1, ReducedFacts
  <2>3. CASE ReduceBlock(l, r, i) = b
    <3>1. i \in ReducedHere(l, r, b)
      BY <2>1, <2>3 DEF ReducedHere
    <3>2. QED
      BY <1>1, <1>8, <2>3, <3>1
  <2>4. CASE ReduceBlock(l, r, i) # b
    BY <1>1, <1>8, <2>2, <2>4
  <2>5. QED
    BY <2>3, <2>4
<1>9. CASE q # r
  <2>1. out'[q] = out[q]
    <3>1. CASE FinishGather(r, b)
      BY <1>9, <3>1, GatherEffect
    <3>2. CASE FinishReduce(r, b)
      <4>1. l.kind # "all_gather"
        BY <3>2, StepNumbers DEF FinishReduce
      <4>2. QED
        BY <1>3, <1>9, <3>2, <4>1, ReduceIntoOut, ReduceIntoTmp
    <3>3. CASE Dispatch(r, b) \/ LeaveBarrier(r, b)
      BY <3>3 DEF Dispatch, LeaveBarrier
    <3>4. QED
      BY <3>1, <3>2, <3>3 DEF BlockStep
  <2>2. QED
    BY <1>1, <1>9, <2>1, OtherRanksKeep
<1>10. ASSUME Dispatch(r, b) \/ LeaveBarrier(r, b) PROVE OutputRight(r)'
  <2>1. out' = out
    BY <1>10 DEF Dispatch, LeaveBarrier
  <2>2. /\ l.kind # "all_gather" => block[r][b] \in {0, 1, 3}
        /\ l.kind = "all_gather" => kernel[r] # 2 \/ block[r][b] = 0
    BY <1>10, StepNumbers DEF LeaveBarrier
  <2> HIDE DEF G, H
  <2>3. ASSUME NEW i \in OutIndices(l), Written(r, i)' PROVE Written(r, i)
    <3>1. CASE l.kind \in OneStageKinds
      <4>1. l.kind # "all_gather" /\ l.kind \notin TwoStepKinds
        BY <3>1 DEF OneStageKinds, TwoStepKinds
      <4>2. block[r][b] # 2
        BY <2>2, <4>1
      <4>3. block'[r][ReduceBlock(l, r, i)] >= 3
        BY <1>4, <2>3, <4>1
      <4>4. QED
        BY <1>5, <1>8, <3>1, <4>2, <4>3
    <3>2. CASE l.kind \in TwoStepKinds
      <4>1. l.kind # "all_gather" /\ l.kind \notin OneStageKinds
        BY <3>2 DEF OneStageKinds, TwoStepKinds
      <4>2. block[r][b] + 1 # 5
        BY <2>2, <4>1
      <4>3. QED
        BY <1>4, <1>5, <1>6, <2>3, <4>1, <4>2
    <3>3. CASE l.kind = "all_gather"
      <4>1. l.kind \notin OneStageKinds /\ l.kind \notin TwoStepKinds
        BY <3>3 DEF OneStageKinds, TwoStepKinds
      <4>2. kernel[r] = 3 \/ (kernel[r] = 2 /\ H(2, i))
        BY <1>4, <2>3, <4>1
      <4>3. ASSUME kernel[r] = 2, H(2, i) PROVE G(2, i)
        <5>1. block[r][b] + 1 # 2
          BY <2>2, <3>3, <4>3
        <5>2. QED
          BY <1>6, <4>3, <5>1
      <4>4. kernel[r] = 3 \/ (kernel[r] = 2 /\ G(2, i))
        BY <4>2, <4>3
      <4>5. QED
        BY <1>5, <3>3, <4>4
    <3>4. QED
      BY <1>3, <3>1, <3>2, <3>3
  <2>4. QED
    BY <1>1, <1>2, <2>1, <2>3, OutputSame
<1>11. ASSUME FinishReduce(r, b), l.kind \in TwoStepKinds PROVE OutputRight(r)'
  <2>1. out' = out
    BY <1>11, ReduceIntoTmp
  <2>2. block[r][b] = 2
    BY <1>11, StepNumbers DEF FinishReduce
  <2> HIDE DEF G, H
  <2>3. ASSUME NEW i \in OutIndices(l), Written(r, i)' PROVE Written(r, i)
    <3>1. l.kind # "all_gather" /\ l.kind \notin OneStageKinds
      BY <1>11 DEF OneStageKinds, TwoStepKinds
    <3>2. block[r][b] + 1 # 5
      BY <2>2
    <3>3. QED
      BY <1>4, <1>5, <1>6, <2>3, <3>1, <3>2
  <2>4. QED
    BY <1>1, <1>2, <2>1, <2>3, OutputSame
<1>12. ASSUME FinishReduce(r, b), l.kind \in OneStageKinds PROVE OutputRight(r)'
  <2>1. out'[r] = [i \in OutIndices(l) |->
                      IF i \in ReducedHere(l, r, b) THEN Wanted(l, k, i) ELSE out[r][i]]
    BY <1>12, ReduceIntoOut
  <2>2. l.kind # "all_gather" /\ l.kind \notin TwoStepKinds
    BY <1>12 DEF OneStageKinds, TwoStepKinds
  <2>3. ASSUME NEW i \in OutIndices(l), Written(r, i)' PROVE out'[r][i] = Wanted(l, k, i)
    <3>1. CASE i \in ReducedHere(l, r, b)
      BY <2>1, <3>1
    <3>2. CASE i \notin ReducedHere(l, r, b)
      <4>1. block'[r][ReduceBlock(l, r, i)] >= 3
        BY <1>4, <2>2, <2>3
      <4>2. block[r][ReduceBlock(l, r, i)] >= 3
        BY <1>8, <1>12, <3>2, <4>1
      <4>3. Written(r, i)
        BY <1>5, <1>12, <4>2
      <4>4. QED
        BY <1>1, <1>2, <2>1, <3>2, <4>3 DEF OutputRight
    <3>3. QED
      BY <3>1, <3>2
  <2>4. QED
    BY <1>1, <2>3 DEF OutputRight
<1>13. ASSUME FinishGather(r, b) PROVE OutputRight(r)'
  <2>1. out'[r] = [i \in OutIndices(l) |->
                      IF Covers(l, b, i) THEN Wanted(l, k, i) ELSE out[r][i]]
    BY <1>13, GatherEffect
  <2>2. l.kind = "all_gather" \/ l.kind \in TwoStepKinds
    BY <1>13, StepNumbers DEF FinishGather
  <2>3. l.kind \notin OneStageKinds
    BY <2>2 DEF OneStageKinds, TwoStepKinds
  <2>4. ASSUME NEW i \in OutIndices(l), Written(r, i)' PROVE out'[r][i] = Wanted(l, k, i)
    <3>1. CASE Covers(l, b, i)
      BY <2>1, <3>1
    <3>2. CASE ~ Covers(l, b, i)
      <4>1. /\ H(5, i) => G(5, i)
            /\ H(2, i) => G(2, i)
        BY <1>7, <3>2
      <4> HIDE DEF G, H
      <4>2. Written(r, i)
        BY <1>4, <1>5, <2>3, <2>4, <4>1
      <4>3. QED
        BY <1>1, <1>2, <2>1, <3>2, <4>2 DEF OutputRight
    <3>3. QED
      BY <3>1, <3>2
  <2>5. QED
    BY <1>1, <2>4 DEF OutputRight
<1>14. CASE q = r
  <2>1. FinishReduce(r, b) => l.kind # "all_gather"
    BY StepNumbers DEF FinishReduce
  <2>2. QED
    BY <1>3, <1>10, <1>11, <1>12, <1>13, <1>14, <2>1 DEF BlockStep
<1>15. QED
  BY <1>9, <1>14

(* The promised results depend on the program alone.                        *)
LEMMA ExpectedSame ==
    ASSUME UNCHANGED program
    PROVE  /\ ExpectedResults' = ExpectedResults
           /\ \A k : Service!Expected(k)' = Service!Expected(k)
<1>1. \A k : Service!Expected(k)' = Service!Expected(k)
  BY DEF Service!Expected
<1>2. QED
  BY <1>1 DEF ExpectedResults

(* A block's step keeps the data right.                                     *)
LEMMA BlockStepData ==
    ASSUME IInv, DataInv, NEW r \in Ranks, NEW b \in Blocks, BlockStep(r, b)
    PROVE  DataInv'
<1>1. /\ stage[r] = "kernel" /\ Current(r) \in Launch
      /\ UNCHANGED <<program, position, stage, kernel, staging, results>>
      /\ \A p \in Ranks : Current(p)' = Current(p)
  BY BlockFrame
<1>2. DataTyping /\ \A q \in Ranks : Staged(q)
  BY DEF DataInv
<1>3. CASE Dispatch(r, b) \/ LeaveBarrier(r, b)
  <2>1. UNCHANGED <<tmp, out>>
    BY <1>3 DEF Dispatch, LeaveBarrier
  <2>2. DataTyping'
    BY <1>1, <1>2, <2>1, ExpectedSame DEF DataTyping
  <2>3. QED
    BY <1>1, <1>2, <2>2, BlockStepSums, BlockStepOutput DEF DataInv, Staged
<1>4. CASE FinishReduce(r, b) \/ FinishGather(r, b)
  <2>1. Current(r).kind \in OneStageKinds \/ Current(r).kind \in TwoStepKinds
        \/ FinishGather(r, b)
    BY <1>1, <1>4, LaunchFacts, StepNumbers DEF FinishReduce
  <2>2. /\ DOMAIN tmp' = Slots /\ \A s \in Slots : DOMAIN tmp'[s] = Ranks
        /\ \A s \in Slots, q \in Ranks : DOMAIN tmp'[s][q] = 0 .. MaxSize - 1
    <3>1. UNCHANGED tmp \/ (FinishReduce(r, b) /\ Current(r).kind \in TwoStepKinds)
      BY <1>4, <2>1, ReduceIntoOut, GatherEffect
    <3>2. CASE UNCHANGED tmp
      BY <1>2, <3>2 DEF DataTyping
    <3>3. CASE FinishReduce(r, b) /\ Current(r).kind \in TwoStepKinds
      BY <3>3, ReduceIntoTmp
    <3>4. QED
      BY <3>1, <3>2, <3>3
  <2>3. DOMAIN out' = Ranks /\ \A q \in Ranks \ {r} : out'[q] = out[q]
    BY <1>2, <1>4, <2>1, ReduceIntoTmp, ReduceIntoOut, GatherEffect DEF DataTyping
  <2>4. out'[r] = [i \in OutIndices(Current(r)) |-> out'[r][i]]
    <3>1. CASE FinishReduce(r, b) /\ Current(r).kind \in TwoStepKinds
      BY <1>1, <1>2, <3>1, ReduceIntoTmp DEF DataTyping
    <3>2. CASE FinishReduce(r, b) /\ Current(r).kind \in OneStageKinds
      <4>1. PICK D, v : v = out'[r] /\ D = OutIndices(Current(r))
        OBVIOUS
      <4>2. v = [i \in D |-> IF i \in ReducedHere(Current(r), r, b)
                             THEN Wanted(Current(r), position[r], i) ELSE out[r][i]]
        BY <3>2, <4>1, ReduceIntoOut
      <4>3. v = [i \in D |-> v[i]]
        BY <4>2
      <4>4. QED
        BY <4>1, <4>3
    <3>3. CASE FinishGather(r, b)
      <4>1. PICK D, v : v = out'[r] /\ D = OutIndices(Current(r))
        OBVIOUS
      <4>2. v = [i \in D |-> IF Covers(Current(r), b, i)
                             THEN Wanted(Current(r), position[r], i) ELSE out[r][i]]
        BY <3>3, <4>1, GatherEffect
      <4>3. v = [i \in D |-> v[i]]
        BY <4>2
      <4>4. QED
        BY <4>1, <4>3
    <3>4. QED
      BY <1>4, <2>1, <3>1, <3>2, <3>3
  <2>5. \A q \in Ranks : stage'[q] # "idle" =>
            out'[q] = [i \in OutIndices(Current(q)) |-> out'[q][i]]
    <3> SUFFICES ASSUME NEW q \in Ranks, stage'[q] # "idle"
                 PROVE  out'[q] = [i \in OutIndices(Current(q)) |-> out'[q][i]]
      OBVIOUS
    <3>1. CASE q = r
      BY <2>4, <3>1
    <3>2. CASE q # r
      BY <1>1, <1>2, <2>3, <3>2 DEF DataTyping
    <3>3. QED
      BY <3>1, <3>2
  <2>6. results' \in [Ranks -> Seq(ExpectedResults')]
        /\ \A q \in Ranks : Len(results'[q]) = position'[q] - 1
    BY <1>1, <1>2, ExpectedSame DEF DataTyping
  <2>7. DataTyping'
    BY <1>1, <2>2, <2>3, <2>5, <2>6 DEF DataTyping
  <2>8. QED
    BY <1>1, <1>2, <2>7, BlockStepSums, BlockStepOutput DEF DataInv, Staged
<1>5. QED
  BY <1>3, <1>4 DEF BlockStep

(* The staging copy begins: a fresh output tensor.                          *)
LEMMA BeginCopyData ==
    ASSUME IInv, DataInv, NEW r \in Ranks, BeginCopy(r) PROVE DataInv'
<1>1. /\ stage[r] = "idle" /\ stage' = [stage EXCEPT ![r] = "copy"]
      /\ out' = [out EXCEPT ![r] = [i \in OutIndices(Current(r)) |-> {}]]
      /\ UNCHANGED <<program, position, kernel, block, staging, tmp, results>>
  BY DEF BeginCopy
<1>2. DataTyping /\ \A q \in Ranks : Staged(q) /\ SumsKept(q) /\ OutputRight(q)
  BY DEF DataInv
<1>3. /\ stage'[r] = "copy" /\ \A q \in Ranks \ {r} : stage'[q] = stage[q]
      /\ DOMAIN out' = Ranks /\ out'[r] = [i \in OutIndices(Current(r)) |-> {}]
      /\ \A q \in Ranks \ {r} : out'[q] = out[q]
  BY <1>1, <1>2 DEF IInv, Typing, DataTyping
<1>4. \A q \in Ranks : Current(q)' = Current(q)
  BY <1>1 DEF Current
<1>5. DataTyping'
  <2>1. out'[r] = [i \in OutIndices(Current(r)) |-> out'[r][i]]
    BY <1>3
  <2>2. \A q \in Ranks : stage'[q] # "idle" =>
            out'[q] = [i \in OutIndices(Current(q)) |-> out'[q][i]]
    <3> SUFFICES ASSUME NEW q \in Ranks, stage'[q] # "idle"
                 PROVE  out'[q] = [i \in OutIndices(Current(q)) |-> out'[q][i]]
      OBVIOUS
    <3>1. CASE q = r
      BY <2>1, <3>1
    <3>2. CASE q # r
      BY <1>2, <1>3, <3>2 DEF DataTyping
    <3>3. QED
      BY <3>1, <3>2
  <2>3. results' \in [Ranks -> Seq(ExpectedResults')]
        /\ \A q \in Ranks : Len(results'[q]) = position'[q] - 1
    BY <1>1, <1>2, ExpectedSame DEF DataTyping
  <2>4. QED
    BY <1>1, <1>2, <1>3, <1>4, <2>2, <2>3 DEF DataTyping
<1>6. ASSUME NEW q \in Ranks PROVE Staged(q)' /\ SumsKept(q)' /\ OutputRight(q)'
  <2>1. stage'[q] = "kernel" => q # r /\ stage[q] = "kernel" /\ out'[q] = out[q]
    BY <1>3
  <2>2. Staged(q)'
    BY <1>1, <1>2, <1>4, <2>1 DEF Staged
  <2>3. SumsKept(q)'
    BY <1>1, <1>2, <2>1, SumsSame
  <2>4. \A i : Written(q, i)' => Written(q, i)
    BY <1>1, WrittenSame
  <2>5. OutputRight(q)'
    BY <1>1, <1>2, <2>1, <2>4, OutputSame
  <2>6. QED
    BY <2>2, <2>3, <2>5
<1>7. QED
  BY <1>5, <1>6 DEF DataInv

(* A kernel begins with nothing computed, but for what an all-gather's      *)
(* kernels before it have.                                                  *)
LEMMA NothingWritten ==
    ASSUME NEW r \in Ranks, Current(r) \in Launch, UNCHANGED <<program, position>>,
           \A c \in Blocks : block'[r][c] = 0,
           Current(r).kind = "all_gather" => kernel'[r] \in {1, 2},
           NEW i \in OutIndices(Current(r))
    PROVE  ~ Written(r, i)'
<1>1. Current(r)' = Current(r)
  BY DEF Current
<1>2. ASSUME Current(r).kind \in OneStageKinds
      PROVE  ~ (block'[r][ReduceBlock(Current(r), r, i)] >= 3)
  <2>1. i \in ReducedBy(Current(r), r) /\ Current(r).kind # "all_gather"
    BY <1>2 DEF OutIndices, ReducedBy, OneStageKinds
  <2>2. ReduceBlock(Current(r), r, i) \in Blocks
    BY <2>1, ReducedFacts
  <2>3. QED
    BY <2>2
<1>3. /\ \A c \in Blocks : ~ (block'[r][c] >= 5)
      /\ \A c \in Blocks : ~ (block'[r][c] >= 2)
  OBVIOUS
<1>4. Current(r).kind = "all_gather" => kernel'[r] # 3
  OBVIOUS
<1>5. QED
  BY <1>1, <1>2, <1>3, <1>4 DEF Written

(* The staging copy ends.                                                   *)
LEMMA EndCopyData ==
    ASSUME IInv, DataInv, NEW r \in Ranks, EndCopy(r) PROVE DataInv'
<1>1. /\ stage[r] = "copy" /\ stage' = [stage EXCEPT ![r] = "kernel"]
      /\ staging' = [staging EXCEPT ![Current(r).slot][r] = position[r]]
      /\ kernel' = [kernel EXCEPT ![r] = 1]
      /\ block' = [block EXCEPT ![r] = [b \in Blocks |-> 0]]
      /\ UNCHANGED <<program, position, tmp, out, results>>
  BY DEF EndCopy
<1>2. DataTyping /\ \A q \in Ranks : Staged(q) /\ SumsKept(q) /\ OutputRight(q)
  BY DEF DataInv
<1>3. Typing /\ Current(r) \in Launch /\ Current(r).slot \in Slots
  <2>1. Typing /\ position[r] <= Len(program)
    BY <1>1 DEF IInv, Launched
  <2>2. QED
    BY <2>1, CurrentFacts
<1>4. /\ stage'[r] = "kernel" /\ \A q \in Ranks \ {r} : stage'[q] = stage[q]
      /\ kernel'[r] = 1 /\ \A q \in Ranks \ {r} : kernel'[q] = kernel[q]
      /\ \A q \in Ranks \ {r} : block'[q] = block[q]
      /\ \A c \in Blocks : block'[r][c] = 0
      /\ staging'[Current(r).slot][r] = position[r]
      /\ \A s \in Slots, q \in Ranks \ {r} : staging'[s][q] = staging[s][q]
  BY <1>1, <1>3 DEF Typing
<1>5. \A q \in Ranks : Current(q)' = Current(q)
  BY <1>1 DEF Current
<1>6. DataTyping'
  <2>1. \A q \in Ranks : stage'[q] # "idle" => stage[q] # "idle"
    BY <1>1, <1>4
  <2>2. results' \in [Ranks -> Seq(ExpectedResults')]
        /\ \A q \in Ranks : Len(results'[q]) = position'[q] - 1
    BY <1>1, <1>2, ExpectedSame DEF DataTyping
  <2>3. \A q \in Ranks : stage'[q] # "idle" =>
            out'[q] = [i \in OutIndices(Current(q)) |-> out'[q][i]]
    BY <1>1, <1>2, <2>1 DEF DataTyping
  <2>4. QED
    BY <1>1, <1>2, <1>5, <2>2, <2>3 DEF DataTyping
<1>7. ASSUME NEW q \in Ranks PROVE Staged(q)' /\ SumsKept(q)' /\ OutputRight(q)'
  <2>1. CASE q = r
    <3>1. Staged(q)'
      BY <1>1, <1>4, <1>5, <2>1 DEF Staged
    <3>2. SumsKept(q)'
      BY <1>1, <1>2, <1>4, <2>1, SumsSame
    <3>3. \A i \in OutIndices(Current(q)) : ~ Written(q, i)'
      BY <1>1, <1>3, <1>4, <2>1, NothingWritten
    <3>4. OutputRight(q)'
      BY <1>5, <3>3 DEF OutputRight
    <3>5. QED
      BY <3>1, <3>2, <3>4
  <2>2. CASE q # r
    <3>1. Staged(q)'
      <4>1. CASE stage[q] # "kernel"
        BY <1>4, <2>2, <4>1 DEF Staged
      <4>2. CASE stage[q] = "kernel"
        <5>1. Current(q).slot \in Slots
          BY <4>2, KernelFacts, CurrentFacts DEF IInv
        <5>2. staging'[Current(q).slot][q] = staging[Current(q).slot][q]
          BY <1>4, <2>2, <5>1
        <5>3. QED
          BY <1>1, <1>2, <1>5, <4>2, <5>2 DEF Staged
      <4>3. QED
        BY <4>1, <4>2
    <3>2. SumsKept(q)'
      BY <1>1, <1>2, <1>4, <2>2, SumsSame
    <3>3. OutputRight(q)'
      BY <1>1, <1>4, <2>2, OtherRanksKeep
    <3>4. QED
      BY <3>1, <3>2, <3>3
  <2>3. QED
    BY <2>1, <2>2
<1>8. QED
  BY <1>6, <1>7 DEF DataInv

(* When the blocks of the last kernel of a launch but an all-gather's have  *)
(* ended, or those of an all-gather's copy kernel, the output is written.   *)
LEMMA AllWritten ==
    ASSUME IInv, NEW r \in Ranks, stage[r] = "kernel",
           \A b \in GridOf(r) : Finished(r, b),
           Current(r).kind = "all_gather" => kernel[r] \in {2, 3},
           NEW i \in OutIndices(Current(r))
    PROVE  Written(r, i)
<1> DEFINE l == Current(r)
<1>1. Typing /\ Launched(r)
  BY DEF IInv
<1>2. l \in Launch
  BY <1>1, KernelFacts, CurrentFacts
<1>3. \A b \in Blocks : block[r][b] \in Nat
  <2>1. \A b \in Blocks : block[r][b] \in 0 .. 5
    BY <1>1 DEF Typing
  <2>2. QED
    BY <2>1
<1>4. \A b \in GridOf(r) : block[r][b] > Len(CurrentKernel(r).steps)
  BY DEF Finished
<1>5. CASE l.kind \in OneStageKinds
  <2>1. l.kind # "all_gather"
    BY <1>5 DEF OneStageKinds
  <2>2. PICK b \in Blocks : b = ReduceBlock(l, r, i) /\ b < l.grid
    <3>1. i \in ReducedBy(l, r)
      BY <1>5, <2>1 DEF OutIndices, ReducedBy, OneStageKinds
    <3>2. QED
      BY <1>2, <2>1, <3>1, ReducedFacts
  <2>3. Len(CurrentKernel(r).steps) = 3 /\ b \in GridOf(r)
    BY <1>1, <1>5, <2>1, <2>2, StepFacts
  <2>4. block[r][b] >= 3
    BY <1>3, <1>4, <2>3
  <2>5. QED
    BY <1>5, <2>2, <2>4 DEF Written
<1>6. CASE l.kind \notin OneStageKinds
  <2>1. PICK b \in Blocks : b < GatherGrid(l) /\ Covers(l, b, i)
    BY <1>2, <1>6, GathersCover
  <2>2. CASE l.kind = "all_gather"
    <3>1. CASE kernel[r] = 3
      BY <2>2, <3>1 DEF Written
    <3>2. CASE kernel[r] = 2
      <4>1. CurrentKernel(r).grid = AllGatherGrid(l)
        BY <1>1, <2>2, <3>2, KernelFacts DEF Does
      <4>2. b \in GridOf(r)
        <5>1. b \in Nat /\ b < AllGatherGrid(l)
          BY <1>2, <2>1, <2>2, LaunchFacts DEF GatherGrid
        <5>2. AllGatherGrid(l) \in Int
          <6>1. NRanks \in Nat \ {0} /\ l.grid \in Nat
            BY <1>2, LaunchFacts
          <6>2. l.grid \div NRanks \in Nat
            BY <6>1, DivMod
          <6>3. (l.grid \div NRanks) * NRanks \in Int
            BY <6>1, <6>2
          <6>4. QED
            BY <6>1, <6>3 DEF AllGatherGrid
        <5> DEFINE g == AllGatherGrid(l)
        <5>3. GridOf(r) = 0 .. g - 1
          BY <4>1 DEF GridOf
        <5> HIDE DEF g
        <5>4. b \in Nat /\ b < g /\ g \in Int
          BY <5>1, <5>2 DEF g
        <5>5. QED
          BY <5>3, <5>4
      <4>3. Len(CurrentKernel(r).steps) = 1
        BY <1>1, <2>2, StepFacts
      <4>4. block[r][b] >= 2
        BY <1>3, <1>4, <4>2, <4>3
      <4>5. QED
        BY <2>1, <2>2, <3>2, <4>4 DEF Written
    <3>3. QED
      BY <2>2, <3>1, <3>2
  <2>3. CASE l.kind # "all_gather"
    <3>1. l.kind \in TwoStepKinds
      BY <1>2, <1>6, <2>3, LaunchFacts
    <3>2. Len(CurrentKernel(r).steps) = 4 /\ b \in GridOf(r)
      BY <1>1, <1>6, <2>1, <2>3, StepFacts DEF GatherGrid
    <3>3. block[r][b] >= 5
      BY <1>3, <1>4, <3>2
    <3>4. QED
      BY <2>1, <3>1, <3>3 DEF Written
  <2>4. QED
    BY <2>2, <2>3
<1>7. QED
  BY <1>5, <1>6

(* The next kernel of an all-gather begins: what its copy kernel has        *)
(* gathered is the output.                                                  *)
LEMMA NextKernelData ==
    ASSUME IInv, DataInv, NEW r \in Ranks, FinishKernel(r),
           kernel[r] < Len(Kernels(Current(r)))
    PROVE  DataInv'
<1>1. /\ stage[r] = "kernel" /\ \A b \in GridOf(r) : Finished(r, b)
      /\ kernel' = [kernel EXCEPT ![r] = kernel[r] + 1]
      /\ block' = [block EXCEPT ![r] = [b \in Blocks |-> 0]]
      /\ UNCHANGED <<program, position, stage, results, staging, tmp, out>>
  BY DEF FinishKernel
<1>2. /\ DataTyping /\ Typing /\ Launched(r)
      /\ \A q \in Ranks : Staged(q) /\ SumsKept(q) /\ OutputRight(q)
  BY DEF DataInv, IInv
<1>3. Current(r).kind = "all_gather" /\ kernel[r] \in {1, 2} /\ Current(r) \in Launch
  <2>1. CASE Current(r).kind # "all_gather"
    <3>1. kernel[r] = 1 /\ Len(Kernels(Current(r))) = 1
      BY <1>1, <1>2, <2>1, KernelFacts
    <3>2. QED
      BY <3>1
  <2>2. CASE Current(r).kind = "all_gather"
    <3>1. Len(Kernels(Current(r))) = 3 /\ kernel[r] \in 1 .. 3
      BY <1>1, <1>2, <2>2, KernelFacts DEF Typing
    <3>2. kernel[r] \in {1, 2}
      BY <3>1
    <3>3. QED
      BY <1>1, <1>2, <2>2, <3>2, KernelFacts, CurrentFacts
  <2>3. QED
    BY <2>1, <2>2
<1>4. /\ kernel'[r] = kernel[r] + 1 /\ \A q \in Ranks \ {r} : kernel'[q] = kernel[q]
      /\ \A q \in Ranks \ {r} : block'[q] = block[q]
      /\ \A c \in Blocks : block'[r][c] = 0
  BY <1>1, <1>2 DEF Typing
<1>5. \A q \in Ranks : Current(q)' = Current(q)
  BY <1>1 DEF Current
<1>6. DataTyping'
  BY <1>1, <1>2, <1>5, ExpectedSame DEF DataTyping
<1>7. ASSUME NEW q \in Ranks PROVE Staged(q)' /\ SumsKept(q)' /\ OutputRight(q)'
  <2>1. Staged(q)'
    BY <1>1, <1>2, <1>5 DEF Staged
  <2>2. CASE q = r
    <3>1. SumsKept(q)'
      BY <1>1, <1>2, <1>3, <2>2, SumsSame DEF TwoStepKinds
    <3>2. ASSUME NEW i \in OutIndices(Current(r)), Written(r, i)'
          PROVE  out[r][i] = Wanted(Current(r), position[r], i)
      <4>1. kernel'[r] \notin {1, 2}
        BY <1>1, <1>3, <1>4, <3>2, NothingWritten
      <4>2. kernel[r] = 2
        BY <1>3, <1>4, <4>1
      <4>3. Written(r, i)
        BY <1>1, <4>2, AllWritten
      <4>4. QED
        BY <1>1, <1>2, <4>3 DEF OutputRight
    <3>3. OutputRight(q)'
      BY <1>1, <1>5, <2>2, <3>2 DEF OutputRight
    <3>4. QED
      BY <2>1, <3>1, <3>3
  <2>3. CASE q # r
    <3>1. SumsKept(q)'
      BY <1>1, <1>2, <1>4, <2>3, SumsSame
    <3>2. OutputRight(q)'
      BY <1>1, <1>4, <2>3, OtherRanksKeep
    <3>3. QED
      BY <2>1, <3>1, <3>2
  <2>4. QED
    BY <2>2, <2>3
<1>8. QED
  BY <1>6, <1>7 DEF DataInv

(* The output of a launch that completes is the promised one.               *)
LEMMA CompleteOutput ==
    ASSUME IInv, DataInv, NEW r \in Ranks, FinishKernel(r),
           ~ (kernel[r] < Len(Kernels(Current(r))))
    PROVE  /\ position[r] \in 1 .. Len(program)
           /\ kernel[r] = Len(Kernels(Current(r)))
           /\ out[r] = Service!Expected(position[r])
           /\ Service!Expected(position[r]) \in ExpectedResults
<1>1. stage[r] = "kernel" /\ \A b \in GridOf(r) : Finished(r, b)
  BY DEF FinishKernel
<1>2. Typing /\ Launched(r) /\ DataTyping /\ OutputRight(r)
  BY DEF DataInv, IInv
<1>3. position[r] \in 1 .. Len(program)
  <2>1. position[r] \in 1 .. Len(program) + 1 /\ position[r] <= Len(program)
    BY <1>1, <1>2 DEF Typing, Launched
  <2>2. Len(program) \in Nat
    BY PositionsClose
  <2>3. QED
    BY <2>1, <2>2
<1>4. /\ kernel[r] = Len(Kernels(Current(r)))
      /\ Current(r).kind = "all_gather" => kernel[r] = 3
  <2>1. kernel[r] \in 1 .. 3 /\ kernel[r] <= Len(Kernels(Current(r)))
    BY <1>1, <1>2 DEF Typing, Launched
  <2>2. /\ Len(Kernels(Current(r))) \in {1, 3}
        /\ Current(r).kind = "all_gather" => Len(Kernels(Current(r))) = 3
    BY <1>1, <1>2, KernelFacts
  <2>3. kernel[r] = Len(Kernels(Current(r)))
    BY <2>1, <2>2
  <2>4. QED
    BY <2>2, <2>3
<1>5. \A i \in OutIndices(Current(r)) : out[r][i] = Wanted(Current(r), position[r], i)
  <2> SUFFICES ASSUME NEW i \in OutIndices(Current(r))
               PROVE  out[r][i] = Wanted(Current(r), position[r], i)
    OBVIOUS
  <2>1. Written(r, i)
    BY <1>1, <1>4, AllWritten
  <2>2. QED
    BY <1>1, <1>2, <2>1 DEF OutputRight
<1>6. out[r] = [i \in OutIndices(Current(r)) |-> Wanted(Current(r), position[r], i)]
  <2>1. out[r] = [i \in OutIndices(Current(r)) |-> out[r][i]]
    BY <1>1, <1>2 DEF DataTyping
  <2>2. QED
    BY <1>5, <2>1
<1>7. Service!Expected(position[r])
          = [i \in OutIndices(Current(r)) |-> Wanted(Current(r), position[r], i)]
  BY <1>2, <1>3, ExpectedResult DEF Current
<1>8. QED
  BY <1>3, <1>4, <1>6, <1>7 DEF ExpectedResults

(* A launch completes: its sums stay for the ranks still in it.             *)
LEMMA FinishLaunchData ==
    ASSUME IInv, DataInv, NEW r \in Ranks, FinishKernel(r),
           ~ (kernel[r] < Len(Kernels(Current(r))))
    PROVE  DataInv'
<1>1. /\ stage[r] = "kernel" /\ \A b \in GridOf(r) : Finished(r, b)
      /\ position' = [position EXCEPT ![r] = position[r] + 1]
      /\ stage' = [stage EXCEPT ![r] = "idle"]
      /\ results' = [results EXCEPT ![r] = Append(results[r], out[r])]
      /\ UNCHANGED <<program, kernel, block, staging, tmp, out>>
  BY DEF FinishKernel
<1>2. /\ DataTyping /\ Typing /\ Launched(r)
      /\ \A q \in Ranks : Staged(q) /\ SumsKept(q) /\ OutputRight(q)
  BY DEF DataInv, IInv
<1>3. /\ position[r] \in 1 .. Len(program) /\ out[r] \in ExpectedResults
      /\ kernel[r] = Len(Kernels(Current(r)))
  BY CompleteOutput
<1>4. /\ position'[r] = position[r] + 1 /\ stage'[r] = "idle"
      /\ \A q \in Ranks \ {r} : position'[q] = position[q] /\ stage'[q] = stage[q]
      /\ results'[r] = Append(results[r], out[r])
      /\ \A q \in Ranks \ {r} : results'[q] = results[q]
  BY <1>1, <1>2 DEF Typing, DataTyping
<1>5. \A q \in Ranks \ {r} : Current(q)' = Current(q)
  BY <1>1, <1>4 DEF Current
<1>6. \A q \in Ranks : /\ position[q] \in Nat
                       /\ position[q] \in {position[r], position[r] + 1}
  BY <1>1, <1>3, CompletesAfterAllBegan, PositionsClose
<1>7. DataTyping'
  <2>1. results[r] \in Seq(ExpectedResults) /\ Len(results[r]) = position[r] - 1
    BY <1>2 DEF DataTyping
  <2>2. /\ Append(results[r], out[r]) \in Seq(ExpectedResults)
        /\ Len(Append(results[r], out[r])) = Len(results[r]) + 1
    BY <1>3, <2>1
  <2>3. Len(results'[r]) = position'[r] - 1
    <3>1. Len(results'[r]) = (position[r] - 1) + 1
      BY <1>4, <2>1, <2>2
    <3>2. QED
      BY <1>4, <1>6, <3>1
  <2>4. results' \in [Ranks -> Seq(ExpectedResults')]
    BY <1>1, <1>2, <2>2, ExpectedSame DEF DataTyping
  <2>5. \A q \in Ranks : Len(results'[q]) = position'[q] - 1
    BY <1>2, <1>4, <2>3 DEF DataTyping
  <2>6. \A q \in Ranks : stage'[q] # "idle" => q # r /\ stage[q] # "idle"
    BY <1>4
  <2>7. \A q \in Ranks : stage'[q] # "idle" =>
            out'[q] = [i \in OutIndices(Current(q)') |-> out'[q][i]]
    BY <1>1, <1>2, <1>5, <2>6 DEF DataTyping
  <2>8. QED
    BY <1>1, <1>2, <2>4, <2>5, <2>7 DEF DataTyping
<1>8. ASSUME NEW q \in Ranks PROVE Staged(q)' /\ SumsKept(q)' /\ OutputRight(q)'
  <2>1. \A i, k : HoldsSum(q, k, i)' <=> HoldsSum(q, k, i)
    BY <1>1 DEF HoldsSum
  <2>2. CASE q = r
    <3>1. ASSUME NEW p \in Ranks, position'[r] = position'[p] + 1,
                 program[position'[p]].kind \in TwoStepKinds,
                 NEW i \in ReducedBy(program[position'[p]], r)
          PROVE  \A k : k = position'[p] => HoldsSum(r, k, i)
      <4>1. p # r /\ position'[p] = position[p] /\ position[p] = position[r]
        BY <1>4, <1>6, <3>1
      <4>2. /\ program[position'[p]] = Current(r) /\ Current(r).kind \in TwoStepKinds
            /\ i \in ReducedBy(Current(r), r)
        BY <3>1, <4>1 DEF Current
      <4>3. Current(r) \in Launch /\ Current(r).kind # "all_gather"
            /\ Current(r).kind \notin OneStageKinds
        BY <1>1, <1>2, <4>2, KernelFacts, CurrentFacts DEF TwoStepKinds, OneStageKinds
      <4>4. PICK b \in Blocks : b = ReduceBlock(Current(r), r, i) /\ b < Current(r).grid
        BY <4>2, <4>3, ReducedFacts
      <4>5. Len(CurrentKernel(r).steps) = 4 /\ b \in GridOf(r)
        BY <1>1, <1>2, <4>3, <4>4, StepFacts
      <4>6. block[r][b] > 4 /\ block[r][b] \in 0 .. 5
        BY <1>1, <1>2, <4>5 DEF Finished, Typing
      <4>7. block[r][b] >= 3
        BY <4>6
      <4>8. HoldsSum(r, position[r], i)
        BY <1>1, <1>2, <4>2, <4>4, <4>7 DEF SumsKept
      <4>9. QED
        BY <4>1, <4>8
    <3>2. ASSUME NEW p \in Ranks, position'[r] = position'[p] + 1,
                 program'[position'[p]].kind \in TwoStepKinds,
                 NEW i \in ReducedBy(program'[position'[p]], r)
          PROVE  \A k : k = position'[p] => HoldsSum(r, k, i)'
      BY <1>1, <2>1, <2>2, <3>1, <3>2
    <3>3. SumsKept(r)'
      BY <1>4, <3>2 DEF SumsKept, HoldsSum
    <3>4. Staged(r)' /\ OutputRight(r)'
      BY <1>4 DEF Staged, OutputRight
    <3>5. QED
      BY <2>2, <3>3, <3>4
  <2>3. CASE q # r
    <3>1. Current(q)' = Current(q) /\ position'[q] = position[q] /\ stage'[q] = stage[q]
      BY <1>4, <1>5, <2>3
    <3>2. Staged(q)'
      BY <1>1, <1>2, <3>1 DEF Staged
    <3>3. \A i : Written(q, i)' <=> Written(q, i)
      BY <1>1, <3>1 DEF Written
    <3>4. OutputRight(q)'
      BY <1>1, <1>2, <3>1, <3>3 DEF OutputRight
    <3>5. position[q] # (position[r] + 1) + 1
      BY <1>6
    <3>6. \A p \in Ranks : position'[q] = position'[p] + 1 =>
              position'[p] = position[p] /\ position[q] = position[p] + 1
      BY <1>4, <3>1, <3>5
    <3>7. SumsKept(q)
      BY <1>2
    <3>8. ASSUME NEW p \in Ranks, position'[q] = position'[p] + 1,
                 program'[position'[p]].kind \in TwoStepKinds,
                 NEW i \in ReducedBy(program'[position'[p]], q)
          PROVE  \A k : k = position'[p] => HoldsSum(q, k, i)'
      BY <1>1, <2>1, <3>6, <3>7, <3>8 DEF SumsKept
    <3>9. ASSUME stage'[q] = "kernel", Current(q).kind \in TwoStepKinds,
                 NEW i \in ReducedBy(Current(q), q),
                 block'[q][ReduceBlock(Current(q), q, i)] >= 3
          PROVE  \A k : k = position'[q] => HoldsSum(q, k, i)'
      BY <1>1, <2>1, <3>1, <3>7, <3>9 DEF SumsKept
    <3>10. SumsKept(q)'
      BY <3>1, <3>8, <3>9 DEF SumsKept, HoldsSum
    <3>11. QED
      BY <3>2, <3>4, <3>10
  <2>4. QED
    BY <2>2, <2>3
<1>9. QED
  BY <1>7, <1>8 DEF DataInv

(* At first there is no output, and no result.                              *)
LEMMA InitData == ASSUME Init PROVE DataInv
<1>1. /\ \A r \in Ranks : stage[r] = "idle" /\ position[r] = 1
      /\ results = [r \in Ranks |-> <<>>]
  BY DEF Init
<1>2. DataTyping
  <2>1. DOMAIN tmp = Slots /\ DOMAIN out = Ranks
    BY DEF Init
  <2>2. \A s \in Slots : tmp[s] = [r \in Ranks |-> [i \in 0 .. MaxSize - 1 |-> {}]]
    BY DEF Init
  <2>3. /\ \A s \in Slots : DOMAIN tmp[s] = Ranks
        /\ \A s \in Slots, r \in Ranks : DOMAIN tmp[s][r] = 0 .. MaxSize - 1
    BY <2>2
  <2>4. results \in [Ranks -> Seq(ExpectedResults)] /\ Len(<<>>) = 0
    BY <1>1
  <2>5. \A r \in Ranks : Len(results[r]) = position[r] - 1
    BY <1>1
  <2>6. QED
    BY <1>1, <2>1, <2>3, <2>4, <2>5 DEF DataTyping
<1>3. \A q \in Ranks : SumsKept(q)
  BY <1>1 DEF SumsKept
<1>4. \A q \in Ranks : Staged(q) /\ OutputRight(q)
  BY <1>1 DEF Staged, OutputRight
<1>5. QED
  BY <1>2, <1>3, <1>4 DEF DataInv

(* In every reachable state the staging buffers and the sums are those the  *)
(* ranks will read, and what is written of the outputs is right.            *)
THEOREM DataInvariant == Spec => []DataInv
<1>1. Init => DataInv
  BY InitData
<1>2. IInv /\ DataInv /\ [Next]_vars => DataInv'
  <2> SUFFICES ASSUME IInv, DataInv, [Next]_vars PROVE DataInv'
    OBVIOUS
  <2>1. CASE UNCHANGED vars
    <3>1. /\ UNCHANGED <<program, position, stage, kernel, block, staging, tmp, out, results>>
      BY <2>1 DEF vars
    <3>2. \A q \in Ranks : Current(q)' = Current(q)
      BY <3>1 DEF Current
    <3>3. \A q \in Ranks : Staged(q) /\ SumsKept(q) /\ OutputRight(q)
      BY DEF DataInv
    <3>4. DataTyping'
      BY <3>1, <3>2, ExpectedSame DEF DataInv, DataTyping
    <3>5. ASSUME NEW q \in Ranks PROVE SumsKept(q)' /\ OutputRight(q)' /\ Staged(q)'
      <4>1. SumsKept(q)'
        BY <3>1, <3>3, SumsSame
      <4>2. \A i : Written(q, i)' => Written(q, i)
        BY <3>1, WrittenSame
      <4>3. OutputRight(q)'
        BY <3>1, <3>3, <4>2, OutputSame
      <4>4. Staged(q)'
        BY <3>1, <3>2, <3>3 DEF Staged
      <4>5. QED
        BY <4>1, <4>3, <4>4
    <3>6. QED
      BY <3>4, <3>5 DEF DataInv
  <2>2. ASSUME NEW r \in Ranks, NEW b \in Blocks, BlockStep(r, b) PROVE DataInv'
    BY <2>2, BlockStepData
  <2>3. ASSUME NEW r \in Ranks, StreamStep(r) PROVE DataInv'
    BY <2>3, BeginCopyData, EndCopyData, NextKernelData, FinishLaunchData DEF StreamStep
  <2>4. QED
    BY <2>1, <2>2, <2>3 DEF Next
<1>3. QED
  BY <1>1, <1>2, Invariant, PTL DEF Spec

-----------------------------------------------------------------------------
(* The refinement.                                                          *)

(* the inputs rank r has handed over, as the refinement mapping counts them *)
Supplied == [r \in Ranks |-> IF stage[r] = "kernel" THEN position[r] ELSE position[r] - 1]

(* The end of a staging copy hands the input over.                          *)
LEMMA EndCopySupplies ==
    ASSUME IInv, DataInv, NEW r \in Ranks, EndCopy(r) PROVE Service!Supply(r)
<1>1. /\ stage[r] = "copy" /\ stage' = [stage EXCEPT ![r] = "kernel"]
      /\ UNCHANGED <<program, position, results>>
  BY DEF EndCopy
<1>2. stage'[r] = "kernel" /\ \A q \in Ranks \ {r} : stage'[q] = stage[q]
  BY <1>1 DEF IInv, Typing
<1>3. position[r] \in Nat /\ position[r] <= Len(program) /\ Len(program) \in Nat
  BY <1>1, PositionsClose DEF IInv, Launched
<1>4. Len(results[r]) = position[r] - 1
  BY DEF DataInv, DataTyping
<1>5. Supplied[r] = position[r] - 1 /\ Supplied' = [Supplied EXCEPT ![r] = Supplied[r] + 1]
  <2>1. Supplied'[r] = position[r]
    BY <1>1, <1>2 DEF Supplied
  <2>2. \A q \in Ranks \ {r} : Supplied'[q] = Supplied[q]
    BY <1>1, <1>2 DEF Supplied
  <2>3. Supplied[r] = position[r] - 1 /\ (position[r] - 1) + 1 = position[r]
    BY <1>1, <1>3 DEF Supplied
  <2>4. QED
    BY <2>1, <2>2, <2>3 DEF Supplied
<1>6. Supplied[r] < Len(program)
  BY <1>3, <1>5
<1>7. QED
  BY <1>1, <1>4, <1>5, <1>6 DEF Service!Supply, Supplied

(* The end of a launch returns its result.                                  *)
LEMMA FinishLaunchReturns ==
    ASSUME IInv, DataInv, NEW r \in Ranks, FinishKernel(r),
           ~ (kernel[r] < Len(Kernels(Current(r))))
    PROVE  Service!Return(r)
<1>1. /\ stage[r] = "kernel" /\ \A b \in GridOf(r) : Finished(r, b)
      /\ position' = [position EXCEPT ![r] = position[r] + 1]
      /\ stage' = [stage EXCEPT ![r] = "idle"]
      /\ results' = [results EXCEPT ![r] = Append(results[r], out[r])]
      /\ UNCHANGED program
  BY DEF FinishKernel
<1>2. kernel[r] = Len(Kernels(Current(r))) /\ out[r] = Service!Expected(position[r])
  BY CompleteOutput
<1>3. \A q \in Ranks : /\ position[q] \in Nat
                       /\ position[q] \in {position[r], position[r] + 1}
                       /\ position[q] = position[r] => stage[q] = "kernel"
  BY <1>1, <1>2, CompletesAfterAllBegan, PositionsClose
<1>4. Supplied[r] = position[r] /\ Len(results[r]) = position[r] - 1
  BY <1>1 DEF Supplied, DataInv, DataTyping
<1>5. Supplied[r] = Len(results[r]) + 1
  BY <1>3, <1>4
<1>6. \A q \in Ranks : Supplied[q] >= Supplied[r]
  <2> SUFFICES ASSUME NEW q \in Ranks PROVE Supplied[q] >= Supplied[r]
    OBVIOUS
  <2>1. CASE position[q] = position[r]
    BY <1>3, <1>4, <2>1 DEF Supplied
  <2>2. CASE position[q] = position[r] + 1
    <3>1. Supplied[q] \in {position[q], position[q] - 1}
      BY DEF Supplied
    <3>2. QED
      BY <1>3, <1>4, <2>2, <3>1
  <2>3. QED
    BY <1>3, <2>1, <2>2
<1>7. Supplied' = Supplied
  <2>1. /\ position'[r] = position[r] + 1 /\ stage'[r] = "idle"
        /\ \A q \in Ranks \ {r} : position'[q] = position[q] /\ stage'[q] = stage[q]
    BY <1>1 DEF IInv, Typing
  <2>2. (position[r] + 1) - 1 = position[r]
    BY <1>3
  <2>3. \A q \in Ranks : Supplied'[q] = Supplied[q]
    BY <1>1, <2>1, <2>2 DEF Supplied
  <2>4. QED
    BY <2>3 DEF Supplied
<1>8. results' = [results EXCEPT ![r] = Append(results[r], Service!Expected(Supplied[r]))]
  BY <1>1, <1>2, <1>4
<1>9. QED
  BY <1>1, <1>5, <1>6, <1>7, <1>8 DEF Service!Return, Service!Ranks, Ranks, Supplied

(* Every other step is invisible to the callers.                            *)
LEMMA OtherStepsStutter ==
    ASSUME UNCHANGED <<program, position, results>>,
           \A r \in Ranks : stage'[r] = "kernel" <=> stage[r] = "kernel"
    PROVE  UNCHANGED Service!vars
<1>1. Supplied' = Supplied
  BY DEF Supplied
<1>2. QED
  BY <1>1 DEF Service!vars, Supplied

(* The kernels, their barriers and their buffers implement the service:     *)
(* every result combines exactly the inputs of its own launch.              *)
THEOREM Refinement == Spec => ImplementsCollectives
<1>1. Init => Service!Init
  <2> SUFFICES ASSUME Init PROVE Service!Init
    OBVIOUS
  <2>1. Supplied = [r \in Ranks |-> 0]
    BY DEF Init, Supplied
  <2>2. program \in Programs /\ results = [r \in Ranks |-> <<>>]
    BY DEF Init
  <2>3. QED
    BY <2>1, <2>2 DEF Service!Init, Service!Ranks, Ranks, Supplied
<1>2. IInv /\ DataInv /\ [Next]_vars => [Service!Next]_(Service!vars)
  <2> SUFFICES ASSUME IInv, DataInv, [Next]_vars
               PROVE  Service!Next \/ UNCHANGED Service!vars
    OBVIOUS
  <2>1. CASE UNCHANGED vars
    BY <2>1, OtherStepsStutter DEF vars
  <2>2. ASSUME NEW r \in Ranks, NEW b \in Blocks, BlockStep(r, b)
        PROVE  UNCHANGED Service!vars
    <3>1. UNCHANGED <<program, position, stage, results>>
      BY <2>2, BlockFrame
    <3>2. QED
      BY <3>1, OtherStepsStutter
  <2>3. ASSUME NEW r \in Ranks, BeginCopy(r) PROVE UNCHANGED Service!vars
    <3>1. /\ UNCHANGED <<program, position, results>>
          /\ stage[r] = "idle" /\ stage' = [stage EXCEPT ![r] = "copy"]
      BY <2>3 DEF BeginCopy
    <3>2. \A q \in Ranks : stage'[q] = "kernel" <=> stage[q] = "kernel"
      BY <3>1 DEF IInv, Typing
    <3>3. QED
      BY <3>1, <3>2, OtherStepsStutter
  <2>4. ASSUME NEW r \in Ranks, EndCopy(r) PROVE Service!Next
    BY <2>4, EndCopySupplies DEF Service!Next, Service!Ranks, Ranks
  <2>5. ASSUME NEW r \in Ranks, FinishKernel(r)
        PROVE  Service!Next \/ UNCHANGED Service!vars
    <3>1. CASE kernel[r] < Len(Kernels(Current(r)))
      <4>1. UNCHANGED <<program, position, stage, results>>
        BY <2>5, <3>1 DEF FinishKernel
      <4>2. QED
        BY <4>1, OtherStepsStutter
    <3>2. CASE ~ (kernel[r] < Len(Kernels(Current(r))))
      BY <2>5, <3>2, FinishLaunchReturns DEF Service!Next, Service!Ranks, Ranks
    <3>3. QED
      BY <3>1, <3>2
  <2>6. QED
    BY <2>1, <2>2, <2>3, <2>4, <2>5 DEF Next, StreamStep
<1>3. QED
  BY <1>1, <1>2, Invariant, DataInvariant, PTL
     DEF Spec, ImplementsCollectives, Service!Spec
=============================================================================
