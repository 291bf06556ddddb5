----------------------------- MODULE TestTrans -----------------------------
(* The evaluation of the transposes.  test-trans runs tracegen once for     *)
(* each registered function, filters the trace, feeds it to the reference   *)
(* cache simulator (a program the repository has as a binary only, taken to *)
(* do what LruCache says, as csim does) and prints one result line for the  *)
(* driver.  tracegen started by hand, without -F, runs all the functions in *)
(* one process and on one matrix B.                                         *)
EXTENDS Transpose

CONSTANT OtherSizes     \* sizes tried that transpose_submit does not know

ASSUME SizesAssumption == OtherSizes \subseteq 1..256

VARIABLES
    tool,           \* the program that is started: "test-trans" or "tracegen"
    shape,          \* its options -M and -N
    pc,             \* "launch", "run", "validate", "collect" or "done"
    fn,             \* index of the function being evaluated
    at,             \* the iteration that the function is at
    B,              \* the matrix B of the tracegen process
    read,           \* history: the elements of A that the function has loaded
    sim,            \* the reference simulator at this point of the trace
    func_list,      \* the registered functions with what is known of them
    results,        \* the results of the submission
    output          \* the result line, or the exit status of tracegen

vars == <<tool, shape, pc, fn, at, B, read, sim, func_list, results, output>>

Cache == INSTANCE LruCache WITH
    s <- 5, E <- 1, b <- 5, Addresses <- {}, order <- sim.order, hits <- sim.hits,
    misses <- sim.misses, evictions <- sim.evictions

ColdCache == [order |-> [i \in 0..31 |-> <<>>], hits |-> 0, misses |-> 0, evictions |-> 0]

\* The simulator c after a piece of trace.
Replay(c, addresses) ==
    LET after[n \in 0..Len(addresses)] ==
            IF n = 0 THEN c ELSE Cache!Access(after[n - 1], addresses[n])
    IN  after[Len(addresses)]

INT_MAX == 2147483647

NONE == [correct |-> 0 - 1, misses |-> 0 - 1]

Shapes == Known \cup [M : OtherSizes, N : OtherSizes]

\* The marker addresses and the globals that tracegen reads between them.
MARKER_START == 6828300     \* 0x68310c
MARKER_END == 6828301       \* 0x68310d
GlobalM == 6828288          \* 0x683100
GlobalN == 6828292          \* 0x683104
FuncPtr(f) == 6828320 + 32 * (f - 1)    \* 0x683120

registerFunctions ==
    <<[function |-> "transpose_submit", correct |-> 0, num_misses |-> 0],
      [function |-> "trans", correct |-> 0, num_misses |-> 0]>>

\* initMatrix fills B with random numbers, here 0, which no element of A is.
initMatrix == [x \in 0..(shape.M - 1) |-> [y \in 0..(shape.N - 1) |-> 0]]

Function == func_list[fn].function

IsSubmission == Function = "transpose_submit"

Init ==
    /\ tool \in {"test-trans", "tracegen"}
    /\ shape \in Shapes
    /\ pc = "launch"
    /\ fn = 1
    /\ at = Begin("trans", shape)
    /\ B = initMatrix
    /\ read = {}
    /\ sim = ColdCache
    /\ func_list = registerFunctions
    /\ results = [funcid |-> 0 - 1, correct |-> 0, misses |-> INT_MAX]
    /\ output = NONE

\* The function is called, with M, N and its address read between the markers.
\* test-trans has started a new process for it and looks at its description.
Launch ==
    /\ pc = "launch"
    /\ pc' = "run"
    /\ at' = Begin(Function, shape)
    /\ read' = {}
    /\ IF tool = "test-trans"
       THEN /\ B' = initMatrix
            /\ sim' = Replay(ColdCache, <<MARKER_START, FuncPtr(fn), GlobalN, GlobalM>>)
            /\ results' = IF IsSubmission THEN [results EXCEPT !.funcid = fn] ELSE results
       ELSE UNCHANGED <<B, sim, results>>
    /\ UNCHANGED <<tool, shape, fn, func_list, output>>

\* One iteration of the function's inner loop.
Iterate ==
    /\ pc = "run"
    /\ ~Finished(shape, at)
    /\ LET accesses == Body(Function, shape, at)
       IN  /\ B' = Performed(shape, B, accesses)
           /\ read' = read \cup {Element(shape, accesses[n].x, accesses[n].y) :
                                    n \in {n \in DOMAIN accesses : accesses[n].matrix = "A"}}
           /\ sim' = IF tool = "test-trans"
                     THEN Replay(sim, [n \in DOMAIN accesses |-> Address(shape, accesses[n])])
                     ELSE sim
    /\ at' = Advance(Function, shape, at)
    /\ UNCHANGED <<tool, shape, pc, fn, func_list, results, output>>

Return ==
    /\ pc = "run"
    /\ Finished(shape, at)
    /\ sim' = IF tool = "test-trans" THEN Replay(sim, <<MARKER_END>>) ELSE sim
    /\ pc' = "validate"
    /\ UNCHANGED <<tool, shape, fn, at, B, read, func_list, results, output>>

\* Mutant: a function that fails the validation is tried again.
NextFunctionStays ==
    IF fn < Len(func_list)
    THEN fn' = (IF func_list'[fn].correct = 0 THEN fn ELSE fn + 1) /\ pc' = "launch" /\ UNCHANGED output
    ELSE fn' = fn /\ pc' = "done" /\ output' = [correct |-> results'.correct, misses |-> results'.misses]

\* The loop over func_list, and the result line behind it.
NextFunction ==
    IF fn < Len(func_list)
    THEN fn' = fn + 1 /\ pc' = "launch" /\ UNCHANGED output
    ELSE fn' = fn /\ pc' = "done" /\ output' = [correct |-> results'.correct, misses |-> results'.misses]

\* In test-trans a function that fails the validation is skipped.
Validate ==
    /\ pc = "validate"
    /\ tool = "test-trans"
    /\ IF is_transpose(shape, B)
       THEN /\ func_list' = [func_list EXCEPT ![fn].correct = 1]
            /\ results' = IF results.funcid = fn THEN [results EXCEPT !.correct = 1] ELSE results
            /\ pc' = "collect"
            /\ UNCHANGED <<fn, output>>
       ELSE UNCHANGED <<func_list, results>> /\ NextFunction
    /\ UNCHANGED <<tool, shape, at, B, read, sim>>

\* tracegen stops at the first function that fails; 0 is its success.
ValidateAll ==
    /\ pc = "validate"
    /\ tool = "tracegen"
    /\ IF ~is_transpose(shape, B)
       THEN fn' = fn /\ pc' = "done" /\ output' = [NONE EXCEPT !.correct = fn]
       ELSE IF fn < Len(func_list) THEN fn' = fn + 1 /\ pc' = "launch" /\ UNCHANGED output
       ELSE fn' = fn /\ pc' = "done" /\ output' = [NONE EXCEPT !.correct = 0]
    /\ UNCHANGED <<tool, shape, at, B, read, sim, func_list, results>>

\* Mutant: the misses of every function are taken for the submission's.
CollectAny ==
    /\ pc = "collect"
    /\ func_list' = [func_list EXCEPT ![fn].num_misses = sim.misses]
    /\ results' = [results EXCEPT !.misses = sim.misses]
    /\ NextFunction
    /\ UNCHANGED <<tool, shape, at, B, read, sim>>

\* The counts of the reference simulator are read from .csim_results.
Collect ==
    /\ pc = "collect"
    /\ func_list' = [func_list EXCEPT ![fn].num_misses = sim.misses]
    /\ results' = IF results.funcid = fn THEN [results EXCEPT !.misses = sim.misses] ELSE results
    /\ NextFunction
    /\ UNCHANGED <<tool, shape, at, B, read, sim>>

\* The 120 seconds are over: sigalrm_handler prints a result line and exits.
Alarm ==
    /\ tool = "test-trans"
    /\ pc # "done"
    /\ pc' = "done"
    /\ output' = [correct |-> 0, misses |-> 0]
    /\ UNCHANGED <<tool, shape, fn, at, B, read, sim, func_list, results>>

\* The program has exited; it stops nowhere else.
Exited == pc = "done" /\ UNCHANGED vars

Next == Launch \/ Iterate \/ Return \/ Validate \/ ValidateAll \/ Collect \/ Alarm \/ Exited

Spec == Init /\ [][Next]_vars

----------------------------------------------------------------------------
\* driver.py

MaxScore == [n \in {32, 61, 64} |-> IF n = 61 THEN 10 ELSE 8]

Lower == [n \in {32, 61, 64} |-> CASE n = 32 -> 300 [] n = 61 -> 2000 [] n = 64 -> 1300]

Upper == [n \in {32, 61, 64} |-> CASE n = 32 -> 600 [] n = 61 -> 3000 [] n = 64 -> 2000]

\* computeMissScore, in tenths of a point.
MissScore(miss, lower, upper, full) ==
    IF miss <= lower THEN 10 * full
    ELSE IF miss >= upper THEN 0
    ELSE (20 * full * (upper - miss) + (upper - lower)) \div (2 * (upper - lower))

Score(n) == MissScore(output.misses, Lower[n], Upper[n], MaxScore[n]) * output.correct

----------------------------------------------------------------------------
\* Properties

\* B holds elements of A or what it held before, the indices are in range, and
\* the next iteration touches no memory outside A and B.
TypeOK ==
    /\ pc \in {"launch", "run", "validate", "collect", "done"}
    /\ fn \in DOMAIN func_list
    /\ \A x \in DOMAIN B : \A y \in DOMAIN B[x] : B[x][y] \in 0..(shape.M * shape.N)
    /\ pc = "run" /\ ~Finished(shape, at) =>
          LET accesses == Body(Function, shape, at)
          IN  \A n \in DOMAIN accesses : Inside(shape, accesses[n])

\* Every element of A that the function has loaded is somewhere in B, at each
\* iteration: parking elements in B and moving them on loses none.
NothingReadIsLost ==
    pc = "run" => read \subseteq UNION {{B[x][y] : y \in DOMAIN B[x]} : x \in DOMAIN B}

Reported == pc = "done" /\ output # [correct |-> 0, misses |-> 0]

\* trans is found correct at every size, transpose_submit at the three it knows;
\* tracegen, whose functions share B, comes to the same verdict.
VerdictsAreRight ==
    Reported =>
        IF tool = "tracegen" THEN output.correct = (IF shape \in Known THEN 0 ELSE 1)
        ELSE \A f \in DOMAIN func_list :
                (func_list[f].correct = 1) <=> (func_list[f].function = "trans" \/ shape \in Known)

\* The result line speaks of the submission: correct with the misses of its own
\* trace, which are no fewer than the cache blocks A and B fill, or incorrect
\* with no count at all.
ReportIsTheSubmissions ==
    Reported /\ tool = "test-trans" =>
        IF shape \in Known
        THEN /\ output = [correct |-> 1, misses |-> func_list[1].num_misses]
             /\ output.misses >= 2 * ((4 * shape.M * shape.N) \div 32)
             /\ output.misses < func_list[2].num_misses
        ELSE output = [correct |-> 0, misses |-> INT_MAX]

\* The driver gives the submission full marks at each of the three sizes.
FullMarks ==
    Reported /\ tool = "test-trans" /\ shape \in Known => Score(shape.M) = 10 * MaxScore[shape.M]

\* How far the evaluation is: the function, what is done with it, and the
\* iteration, the first first.
Stage == CASE pc = "launch" -> 0 [] pc = "run" -> 1 [] pc = "validate" -> 2
           [] pc = "collect" -> 3 [] pc = "done" -> 4

Progress == (((fn * 5 + Stage) * 257 + at.i) * 257 + at.j) * 257 + at.k

\* No step leads back: with a bound on Progress, and no stop but an exit, either
\* program comes to its end at every size.
StepsAdvance == [][Progress' > Progress]_vars
=============================================================================
