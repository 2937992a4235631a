----------------------------- MODULE TestTrans ------------------------------
(***************************************************************************)
(* The cache lab: csim run by hand on a trace of any kind, or test-trans,  *)
(* which has tracegen run and validate transpose_submit, cuts its accesses *)
(* out of the trace, has them simulated and reports the misses to          *)
(* driver.py.  The trace files are not kept: a segment of one is what the  *)
(* segment's code accesses.                                                *)
(***************************************************************************)
EXTENDS CSim, Trans

CONSTANT Dims   \* the command lines of test-trans, as pairs of M and N

ASSUME DimsAssumption == Dims \subseteq (1..256) \X (1..256)

VARIABLES
    phase,      \* "csim" for the simulator by itself
    M, N,
    at,         \* where transpose_submit, or the filter, is: block and row
    seg,        \* the part of trace.tmp that the filter reads
    b,          \* the storage of B, from the first row on
    flag,       \* eval_perf: the start marker has been read
    func_list, results,
    lines       \* the lines TEST_TRANS_RESULTS printed, as pairs

vars == <<param, cache, trace, summary, phase, M, N, at, seg, b, flag, func_list,
          results, lines>>

Running == {"start", "transpose", "validate", "filter", "collect", "report", "exit"}

-----------------------------------------------------------------------------
(* tracegen                                                                *)

\* The static data of tracegen as the linker lays it out.
AAddr == 16480          \* 0x4060
BAddr == 278624         \* 0x44060
MAddr == 540768         \* 0x84060
NAddr == 540772
MARKER_START == 540780
MARKER_END == 540781
FuncListAddr == 540800  \* 0x84080
StackAddr == Pow2[Width] - 64

PlaceAddr(p) ==
    CASE p[1] = "A" -> AAddr + 4 * AIndex(M, p)
      [] p[1] = "B" -> BAddr + 4 * BIndex(N, p)
      [] p[1] = "t" -> StackAddr + 4 * p[2]

Accesses(moves) ==
    [i \in 1..(2 * Len(moves)) |->
        IF i % 2 = 1 THEN PlaceAddr(moves[(i + 1) \div 2].src)
                     ELSE PlaceAddr(moves[i \div 2].dst)]

Unset == -2

\* initMatrix fills both matrices; the blocks of transpose_submit may write
\* behind the last row of B, which is inside its storage.
initMatrix == [i \in 0..(N * (M + 15) - 1) |-> Unset]

validate ==
    \A i \in 0..(M - 1), j \in 0..(N - 1) : b[i * N + j] = AIndex(M, <<"A", j, i>>)

\* The parts of trace.tmp: initMatrix, the markers around the call and the
\* rows of transpose_submit, and validate.
SegmentAddrs ==
    CASE seg = "init" -> [i \in 1..(2 * M * N) |->
                        IF i % 2 = 1 THEN AAddr + 4 * ((i - 1) \div 2)
                        ELSE LET j == (i - 2) \div 2
                             IN  BAddr + 4 * ((j % M) * N + j \div M)]
      [] seg = "start" -> <<MARKER_START>>
      [] seg = "call" -> <<FuncListAddr, NAddr, MAddr>>
      [] seg = "rows" -> Accesses(RowsOf(M, N, at.blk)[at.row])
      [] seg = "end" -> <<MARKER_END>>
      [] seg = "validate" -> [i \in 1..(M * N) |-> BAddr + 4 * (i - 1)]

FirstRow == [blk |-> 0, row |-> 1]

NextRow ==
    IF at.row < Len(RowsOf(M, N, at.blk)) THEN [at EXCEPT !.row = @ + 1]
                                          ELSE [blk |-> at.blk + 1, row |-> 1]

LastRow == NextRow.blk = NBlocks(M, N)

NextSegment ==
    CASE seg = "init" -> "start"
      [] seg = "start" -> "call"
      [] seg = "call" -> "rows"
      [] seg = "rows" -> IF LastRow THEN "end" ELSE "rows"
      [] seg \in {"end", "validate"} -> "validate"

-----------------------------------------------------------------------------
\* The cache that eval_perf asks for: s = 5, E = 1, b = 5.
Reference == [s |-> 5, E |-> 1, b |-> 5]

INT_MAX == 2147483647

NoResults == [funcid |-> -1, correct |-> 0, misses |-> INT_MAX]

registerFunctions ==
    <<[description |-> "Transpose submission", correct |-> 0, num_hits |-> 0,
       num_misses |-> 0, num_evictions |-> 0]>>

Init ==
    /\ \/ /\ phase = "csim" /\ M = 0 /\ N = 0
          /\ \E c \in Caches : SimInit(c)
       \/ /\ phase = "start"
          /\ \E d \in Dims : M = d[1] /\ N = d[2]
          /\ SimInit(Reference)
    /\ at = FirstRow /\ seg = "init" /\ b = <<>> /\ flag = 0
    /\ func_list = <<>> /\ results = NoResults /\ lines = <<>>

testvars == <<phase, M, N, at, seg, b, flag, func_list, results, lines>>

Csim ==
    /\ phase = "csim"
    /\ \/ \E instr \in Instructions, addr \in Addrs : ReadLine(instr, addr)
       \/ printSummary
    /\ UNCHANGED testvars

\* eval_perf up to system(): the index of the submission, and tracegen starts.
eval_perf ==
    /\ phase = "start"
    /\ func_list' = registerFunctions
    /\ results' = [results EXCEPT !.funcid =
                      IF registerFunctions[1].description = "Transpose submission"
                      THEN 0 ELSE @]
    /\ b' = initMatrix
    /\ phase' = "transpose"
    /\ UNCHANGED <<param, cache, trace, summary, M, N, at, seg, flag, lines>>

transpose_submit ==
    /\ phase = "transpose"
    /\ b' = Transposed(M, N, b, RowsOf(M, N, at.blk)[at.row])
    /\ at' = IF LastRow THEN FirstRow ELSE NextRow
    /\ phase' = IF LastRow THEN "validate" ELSE phase
    /\ UNCHANGED <<param, cache, trace, summary, M, N, seg, flag, func_list, results, lines>>

\* tracegen ends, with its memory, and returns the result of its check: a
\* function that fails is not evaluated.
Validated ==
    /\ phase = "validate"
    /\ IF validate
       THEN /\ func_list' = [func_list EXCEPT ![1].correct = 1]
            /\ results' = IF results.funcid = 0 THEN [results EXCEPT !.correct = 1] ELSE results
            /\ phase' = "filter"
       ELSE /\ phase' = "report"
            /\ UNCHANGED <<func_list, results>>
    /\ flag' = 0 /\ b' = <<>>
    /\ UNCHANGED <<param, cache, trace, summary, M, N, at, seg, lines>>

\* The next part of the trace: what lies between the markers, below the
\* stack, is kept and simulated.
Filter ==
    LET on   == flag = 1 \/ SegmentAddrs = <<MARKER_START>>
        kept == SelectSeq(SegmentAddrs, LAMBDA a : a < StackAddr)
        sim  == AccessAll([param |-> param, cache |-> cache], kept)
        ends == SegmentAddrs = <<MARKER_END>>
    IN  /\ phase = "filter"
        /\ param' = IF on THEN sim.param ELSE param
        /\ cache' = IF on THEN sim.cache ELSE cache
        /\ flag' = IF on /\ ~ends THEN 1 ELSE 0
        /\ seg' = NextSegment
        /\ at' = IF seg = "rows" /\ ~LastRow THEN NextRow ELSE at
        /\ phase' = IF ends THEN "collect" ELSE phase
        /\ UNCHANGED <<trace, summary, M, N, b, func_list, results, lines>>

\* The simulator ends, and eval_perf reads the file it leaves.  eval_perf runs
\* csim-ref, a binary of the lab, which is taken to do what csim.c does.
Simulated ==
    /\ phase = "collect" /\ printSummary
    /\ UNCHANGED testvars

Collect ==
    /\ phase = "collect" /\ summary # NoSummary
    /\ func_list' = [func_list EXCEPT ![1].num_hits = summary[1],
                                      ![1].num_misses = summary[2],
                                      ![1].num_evictions = summary[3]]
    /\ results' = IF results.funcid = 0 THEN [results EXCEPT !.misses = summary[2]]
                                        ELSE results
    /\ phase' = "report"
    /\ UNCHANGED <<param, cache, trace, summary, M, N, at, seg, b, flag, lines>>

Report ==
    /\ phase = "report"
    /\ lines' = Append(lines, IF results.funcid = -1 THEN <<0, 0>>
                              ELSE <<results.correct, results.misses>>)
    /\ phase' = "exit"
    /\ UNCHANGED <<param, cache, trace, summary, M, N, at, seg, b, flag, func_list, results>>

Exit ==
    /\ phase = "exit" /\ phase' = "done"
    /\ UNCHANGED <<param, cache, trace, summary, M, N, at, seg, b, flag, func_list, results, lines>>

\* alarm(120) is never cancelled: it may ring until the program has ended.
sigalrm_handler ==
    /\ phase \in Running
    /\ lines' = Append(lines, <<0, 0>>)
    /\ phase' = "timeout"
    /\ UNCHANGED <<param, cache, trace, summary, M, N, at, seg, b, flag, func_list, results>>

Next ==
    \/ Csim \/ eval_perf \/ transpose_submit \/ Validated \/ Filter
    \/ Simulated \/ Collect \/ Report \/ Exit \/ sigalrm_handler

Spec == Init /\ [][Next]_vars

-----------------------------------------------------------------------------
\* driver.py: the points for a number of misses, in tenths, rounded down.
computeMissScore(miss, lower, upper, full_score) ==
    IF miss <= lower THEN 10 * full_score
    ELSE IF miss >= upper THEN 0
    ELSE ((upper - miss) * full_score * 10) \div (upper - lower)

\* The matrices of driver.py, with lower and upper limit and the points.
Graded == {[M |-> 32, N |-> 32, lower |-> 300,  upper |-> 600,  points |-> 8],
           [M |-> 64, N |-> 64, lower |-> 1300, upper |-> 2000, points |-> 8],
           [M |-> 61, N |-> 67, lower |-> 2000, upper |-> 3000, points |-> 10]}

\* The points for the first line, the only one that the driver reads.
Score(g) == lines[1][1] * computeMissScore(lines[1][2], g.lower, g.upper, g.points)

(***************************************************************************)
(* trans.c transpose_submit: once all blocks are done B is the transpose   *)
(* of A, for the sizes with code of their own and for any other, although  *)
(* blocks use parts of B that belong to other blocks as scratch space.     *)
(***************************************************************************)
TransposeCorrect == phase = "validate" => validate

(***************************************************************************)
(* test-trans.c, driver.py: a run that is not cut off before its report    *)
(* is given full marks: transpose_submit is validated, and the misses of   *)
(* the accesses between the markers, and of no others, are within the      *)
(* limits of driver.py.  The alarm cannot take that away once the report   *)
(* is printed.                                                             *)
(***************************************************************************)
FullMarks ==
    \A g \in Graded :
        M = g.M /\ N = g.N /\ lines # <<>> /\ lines[1] # <<0, 0>>
            => Score(g) = 10 * g.points
=============================================================================
