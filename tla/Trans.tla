------------------------------- MODULE Trans --------------------------------
(***************************************************************************)
(* transpose_submit: each block as a sequence of rows, the passes through  *)
(* the outer one of its loops, and each row as a sequence of moves.  A     *)
(* move copies an element of A or B, or a local variable, to an element of *)
(* B or to a local variable.                                               *)
(***************************************************************************)
EXTENDS Integers, Sequences

A(i, j) == <<"A", i, j>>
B(i, j) == <<"B", i, j>>
T(k)    == <<"t", k, 0>>

Move(dst, src) == <<[dst |-> dst, src |-> src]>>

\* The bodies of a loop one after the other.
For(first, last, Body(_)) ==
    LET bodies[i \in (first - 1)..last] ==
            IF i < first THEN <<>> ELSE bodies[i - 1] \o Body(i)
    IN  bodies[last]

Block32_EarlyDiagonal(nn, mm) ==
    For(0, 7, LAMBDA n :
     << (IF nn = mm THEN Move(B(nn + n, nn + n), T(1)) ELSE <<>>)
        \o For(0, 7, LAMBDA m :
            IF nn + n # mm + m THEN Move(B(mm + m, nn + n), A(nn + n, mm + m))
                               ELSE Move(T(1), A(nn + n, nn + n))) >>)

\* The diagonal element is copied in its turn.
Block32_Direct(nn, mm) ==
    For(0, 7, LAMBDA n :
     << For(0, 7, LAMBDA m : Move(B(mm + m, nn + n), A(nn + n, mm + m))) >>)

\* N = 32: the diagonal element of a row is copied by way of a local.
Block32(nn, mm) ==
    For(0, 7, LAMBDA n :
     << For(0, 7, LAMBDA m :
            IF nn + n # mm + m THEN Move(B(mm + m, nn + n), A(nn + n, mm + m))
                               ELSE Move(T(1), A(nn + n, nn + n)))
        \o IF nn = mm THEN Move(B(nn + n, nn + n), T(1)) ELSE <<>> >>)

Swap(x, y) == Move(T(0), x) \o Move(x, y) \o Move(y, T(0))

\* N = 64, off the diagonal: the four quadrants of a block.
OffDiagonal(nn, mm) ==
    For(0, 3, LAMBDA n :
     << For(0, 7, LAMBDA m : Move(B(mm + n, nn + m), A(nn + n, mm + m))) >>)
    \o For(0, 3, LAMBDA n :
     << For(n + 1, 3, LAMBDA m :
            Swap(B(mm + n, nn + m), B(mm + m, nn + n))
            \o Swap(B(mm + n, nn + 4 + m), B(mm + m, nn + 4 + n))) >>)
    \o For(0, 3, LAMBDA m :
     << For(0, 3, LAMBDA i : Move(T(i), A(nn + 4 + i, mm + m)))
        \o For(0, 3, LAMBDA i : Move(T(4 + i), B(mm + m, nn + 4 + i)))
        \o For(0, 3, LAMBDA i : Move(B(mm + m, nn + 4 + i), T(i)))
        \o For(0, 3, LAMBDA i : Move(B(mm + 4 + m, nn + i), T(4 + i))) >>)
    \o For(4, 7, LAMBDA n :
     << For(4, 7, LAMBDA m : Move(B(mm + m, nn + n), A(nn + n, mm + m))) >>)

\* N = 64, on the diagonal: by way of the block of B to the right.
Diagonal(nn, mm) ==
    For(0, 7, LAMBDA n :
     << For(0, 7, LAMBDA m : Move(B(nn + n, mm + m + 8), A(nn + n, mm + m))) >>)
    \o For(0, 7, LAMBDA d :
     << For(4, 7, LAMBDA n : Move(B(mm + 7 - d, nn + n), B(nn + n, mm + 7 - d + 8))) >>)
    \o For(0, 7, LAMBDA m :
     << For(0, 3, LAMBDA n : Move(B(mm + m, nn + n), B(nn + n, mm + m + 8))) >>)

LastDiagonal(nn, mm) ==
    For(0, 7, LAMBDA n :
     << For(0, 7, LAMBDA i : Move(T(i), A(nn + n, mm + i)))
        \o For(0, 7, LAMBDA i : Move(B(mm + i, nn + n), T(i))) >>)

Block64(N, nn, mm) ==
    IF nn # mm THEN OffDiagonal(nn, mm)
    ELSE IF nn + 8 < N THEN Diagonal(nn, mm) ELSE LastDiagonal(nn, mm)

LeastOf(x, y) == IF x < y THEN x ELSE y

\* Any other N: blocks of 16 by 16, cut off at the edges.
BlockAny(M, N, nn, mm) ==
    For(0, LeastOf(15, N - nn - 1), LAMBDA n :
     << For(0, LeastOf(15, M - mm - 1), LAMBDA m :
            Move(B(mm + m, nn + n), A(nn + n, mm + m))) >>)

-----------------------------------------------------------------------------
Blocked(N) == N \in {32, 64}

Up(x, k) == (x + k - 1) \div k

\* The number of blocks, and the k-th of them: by rows of A for the blocked
\* sizes, by columns otherwise.
NBlocks(M, N) == IF Blocked(N) THEN Up(M, 8) * Up(N, 8) ELSE Up(M, 16) * Up(N, 16)

RowsOf(M, N, k) ==
    IF Blocked(N)
    THEN LET nn == 8 * (k \div Up(M, 8))
             mm == 8 * (k % Up(M, 8))
         IN  IF N = 32 THEN Block32(nn, mm) ELSE Block64(N, nn, mm)
    ELSE BlockAny(M, N, 16 * (k % Up(N, 16)), 16 * (k \div Up(N, 16)))

-----------------------------------------------------------------------------
(* A and B are stored by rows, with no check of the indices.               *)
AIndex(M, p) == p[2] * M + p[3]
BIndex(N, p) == p[2] * N + p[3]

\* B after the moves; element i of A holds the value i.
Transposed(M, N, b, moves) ==
    LET Value(st, p) == CASE p[1] = "A" -> AIndex(M, p)
                          [] p[1] = "B" -> st.b[BIndex(N, p)]
                          [] p[1] = "t" -> st.t[p[2]]
        after[i \in 0..Len(moves)] ==
            IF i = 0 THEN [b |-> b, t |-> [k \in 0..7 |-> -1]]
            ELSE LET st == after[i - 1]
                     d  == moves[i].dst
                     v  == Value(st, moves[i].src)
                 IN  IF d[1] = "B" THEN [st EXCEPT !.b[BIndex(N, d)] = v]
                                   ELSE [st EXCEPT !.t[d[2]] = v]
    IN  after[Len(moves)].b
=============================================================================
