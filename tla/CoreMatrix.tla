----------------------------- MODULE CoreMatrix -----------------------------
(***************************************************************************)
(* The matrix algorithm of CoreMark (core_matrix.c): matrices A and B of   *)
(* MATDAT (ee_s16) and C of MATRES (ee_s32) in row-major order.  Products  *)
(* are kept exact: with the seeds of the port they stay within 32 bits.    *)
(***************************************************************************)
EXTENDS Crc

\* x[from] + ... + x[to-1], for the sums the nested loops accumulate.
SumOf(x, n) == LET s[k \in 0..n] == IF k = 0 THEN 0 ELSE s[k-1] + x[k-1] IN s[n]

matrix_big(x) == S16(61440 + (x % 4096))

bit_extract(x, from, to) == (x \div 2^from) % 2^to

\* Mutation: the loop's last size is taken, which no longer fits.
DimensionPast(blksize) == CHOOSE n \in 1..blksize :
  /\ (n - 1) * (n - 1) * 8 < blksize
  /\ n * n * 8 >= blksize

\* The greatest N whose three matrices fit in the block.
Dimension(blksize) == CHOOSE n \in 0..blksize :
  /\ n = 0 \/ n * n * 8 < blksize
  /\ (n + 1) * (n + 1) * 8 >= blksize

\* The fill loop threads seed through the cells; order is k + 1.
core_init_matrix(blksize, seed0) ==
  LET N == Dimension(blksize)
      seed[k \in 0..N*N] == IF k = 0 THEN (IF seed0 = 0 THEN 1 ELSE seed0)
                            ELSE (k * seed[k-1]) % 65536
      b == [k \in 0..N*N-1 |-> U16(seed[k+1] + k + 1)]
  IN  [N |-> N,
       A |-> [k \in 0..N*N-1 |-> (b[k] + k + 1) % 256],
       B |-> [k \in 0..N*N-1 |-> S16(b[k])]]

matrix_add_const(A, val) == [k \in DOMAIN A |-> S16(A[k] + val)]

matrix_mul_const(A, val) == [k \in DOMAIN A |-> A[k] * val]

\* Only the first N cells of C are rewritten.
matrix_mul_vect(N, C, A, B) ==
  [i \in DOMAIN C |-> IF i < N THEN SumOf([j \in 0..N-1 |-> A[(i * N) + j] * B[j]], N)
                      ELSE C[i]]

\* The products that add up to cell c: a row of A by a column of B.
Products(N, A, B, c) ==
  [k \in 0..N-1 |-> A[((c \div N) * N) + k] * B[(k * N) + (c % N)]]

matrix_mul_matrix(N, A, B) == [c \in DOMAIN A |-> SumOf(Products(N, A, B, c), N)]

matrix_mul_matrix_bitextract(N, A, B) ==
  [c \in DOMAIN A |->
     LET x == Products(N, A, B, c)
     IN  SumOf([k \in 0..N-1 |-> bit_extract(x[k], 2, 4) * bit_extract(x[k], 5, 7)], N)]

\* One element of the sum: ten when the accumulator passes clipval and is
\* reset, one when the element is larger than the previous.
SumStep == [m \in [tmp : Int, prev : Int, ret : Int], cur \in Int, clipval \in Int |->
  IF m.tmp + cur > clipval
  THEN [tmp |-> 0, prev |-> cur, ret |-> S16(m.ret + 10)]
  ELSE [tmp |-> m.tmp + cur, prev |-> cur,
        ret |-> IF cur > m.prev THEN S16(m.ret + 1) ELSE m.ret]]

matrix_sum(N, C, clipval) ==
  LET sum[k \in 0..N*N] == IF k = 0 THEN [tmp |-> 0, prev |-> 0, ret |-> 0]
                            ELSE SumStep[sum[k-1], C[k-1], clipval]
  IN  sum[N*N].ret

\* The CRC of the four sums, and the matrix A after the constant is taken
\* off again.
matrix_test(m, val) ==
  LET A    == matrix_add_const(m.A, val)
      c1   == matrix_mul_const(A, val)
      c2   == matrix_mul_vect(m.N, c1, A, m.B)
      c3   == matrix_mul_matrix(m.N, A, m.B)
      c4   == matrix_mul_matrix_bitextract(m.N, A, m.B)
      clip == matrix_big(val)
  IN  [crc |-> crcu16[matrix_sum(m.N, c4, clip),
                 crcu16[matrix_sum(m.N, c3, clip),
                   crcu16[matrix_sum(m.N, c2, clip),
                     crcu16[matrix_sum(m.N, c1, clip), 0]]]],
       A   |-> matrix_add_const(A, -val)]

\* returns [crc, m]: the benchmark's CRC and the matrices it leaves behind.
core_bench_matrix(m, val, crc) ==
  LET t == matrix_test(m, val)
  IN  [crc |-> crcu16[t.crc, crc], m |-> [m EXCEPT !.A = t.A]]
=============================================================================
