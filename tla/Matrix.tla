------------------------------- MODULE Matrix ------------------------------
(***************************************************************************)
(* shardvault-ec/src/matrix.rs: matrices over GF(2^8).  A matrix is a      *)
(* function from pairs of a row and a column number to bytes, both counted *)
(* from 0 as in the code.                                                  *)
(***************************************************************************)
EXTENDS Gf
LOCAL INSTANCE Integers

Indices(rows, cols) == (0..(rows - 1)) \X (0..(cols - 1))

\* None of invert: a matrix without entries.
Singular == <<>>

\* Matrix::mul of an r x n matrix by an n x c one.
MatMul(a, b, r, n, c) ==
  [i \in Indices(r, c) |->
     LET acc[t \in 0..n] ==
           IF t = 0 THEN 0
           ELSE GfAdd(acc[t - 1], GfMul(a[i[1], t - 1], b[t - 1, i[2]]))
     IN  acc[n]]

\* Rows at or below the diagonal that may be swapped up.
Pivots(aug, col, n) == {r \in col..(n - 1) : aug[r, col] # 0}

\* Swap the pivot up, scale its row to 1, clear the column in every other row.
ClearColumn(aug, col, n, pivot) ==
  LET row(r)    == IF r = col THEN pivot ELSE IF r = pivot THEN col ELSE r
      scaled(c) == GfMul(aug[pivot, c], GfInv(aug[pivot, col]))
  IN  [i \in Indices(n, 2 * n) |->
         IF i[1] = col THEN scaled(i[2])
         ELSE GfAdd(aug[row(i[1]), i[2]],
                    GfMul(aug[row(i[1]), col], scaled(i[2])))]

\* One column of the elimination, with the first pivot there is.
Eliminate(aug, col, n) ==
  IF aug = Singular THEN Singular
  ELSE IF Pivots(aug, col, n) = {} THEN Singular
  ELSE ClearColumn(aug, col, n, CHOOSE r \in Pivots(aug, col, n) :
                                  \A q \in Pivots(aug, col, n) : r <= q)

RightHalf(aug, n) ==
  IF aug = Singular THEN Singular
  ELSE [i \in Indices(n, n) |-> aug[i[1], n + i[2]]]

\* Matrix::invert: Gauss-Jordan on the matrix beside the identity.
Invert(a, n) ==
  LET aug == [i \in Indices(n, 2 * n) |->
                IF i[2] < n THEN a[i] ELSE IF i[2] = n + i[1] THEN 1 ELSE 0]
      step[c \in 0..n] == IF c = 0 THEN aug ELSE Eliminate(step[c - 1], c - 1, n)
  IN  RightHalf(step[n], n)

\* The powers 1, point, point^2, ... of one row, points being 1..k+m.
Vandermonde(rows, k) ==
  [i \in Indices(rows, k) |->
     LET x[c \in 0..(k - 1)] == IF c = 0 THEN 1 ELSE GfMul(x[c - 1], i[1] + 1)
     IN  x[i[2]]]

\* Seeded fault: the plain [I; V] stack that the code's comment warns of.
VandermondeSystematic_Stacked(k, m) ==
  [i \in Indices(k + m, k) |->
     IF i[1] < k THEN IF i[1] = i[2] THEN 1 ELSE 0
     ELSE Vandermonde(m, k)[i[1] - k, i[2]]]

\* Matrix::vandermonde_systematic: V times the inverse of its top block.
VandermondeSystematic(k, m) ==
  MatMul(Vandermonde(k + m, k), Invert(Vandermonde(k, k), k), k + m, k, k)
=============================================================================
