------------------------------ MODULE MCStripe -----------------------------
(***************************************************************************)
(* Stripe for TLC.  Beside the behaviours of a stripe, the run makes       *)
(* single calls of the erasure-code library: gf::mul and gf::inv on every  *)
(* byte, and reconstruct on every choice of k surviving shards of a few    *)
(* larger codes.                                                           *)
(***************************************************************************)
EXTENDS Stripe

VARIABLE call  \* the arguments of the single call; fn = "none" before it

\* No bytes; fewer bytes than data shards; a last part that is padded.
MCObjects == {<<>>, <<255>>, <<7, 0, 129>>}

MCCodes == {<<1, 1>>, <<3, 2>>, <<4, 3>>, <<6, 3>>}

MCMatrices == [c \in MCCodes |-> VandermondeSystematic(c[1], c[2])]

NoCall == [fn |-> "none", a |-> 0, code |-> <<1, 1>>, rows |-> {}]

CallGf ==
  \E a \in Byte : call' = [NoCall EXCEPT !.fn = "mul", !.a = a]

CallReconstruct ==
  \E c \in MCCodes :
    \E rows \in {S \in SUBSET (0..(c[1] + c[2] - 1)) : Cardinality(S) = c[1]} :
      call' = [NoCall EXCEPT !.fn = "reconstruct", !.code = c, !.rows = rows]

MCInit == Init /\ call = NoCall

MCNext ==
  \/ Next /\ call = NoCall /\ UNCHANGED call
  \/ Init /\ call = NoCall /\ (CallGf \/ CallReconstruct) /\ UNCHANGED vars
  \/ call # NoCall /\ call' = NoCall /\ UNCHANGED vars

MCSpec == MCInit /\ [][MCNext]_<<vars, call>>
-----------------------------------------------------------------------------
\* DESIGN.md 10: mul by logarithms is multiplication of polynomials modulo
\* POLY, for all pairs of bytes, and inv is its inverse on nonzero bytes.
\* The laws of a field follow from this and from no property of the tables.
GfIsField ==
  call.fn = "mul" =>
    /\ \A b \in Byte : GfMul(call.a, b) = PolyMul(call.a, b)
    /\ PolyMul(call.a, GfInv(call.a)) = IF call.a = 0 THEN 0 ELSE 1

\* DESIGN.md 9: any k rows of the encoding matrix can be inverted, so any k
\* shards determine the others.  The data are the k unit vectors, one per
\* position: reconstruct being linear, they stand for all data.
AnyKShardsSuffice ==
  call.fn = "reconstruct" =>
    LET k     == call.code[1]
        m     == call.code[2]
        mat   == MCMatrices[call.code]
        units == [i \in 0..(k - 1) |-> [pos \in 1..k |-> IF pos = i + 1 THEN 1 ELSE 0]]
        all   == Encode(mat, k, m, units)
        kept  == [i \in 0..(k + m - 1) |-> IF i \in call.rows THEN all[i] ELSE Missing]
    IN  Reconstruct(mat, k, m, kept) = [ok |-> all]
=============================================================================
