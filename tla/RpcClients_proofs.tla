-------------------------- MODULE RpcClients_proofs ---------------------------
(***************************************************************************)
(* What the client libraries promise their callers.                        *)
(***************************************************************************)
EXTENDS RpcClients, FiniteSetTheorems, SequenceTheorems, WellFoundedInduction, TLAPS

(* A set that holds 0, and n + 1 with n, holds all numbers up to N: what   *)
(* the inductions below rest on.                                           *)
LEMMA UpTo ==
    ASSUME NEW N \in Nat, NEW S, 0 \in S, \A n \in 0 .. N - 1 : n \in S => n + 1 \in S
    PROVE  0 .. N \subseteq S
<1> DEFINE T == {n \in 0 .. N : n \notin S}
<1> SUFFICES ASSUME T # {} PROVE FALSE
  OBVIOUS
<1>1. T \subseteq Nat
  OBVIOUS
<1>2. PICK m \in T : \A k \in T : ~(<<k, m>> \in OpToRel(<, Nat))
  <2> HIDE DEF T
  <2> QED BY <1>1, NatLessThanWellFounded, WFMin
<1>3. \A k \in T : ~(k < m)
  BY <1>1, <1>2 DEF OpToRel
<1>4. m \in 0 .. N /\ m \notin S /\ m # 0
  OBVIOUS
<1>5. m - 1 \in 0 .. N - 1 /\ m - 1 < m /\ (m - 1) + 1 = m
  BY <1>4
<1>6. m - 1 \in S
  BY <1>3, <1>5
<1> QED BY <1>4, <1>5, <1>6

-----------------------------------------------------------------------------
(***************************************************************************)
(* Clients: resending repeats no effect, effects happen in order, and no   *)
(* caller gets the result of another, for each of the four libraries, any  *)
(* program of calls, and any number of calls and connections.              *)
(***************************************************************************)

(* Lists of calls.  Calls are numbered as they are made, so that a list in  *)
(* the order of the calls is an increasing one.                            *)

Incr(s, n) == s \in Seq(1 .. n) /\ \A i, j \in 1 .. Len(s) : i < j => s[i] < s[j]

LEMMA RangeIn ==
    ASSUME NEW X, NEW s \in Seq(X)
    PROVE  /\ Len(s) \in Nat /\ Range(s) \subseteq X
           /\ \A x : x \in Range(s) <=> \E i \in 1 .. Len(s) : x = s[i]
  BY DEF Range

(* An increasing list holds no call twice.                                 *)
LEMMA IncrOnce ==
    ASSUME NEW n \in Nat, NEW s, Incr(s, n)
    PROVE  \A i, j \in 1 .. Len(s) : s[i] = s[j] => i = j
<1> SUFFICES ASSUME NEW i \in 1 .. Len(s), NEW j \in 1 .. Len(s), s[i] = s[j], i # j PROVE FALSE
  OBVIOUS
<1>1. s \in Seq(1 .. n) /\ Len(s) \in Nat /\ s[i] \in Int /\ s[j] \in Int
  BY DEF Incr
<1>2. i < j \/ j < i
  BY <1>1
<1> QED BY <1>1, <1>2 DEF Incr

LEMMA IncrEmpty ==
    ASSUME NEW n \in Nat
    PROVE  Incr(<<>>, n) /\ Range(<<>>) = {}
  BY DEF Incr, Range

LEMMA IncrMore ==
    ASSUME NEW n \in Nat, NEW m \in Nat, n <= m, NEW s, Incr(s, n)
    PROVE  Incr(s, m)
<1>1. s \in Seq(1 .. n) /\ Len(s) \in Nat
  BY DEF Incr
<1>2. \A i \in 1 .. Len(s) : s[i] \in 1 .. m
  BY <1>1
<1>3. s \in Seq(1 .. m)
  BY <1>1, <1>2
<1> QED BY <1>3 DEF Incr

LEMMA IncrOne ==
    ASSUME NEW n \in Nat, NEW x \in 1 .. n
    PROVE  Incr(<<x>>, n) /\ Range(<<x>>) = {x}
<1>1. <<x>> \in Seq(1 .. n) /\ Len(<<x>>) = 1 /\ <<x>>[1] = x
  OBVIOUS
<1>2. Range(<<x>>) = {x}
  BY DEF Range
<1> QED BY <1>1, <1>2 DEF Incr

(* A call made later than all of a list goes to its end.                   *)
LEMMA IncrAppend ==
    ASSUME NEW n \in Nat, NEW s, Incr(s, n), NEW x \in 1 .. n, \A y \in Range(s) : y < x
    PROVE  Incr(Append(s, x), n) /\ Range(Append(s, x)) = Range(s) \cup {x}
<1>1. s \in Seq(1 .. n) /\ Len(s) \in Nat
  BY DEF Incr
<1>2. /\ Append(s, x) \in Seq(1 .. n) /\ Len(Append(s, x)) = Len(s) + 1
      /\ \A i \in 1 .. Len(s) : Append(s, x)[i] = s[i]
      /\ Append(s, x)[Len(s) + 1] = x
  BY <1>1
<1>3. \A i \in 1 .. Len(s) : s[i] < x
  BY <1>1, RangeIn
<1>4. \A i, j \in 1 .. Len(Append(s, x)) : i < j => Append(s, x)[i] < Append(s, x)[j]
  <2> SUFFICES ASSUME NEW i \in 1 .. Len(s) + 1, NEW j \in 1 .. Len(s) + 1, i < j
               PROVE  Append(s, x)[i] < Append(s, x)[j]
    BY <1>2
  <2>1. i \in 1 .. Len(s)
    BY <1>1
  <2>2. CASE j = Len(s) + 1
    BY <1>2, <1>3, <2>1, <2>2
  <2>3. CASE j \in 1 .. Len(s)
    BY <1>2, <2>1, <2>3 DEF Incr
  <2> QED BY <1>1, <2>2, <2>3
<1>5. Range(Append(s, x)) = Range(s) \cup {x}
  <2>1. \A i \in 1 .. Len(s) + 1 : i \in 1 .. Len(s) \/ i = Len(s) + 1
    BY <1>1
  <2>2. \A i \in 1 .. Len(s) : i \in 1 .. Len(s) + 1
    BY <1>1
  <2>3. Len(s) + 1 \in 1 .. Len(s) + 1
    BY <1>1
  <2>4. ASSUME NEW y PROVE y \in Range(Append(s, x)) <=> y \in Range(s) \/ y = x
    <3>0. y \in Range(Append(s, x)) <=> \E i \in 1 .. Len(Append(s, x)) : y = Append(s, x)[i]
      <4> DEFINE t == Append(s, x)
      <4>1. t \in Seq(1 .. n)
        BY <1>2
      <4> HIDE DEF t
      <4>2. y \in Range(t) <=> \E i \in 1 .. Len(t) : y = t[i]
        BY <4>1, RangeIn
      <4> QED BY <4>2 DEF t
    <3>1. y \in Range(Append(s, x)) <=> \E i \in 1 .. Len(s) + 1 : y = Append(s, x)[i]
      BY <1>2, <3>0
    <3>2. y \in Range(s) <=> \E i \in 1 .. Len(s) : y = s[i]
      BY <1>1, RangeIn
    <3> QED BY <1>2, <2>1, <2>2, <2>3, <3>1, <3>2
  <2> QED BY <2>4
<1> QED BY <1>2, <1>4, <1>5 DEF Incr

\* A part of an increasing list, from a to b.
LEMMA IncrPart ==
    ASSUME NEW n \in Nat, NEW s, Incr(s, n), NEW a \in Nat \ {0}, NEW b \in Nat, b <= Len(s)
    PROVE  /\ Incr(SubSeq(s, a, b), n)
           /\ \A y : y \in Range(SubSeq(s, a, b)) <=> \E i \in 1 .. Len(s) : a <= i /\ i <= b /\ y = s[i]
           /\ Len(SubSeq(s, a, b)) = (IF a <= b THEN b - a + 1 ELSE 0)
<1> DEFINE t == SubSeq(s, a, b)
           m == IF a <= b THEN b - a + 1 ELSE 0
<1>1. s \in Seq(1 .. n) /\ Len(s) \in Nat
  BY DEF Incr
<1>2. /\ t \in Seq(1 .. n) /\ Len(t) = m
      /\ \A i \in 1 .. m : t[i] = s[a + i - 1] /\ a + i - 1 \in 1 .. Len(s)
  BY <1>1
<1>3. \A i, j \in 1 .. Len(t) : i < j => t[i] < t[j]
  <2> SUFFICES ASSUME NEW i \in 1 .. m, NEW j \in 1 .. m, i < j PROVE t[i] < t[j]
    BY <1>2
  <2>1. a + i - 1 < a + j - 1
    OBVIOUS
  <2> QED BY <1>2, <2>1 DEF Incr
<1>4. ASSUME NEW y PROVE y \in Range(t) <=> \E i \in 1 .. Len(s) : a <= i /\ i <= b /\ y = s[i]
  <2>0. y \in Range(t) <=> \E i \in 1 .. Len(t) : y = t[i]
    BY <1>2, RangeIn, Zenon
  <2>1. y \in Range(t) <=> \E i \in 1 .. m : y = t[i]
    BY <1>2, <2>0, Zenon
  <2>2. ASSUME NEW i \in 1 .. m PROVE a + i - 1 \in 1 .. Len(s) /\ a <= a + i - 1 /\ a + i - 1 <= b
    BY <1>1
  <2>3. ASSUME NEW i \in 1 .. Len(s), a <= i, i <= b PROVE i - a + 1 \in 1 .. m /\ t[i - a + 1] = s[i]
    <3>1. i - a + 1 \in 1 .. m
      BY <1>1, <2>3
    <3>2. a + (i - a + 1) - 1 = i
      BY <1>1
    <3>3. t[i - a + 1] = s[a + (i - a + 1) - 1]
      BY <1>2, <3>1
    <3> QED BY <3>1, <3>2, <3>3
  <2> QED BY <1>2, <2>1, <2>2, <2>3
<1> QED BY <1>2, <1>3, <1>4 DEF Incr

\* Cut behind its k-th entry, an increasing list falls into two.
LEMMA IncrCut ==
    ASSUME NEW n \in Nat, NEW s, Incr(s, n), NEW k \in Nat, k <= Len(s)
    PROVE  /\ Incr(SubSeq(s, 1, k), n) /\ Incr(SubSeq(s, k + 1, Len(s)), n)
           /\ Range(SubSeq(s, 1, k)) \cup Range(SubSeq(s, k + 1, Len(s))) = Range(s)
           /\ Range(SubSeq(s, 1, k)) \cap Range(SubSeq(s, k + 1, Len(s))) = {}
           /\ \A x \in Range(SubSeq(s, 1, k)), y \in Range(SubSeq(s, k + 1, Len(s))) : x < y
           /\ Len(SubSeq(s, 1, k)) = k
<1> DEFINE a == SubSeq(s, 1, k)
           b == SubSeq(s, k + 1, Len(s))
<1>1. s \in Seq(1 .. n) /\ Len(s) \in Nat
  BY DEF Incr
<1>2. /\ Incr(a, n) /\ Len(a) = k
      /\ \A y : y \in Range(a) <=> \E i \in 1 .. Len(s) : 1 <= i /\ i <= k /\ y = s[i]
  BY <1>1, IncrPart
<1>3. /\ Incr(b, n)
      /\ \A y : y \in Range(b) <=> \E i \in 1 .. Len(s) : k + 1 <= i /\ i <= Len(s) /\ y = s[i]
  BY <1>1, IncrPart
<1>4. \A y : y \in Range(s) <=> \E i \in 1 .. Len(s) : y = s[i]
  BY <1>1, RangeIn
<1> HIDE DEF a, b
<1>5. \A y : y \in Range(a) \cup Range(b) <=> y \in Range(s)
  <2>1. \A i \in 1 .. Len(s) : (1 <= i /\ i <= k) \/ (k + 1 <= i /\ i <= Len(s))
    BY <1>1
  <2> QED BY <1>2, <1>3, <1>4, <2>1
<1>6. ASSUME NEW x \in Range(a), NEW y \in Range(b) PROVE x < y /\ x \in 1 .. n /\ y \in 1 .. n
  <2>1. PICK i \in 1 .. Len(s) : i <= k /\ x = s[i]
    BY <1>2
  <2>2. PICK j \in 1 .. Len(s) : k + 1 <= j /\ y = s[j]
    BY <1>3
  <2>3. i < j
    BY <1>1, <2>1, <2>2
  <2> QED BY <1>1, <2>1, <2>2, <2>3 DEF Incr
<1>7. Range(a) \cap Range(b) = {}
  <2> SUFFICES ASSUME NEW x \in Range(a), x \in Range(b) PROVE FALSE
    OBVIOUS
  <2>1. x < x /\ x \in 1 .. n
    BY <1>6
  <2> QED BY <2>1
<1>8. Range(a) \cup Range(b) = Range(s)
  BY <1>5
<1> QED BY <1>2, <1>3, <1>6, <1>7, <1>8 DEF a, b

LEMMA IncrTail ==
    ASSUME NEW n \in Nat, NEW s, Incr(s, n), s # <<>>
    PROVE  /\ Incr(Tail(s), n) /\ Head(s) \in 1 .. n
           /\ Range(Tail(s)) \cup {Head(s)} = Range(s) /\ Head(s) \notin Range(Tail(s))
           /\ \A y \in Range(Tail(s)) : Head(s) < y
<1>1. s \in Seq(1 .. n) /\ Len(s) \in Nat /\ Len(s) >= 1
  BY DEF Incr
<1>2. Tail(s) = SubSeq(s, 2, Len(s)) /\ Head(s) = s[1] /\ s[1] \in 1 .. n
  BY <1>1
<1>3. \A y : y \in Range(SubSeq(s, 1, 1)) <=> \E i \in 1 .. Len(s) : 1 <= i /\ i <= 1 /\ y = s[i]
  BY <1>1, IncrPart
<1>4. Range(SubSeq(s, 1, 1)) = {s[1]}
  <2>1. 1 \in 1 .. Len(s) /\ \A i \in 1 .. Len(s) : 1 <= i /\ i <= 1 => i = 1
    BY <1>1
  <2> QED BY <1>3, <2>1
<1>5. 1 \in Nat /\ 1 <= Len(s) /\ 1 + 1 = 2
  BY <1>1
<1>6. /\ Incr(SubSeq(s, 2, Len(s)), n)
      /\ Range(SubSeq(s, 1, 1)) \cup Range(SubSeq(s, 2, Len(s))) = Range(s)
      /\ Range(SubSeq(s, 1, 1)) \cap Range(SubSeq(s, 2, Len(s))) = {}
      /\ \A x \in Range(SubSeq(s, 1, 1)), y \in Range(SubSeq(s, 2, Len(s))) : x < y
  BY <1>5, IncrCut
<1> QED BY <1>2, <1>4, <1>6

\* Leaving calls out of a list.
DropStep(acc, x, S) == IF x \in S THEN acc ELSE Append(acc, x)

IsDrop(g, s, S, N) ==
    g = [k \in 0 .. N |-> IF k = 0 THEN <<>> ELSE DropStep(g[k - 1], s[k], S)]

(* The recursive function of Without exists.                               *)
LEMMA DropExists ==
    ASSUME NEW s, NEW S, NEW N \in Nat
    PROVE  \E g : IsDrop(g, s, S, N)
<1> DEFINE T == {n \in Nat : \E g : IsDrop(g, s, S, n)}
<1>1. 0 \in T
  <2>1. IsDrop([k \in 0 .. 0 |-> <<>>], s, S, 0)
    BY DEF IsDrop
  <2> QED BY <2>1
<1>2. ASSUME NEW n \in 0 .. N - 1, n \in T
      PROVE  n + 1 \in T
  <2>1. PICK g : IsDrop(g, s, S, n)
    BY <1>2
  <2> DEFINE h == [k \in 0 .. n + 1 |-> IF k = n + 1 THEN DropStep(g[n], s[n + 1], S) ELSE g[k]]
  <2>2. \A k \in 0 .. n + 1 : h[k] = IF k = 0 THEN <<>> ELSE DropStep(h[k - 1], s[k], S)
    <3> TAKE k \in 0 .. n + 1
    <3>1. CASE k = n + 1
      BY <3>1
    <3>2. CASE k # n + 1 /\ k # 0
      <4>1. k \in 0 .. n /\ k - 1 \in 0 .. n + 1 /\ k - 1 # n + 1
        BY <3>2
      <4>2. g[k] = DropStep(g[k - 1], s[k], S)
        BY <2>1, <3>2, <4>1 DEF IsDrop
      <4> QED BY <3>2, <4>1, <4>2
    <3>3. CASE k = 0
      <4>1. 0 \in 0 .. n /\ 0 # n + 1
        OBVIOUS
      <4>2. g[0] = <<>>
        BY <2>1, <4>1 DEF IsDrop
      <4> QED BY <3>3, <4>1, <4>2
    <3> QED BY <3>1, <3>2, <3>3
  <2>3. h = [k \in 0 .. n + 1 |-> h[k]]
    OBVIOUS
  <2> HIDE DEF h
  <2>4. IsDrop(h, s, S, n + 1)
    BY <2>2, <2>3 DEF IsDrop
  <2> QED BY <2>4
<1>3. 0 .. N \subseteq T
  <2> HIDE DEF T
  <2> QED BY <1>1, <1>2, UpTo
<1> QED BY <1>3

DroppedTo(out, s, S, n, k) ==
    /\ Incr(out, n)
    /\ \A x : x \in Range(out) <=> x \notin S /\ \E i \in 1 .. k : x = s[i]

(* What Without keeps, and that it keeps its order.                        *)
LEMMA WithoutFacts ==
    ASSUME NEW n \in Nat, NEW s, Incr(s, n), NEW S
    PROVE  /\ Incr(Without(s, S), n)
           /\ Range(Without(s, S)) = Range(s) \ S
<1>0. s \in Seq(1 .. n) /\ Len(s) \in Nat
  BY DEF Incr
<1> DEFINE g == CHOOSE g : IsDrop(g, s, S, Len(s))
<1>1. IsDrop(g, s, S, Len(s))
  BY <1>0, DropExists, Zenon
<1>2. Without(s, S) = g[Len(s)]
  BY Zenon DEF Without, IsDrop, DropStep
<1> HIDE DEF g
<1> DEFINE T == {k \in 0 .. Len(s) : DroppedTo(g[k], s, S, n, k)}
<1>3. 0 \in T
  <2>1. g[0] = <<>>
    BY <1>0, <1>1 DEF IsDrop
  <2>2. Incr(g[0], n) /\ Range(g[0]) = {}
    BY <2>1, IncrEmpty
  <2> QED BY <1>0, <2>2 DEF DroppedTo
<1>4. ASSUME NEW k \in 0 .. Len(s) - 1, k \in T PROVE k + 1 \in T
  <2>1. k \in 0 .. Len(s) /\ k + 1 \in 1 .. Len(s) /\ k + 1 # 0 /\ k + 1 - 1 = k /\ k + 1 \in 0 .. Len(s)
    BY <1>0
  <2>2. g[k + 1] = DropStep(g[k], s[k + 1], S)
    BY <1>1, <2>1 DEF IsDrop
  <2>3. DroppedTo(g[k], s, S, n, k)
    BY <1>4
  <2>4. \A i \in 1 .. k + 1 : i \in 1 .. k \/ i = k + 1
    BY <2>1
  <2>5. \A i \in 1 .. k : i \in 1 .. k + 1 /\ i \in 1 .. Len(s) /\ i < k + 1
    BY <1>0, <2>1
  <2>6. k + 1 \in 1 .. k + 1
    BY <2>1
  <2>7. CASE s[k + 1] \in S
    <3>1. g[k + 1] = g[k]
      BY <2>2, <2>7 DEF DropStep
    <3>2. \A x : x \in Range(g[k]) <=> x \notin S /\ \E i \in 1 .. k + 1 : x = s[i]
      BY <2>3, <2>4, <2>5, <2>7 DEF DroppedTo
    <3> QED BY <2>1, <2>3, <3>1, <3>2 DEF DroppedTo
  <2>8. CASE s[k + 1] \notin S
    <3>1. g[k + 1] = Append(g[k], s[k + 1])
      BY <2>2, <2>8 DEF DropStep
    <3>2. s[k + 1] \in 1 .. n
      BY <1>0, <2>1
    <3>3. \A y \in Range(g[k]) : y < s[k + 1]
      <4> SUFFICES ASSUME NEW y \in Range(g[k]) PROVE y < s[k + 1]
        OBVIOUS
      <4>1. PICK i \in 1 .. k : y = s[i]
        BY <2>3 DEF DroppedTo
      <4> QED BY <2>1, <2>5, <4>1 DEF Incr
    <3>4. Incr(g[k + 1], n) /\ Range(g[k + 1]) = Range(g[k]) \cup {s[k + 1]}
      BY <2>3, <3>1, <3>2, <3>3, IncrAppend DEF DroppedTo
    <3>5. \A x : x \in Range(g[k + 1]) <=> x \notin S /\ \E i \in 1 .. k + 1 : x = s[i]
      BY <2>3, <2>4, <2>5, <2>6, <2>8, <3>4 DEF DroppedTo
    <3> QED BY <2>1, <3>4, <3>5 DEF DroppedTo
  <2> QED BY <2>7, <2>8
<1>5. 0 .. Len(s) \subseteq T
  <2> HIDE DEF T
  <2> QED BY <1>0, <1>3, <1>4, UpTo
<1>6. DroppedTo(g[Len(s)], s, S, n, Len(s))
  BY <1>0, <1>5
<1>7. \A x : x \in Range(s) <=> \E i \in 1 .. Len(s) : x = s[i]
  BY <1>0, RangeIn
<1> QED BY <1>2, <1>6, <1>7 DEF DroppedTo

-----------------------------------------------------------------------------
(* The net and the server: types, and where a call is.                     *)

List(s) == Incr(s, NCalls)
Runs == {s \in Seq(Calls) : List(s)}
ResponsePieces == [run : Runs, half : {1, 2}]
Tasks == [run : Runs, at : Nat, stage : {"idle", "op", "apply", "record"}]

(* The types of the net, the server and the calls.                         *)
NetTypes ==
    /\ c_lang \in Langs /\ c_op \in Programs(c_lang) /\ c_issued \in 0 .. NCalls
    /\ c_answer = [x \in Calls |-> c_answer[x]]
    /\ n_opened \in Conns
    /\ n_up \in [Conns -> BOOLEAN]
    /\ n_out \in [Conns -> Seq(Runs)] /\ n_in \in [Conns -> Seq(ResponsePieces)]
    /\ s_busy \in [Conns -> Tasks]
    /\ s_done \in Seq(Calls) /\ s_idem \subseteq Calls /\ s_excused \subseteq Calls

\* x is in the j-th frame on its way on c, is to be executed by the task of
\* c, was the k-th to be executed.
OutAt(x, c, j) == j \in 1 .. Len(n_out[c]) /\ x \in Range(n_out[c][j])
BusyAt(x, c) == \E i \in 1 .. Len(s_busy[c].run) : s_busy[c].at <= i /\ s_busy[c].run[i] = x
DoneAt(x, k) == k \in 1 .. Len(s_done) /\ s_done[k] = x

(* x was written in some frame.                                            *)
Sent(x) ==
    \/ \E c \in Conns : BusyAt(x, c) \/ \E j \in Nat : OutAt(x, c, j)
    \/ \E k \in Nat : DoneAt(x, k)

\* Operations that no client sends twice.
Unrepeated(x) == c_op[x] \notin ReadOps \cup {"insert"}

(* x is at most in one frame, in one task or once among what was executed. *)
OnePlace(x) ==
    /\ \A c, d \in Conns, j, k \in Nat : OutAt(x, c, j) /\ OutAt(x, d, k) => c = d /\ j = k
    /\ \A c, d \in Conns, j \in Nat : ~(OutAt(x, c, j) /\ BusyAt(x, d))
    /\ \A c \in Conns, j, k \in Nat : ~(OutAt(x, c, j) /\ DoneAt(x, k))
    /\ \A c, d \in Conns : BusyAt(x, c) /\ BusyAt(x, d) => c = d
    /\ \A c \in Conns, k \in Nat : ~(BusyAt(x, c) /\ DoneAt(x, k))
    /\ \A j, k \in Nat : DoneAt(x, j) /\ DoneAt(x, k) => j = k

-----------------------------------------------------------------------------
(* The worker of the Rust, Python and Go clients, and what its steps have  *)
(* in common.                                                              *)

Batched(x) == c_op[x] \notin {"ping", "auth"}

(* The calls that a worker holds and those of the run under way.           *)
Held(w) == Range(w.queue) \cup Range(w.direct) \cup Range(w.cmds)
Running(w) == w.pc \in {"write", "read"}
RunSet(w) == IF Running(w) THEN Range(w.run) ELSE {}
Fit(w) == ~(w.pc = "idle" /\ w.dead)

IsWorker(w) ==
    w = [pc |-> w.pc, queue |-> w.queue, direct |-> w.direct, cmds |-> w.cmds, run |-> w.run,
         try |-> w.try, back |-> w.back, stash |-> w.stash, conn |-> w.conn, dead |-> w.dead,
         closed |-> w.closed, sched |-> w.sched]

(* What holds of a worker between its steps: no call is in two of its      *)
(* lists, and the lists are in the order of the calls.                     *)
WorkerOK(w) ==
    /\ IsWorker(w)
    /\ w.pc \in {"idle", "segment", "direct", "queue", "write", "read", "gone"}
    /\ w.back \in {"idle", "direct", "queue"} /\ w.try \in {1, 2} /\ w.dead \in BOOLEAN
    /\ w.conn \in Conns
    /\ List(w.queue) /\ List(w.direct) /\ List(w.cmds) /\ List(w.run)
    /\ w.stash \in Seq(ResponsePieces)
    /\ Range(w.queue) \cap Range(w.direct) = {} /\ Range(w.cmds) \cap Range(w.direct) = {}
    /\ Range(w.queue) \cap Range(w.cmds) = {} /\ RunSet(w) \cap Held(w) = {}
    /\ \A x \in Range(w.cmds), y \in Range(w.queue) : x < y
    /\ \A x \in RunSet(w), y \in Range(w.cmds) \cup Range(w.queue) : Batched(x) => x < y
    /\ \A x \in Range(w.direct) : ~Batched(x)
    /\ w.pc = "idle" \/ c_lang = "py" => w.cmds = <<>>
    /\ c_lang = "py" /\ Running(w) => w.back # "idle"
    /\ c_lang # "rust" => ~w.dead

Made == {x \in 1 .. c_issued : x \in DOMAIN c_op}
WorkerTypes == NetTypes /\ WorkerOK(c_worker) /\ Held(c_worker) \cup RunSet(c_worker) \subseteq Made

Refuses(S) == \E tag \in {"transport", "timeout", "closed"} : c_answer' = Refused(S, tag)
Stays == UNCHANGED <<c_lang, c_op, c_issued, c_tasks, n_lost, server_vars>>

\* A new connection in place of the one in use.
Opens == Reconnected(c_worker.conn) /\ c_worker'.conn = n_opened + 1

\* Calls move between the lists, and a run may be ready to be written.
Regroup ==
    /\ c_worker.pc \notin {"write", "read", "gone"} /\ c_worker'.pc # "read"
    /\ WorkerOK(c_worker')
    /\ Held(c_worker') \cup RunSet(c_worker') \subseteq Held(c_worker)
    /\ c_worker'.pc = "write" => c_worker'.try = 1
    /\ \E S \in SUBSET Calls : Refuses(S)
    /\ \/ c_worker'.pc = "gone"
       \/ \A x \in Held(c_worker) \ (Held(c_worker') \cup RunSet(c_worker')) : c_answer'[x] # Unanswered
    /\ \/ /\ UNCHANGED <<n_opened, n_up, n_in>>
          /\ c_worker'.conn = c_worker.conn /\ c_worker'.stash = c_worker.stash
          /\ Fit(c_worker') => Fit(c_worker)
       \/ Opens /\ c_worker'.stash = <<>>
    /\ UNCHANGED <<c_mixed, n_out>> /\ Stays

(* The run is written.                                                     *)
Write ==
    /\ c_worker.pc = "write"
    /\ c_worker' = [c_worker EXCEPT !.pc = "read"]
    /\ Send(c_worker.conn, c_worker.run, {})
    /\ UNCHANGED <<c_answer, n_opened, n_up, n_in>> /\ Stays

Fed(k) == c_worker.stash \o SubSeq(n_in[c_worker.conn], 1, k)
Arrived == 1 .. Len(n_in[c_worker.conn])

\* What the codec keeps when a run ends without its response.
Spoils(stash) ==
    \/ stash \in {<<>>, c_worker.stash}
    \/ \E k \in Arrived :
          \/ Garbled(Fed(k)) /\ stash = Fed(k)
          \/ Whole(Fed(k)) /\ stash \in Seq(ResponsePieces)
                           /\ ~(SameShape(c_worker.run, Fed(k)[1].run) /\ Len(Fed(k)[1].run) = Len(c_worker.run))

(* The run is written again, on a new connection: no operation that may    *)
(* not be repeated is in it.                                               *)
Retry ==
    /\ c_worker.pc = "read" /\ \A x \in Range(c_worker.run) : ~Unrepeated(x)
    /\ Opens
    /\ \E stash \in Seq(ResponsePieces) :
                  /\ Spoils(stash) /\ (c_lang = "rust" => stash = <<>>)
                  /\ c_worker' = [c_worker EXCEPT !.pc = "write", !.try = 2, !.stash = stash,
                                                  !.conn = n_opened + 1]
    /\ UNCHANGED <<c_answer, n_out, c_mixed>> /\ Stays

(* The run ends without a response; its calls are refused, with those set  *)
(* aside for later if the worker drops them.                               *)
Ends(pc, run, cmds, stash, dead, S) ==
    /\ c_worker' = [c_worker EXCEPT !.pc = pc, !.run = run, !.cmds = cmds, !.stash = stash, !.dead = dead]
    /\ Spoils(stash)
    /\ c_lang = "rust" => dead /\ pc = "idle"
    /\ pc = "idle" => cmds = <<>>
    /\ c_lang # "rust" => dead = c_worker.dead
    /\ Refuses(S)
    /\ pc = "gone" \/ (Range(c_worker.run) \subseteq S /\ (cmds = c_worker.cmds \/ Range(c_worker.cmds) \subseteq S))

Fail ==
    /\ c_worker.pc = "read"
    /\ \E pc \in {"idle", "segment", "direct", "queue", "gone"}, run \in {c_worker.run, <<>>},
          cmds \in {c_worker.cmds, <<>>}, stash \in Seq(ResponsePieces), dead \in {c_worker.dead, TRUE},
          S \in SUBSET Calls : Ends(pc, run, cmds, stash, dead, S)
    /\ n_up' \in {n_up, [n_up EXCEPT ![c_worker.conn] = FALSE]}
    /\ n_in' \in {n_in, [n_in EXCEPT ![c_worker.conn] = <<>>]} \cup {Taken(c_worker.conn, k) : k \in Arrived}
    /\ UNCHANGED <<n_opened, n_out, c_mixed>> /\ Stays

(* The run is answered with the response that arrived.                     *)
Settle ==
    /\ c_worker.pc = "read"
    /\ \E k \in Arrived, pc \in {"idle", "segment", "direct", "queue", "gone"}, stash \in Seq(ResponsePieces) :
         /\ Whole(Fed(k)) /\ Len(Fed(k)[1].run) >= Len(c_worker.run)
         /\ Len(Fed(k)) = 2 => stash = <<>>
         /\ c_answer' = Answered(c_worker.run, Fed(k)[1].run)
         /\ c_worker' = [c_worker EXCEPT !.pc = pc, !.run = <<>>, !.stash = stash]
         /\ c_lang = "rust" => pc = "segment"
         /\ pc # "idle"
         /\ n_in' = Taken(c_worker.conn, k)
    /\ UNCHANGED <<n_opened, n_up, n_out, c_mixed>> /\ Stays

(* Half a response arrived.                                                *)
More ==
    /\ c_worker.pc = "read"
    /\ \E k \in Arrived :
         /\ Len(Fed(k)) = 1 /\ ~Garbled(Fed(k))
         /\ c_worker' = [c_worker EXCEPT !.stash = Fed(k)]
         /\ n_in' = Taken(c_worker.conn, k)
    /\ UNCHANGED <<c_answer, n_opened, n_up, n_out, c_mixed>> /\ Stays

(* The steps of the three workers.  RustRefines, GoRefines and PyRefines   *)
(* show that each of their steps is one of these.                          *)
WorkerStep == Regroup \/ Write \/ Retry \/ Fail \/ Settle \/ More

(* What the tables of methods say of the operations: which are resent and  *)
(* which are written outside the batches.                                  *)
LEMMA RustMethods ==
    \A o \in DOMAIN RustOps : /\ RustOps[o].safe => o \in ReadOps \cup {"insert"}
                              /\ RustOps[o].direct <=> o \in {"ping", "auth"}
  BY DEF RustOps, Method, ReadOps

LEMMA PyMethods ==
    \A o \in DOMAIN PyOps : /\ PyOps[o].safe => o \in ReadOps \cup {"insert"}
                            /\ PyOps[o].direct <=> o \in {"ping", "auth"}
  BY DEF PyOps, Method, ReadOps

LEMMA TsMethods ==
    \A o \in DOMAIN TsOps : /\ TsOps[o].safe => o \in ReadOps \cup {"insert"}
                            /\ TsOps[o].direct <=> o \in {"ping", "auth"}
  BY DEF TsOps, Method, ReadOps

LEMMA GoMethods ==
    \A o \in DOMAIN GoOps : /\ GoOps[o].safe => o \in ReadOps \cup {"insert"}
                            /\ GoOps[o].direct <=> o \in {"ping", "auth"}
  BY DEF GoOps, GoRowOps, GoQueryOps, Method, ReadOps

(* What is left after a response was taken off the bytes that arrived.     *)
LEMMA AfterWholeFacts ==
    ASSUME NEW s \in Seq(ResponsePieces)
    PROVE  /\ AfterWhole(s) \in Seq(ResponsePieces)
           /\ Whole(s) /\ Len(s) = 2 => AfterWhole(s) = <<>>
<1> DEFINE rest(k) == SubSeq(s, 2 * k + 1, Len(s))
           T == {k \in 0 .. (Len(s) \div 2) : ~Whole(rest(k))}
           Good(k) == /\ \A i \in 1 .. k : Whole(SubSeq(s, 2 * i - 1, 2 * i))
                      /\ ~Whole(rest(k))
           n == CHOOSE k \in 0 .. (Len(s) \div 2) : Good(k)
<1>0. Len(s) \in Nat /\ Len(s) \div 2 \in Nat /\ 2 * (Len(s) \div 2) <= Len(s) /\ Len(s) <= 2 * (Len(s) \div 2) + 1
  OBVIOUS
<1>1. Len(s) \div 2 \in T
  <2>1. Len(rest(Len(s) \div 2)) <= 1
    BY <1>0
  <2>2. ~Whole(rest(Len(s) \div 2))
    BY <1>0, <2>1 DEF Whole
  <2> QED BY <1>0, <2>2
<1>2. PICK m \in T : \A k \in T : ~(k < m)
  <2>1. T \subseteq Nat
    OBVIOUS
  <2> HIDE DEF T
  <2>2. \E m \in T : \A k \in T : <<k, m>> \notin OpToRel(<, Nat)
    BY <1>1, <2>1, NatLessThanWellFounded, WFMin, Zenon
  <2>3. \A k \in T : k \in Nat
    BY <2>1
  <2> QED BY <2>2, <2>3 DEF OpToRel
<1>3. ASSUME NEW i \in 1 .. m PROVE Whole(SubSeq(s, 2 * i - 1, 2 * i))
  <2>1. i - 1 \in 0 .. (Len(s) \div 2) /\ i - 1 < m /\ 2 * (i - 1) + 1 = 2 * i - 1
    BY <1>0, <1>2
  <2>2. Whole(SubSeq(s, 2 * i - 1, Len(s)))
    BY <1>2, <2>1
  <2>3. 2 * i <= Len(s) /\ i \in Nat /\ i >= 1
    BY <1>0, <1>2
  <2> DEFINE a == SubSeq(s, 2 * i - 1, Len(s))
             b == SubSeq(s, 2 * i - 1, 2 * i)
  <2>4. b = SubSeq(a, 1, 2) /\ Len(b) = 2 /\ SubSeq(b, 1, 2) = b /\ b[1] = a[1]
    BY <1>0, <2>3
  <2> HIDE DEF a, b
  <2>5. Whole(b)
    BY <2>2, <2>4 DEF Whole, a
  <2> QED BY <2>5 DEF b
<1>4. m \in 0 .. (Len(s) \div 2) /\ Good(m)
  BY <1>2, <1>3
<1>5. n \in 0 .. (Len(s) \div 2) /\ Good(n)
  <2> HIDE DEF Good
  <2> QED BY <1>4
<1>6. AfterWhole(s) = SubSeq(s, 2 * n + 1, Len(s))
  BY DEF AfterWhole
<1>7. AfterWhole(s) \in Seq(ResponsePieces)
  <2>1. 2 * n + 1 \in Nat \ {0}
    BY <1>0, <1>5
  <2> HIDE DEF n
  <2> QED BY <1>0, <1>6, <2>1
<1>8. ASSUME Whole(s), Len(s) = 2 PROVE AfterWhole(s) = <<>>
  <2>1. n \in 0 .. 1
    BY <1>0, <1>5, <1>8
  <2>2. SubSeq(s, 2 * 0 + 1, Len(s)) = s
    BY <1>0
  <2>3. ~Whole(SubSeq(s, 2 * n + 1, Len(s)))
    BY <1>5
  <2> HIDE DEF n
  <2>5. n # 0
    BY <1>8, <2>2, <2>3
  <2>4. n = 1
    BY <2>1, <2>5
  <2> QED BY <1>6, <1>8, <2>4
<1> QED BY <1>7, <1>8

\* How far the first frame of a drained list reaches; D: where a direct call is.
LEMMA SegmentExists ==
    ASSUME NEW F \in Nat \ {0}, NEW L \in Nat \ {0}, NEW D, 1 \notin D
    PROVE  \E n \in 1 .. F : n <= L /\ (\A i \in 1 .. n : i \notin D) /\ (n = F \/ n = L \/ n + 1 \in D)
<1> DEFINE T == {n \in 1 .. F : n <= L /\ (n = F \/ n = L \/ n + 1 \in D)}
<1>1. T # {} /\ T \subseteq Nat
  <2>1. CASE F <= L
    <3>1. F \in T
      BY <2>1
    <3> QED BY <3>1
  <2>2. CASE L <= F
    <3>1. L \in T
      BY <2>2
    <3> QED BY <3>1
  <2> QED BY <2>1, <2>2
<1>2. PICK m \in T : \A k \in T : ~(k < m)
  <2> HIDE DEF T
  <2>1. \E m \in T : \A k \in T : <<k, m>> \notin OpToRel(<, Nat)
    BY <1>1, NatLessThanWellFounded, WFMin, Zenon
  <2>2. \A k \in T : k \in Nat
    BY <1>1
  <2> QED BY <2>1, <2>2 DEF OpToRel
<1>3. ASSUME NEW i \in 1 .. m, i \in D PROVE FALSE
  <2>1. i # 1
    BY <1>3
  <2>2. i - 1 \in 1 .. F /\ i - 1 <= L /\ (i - 1) + 1 = i /\ i - 1 < m
    BY <1>2, <2>1
  <2>3. i - 1 \in T
    BY <1>3, <2>2
  <2> QED BY <1>2, <2>2, <2>3
<1> QED BY <1>2, <1>3

LEMMA RustSegmentFits ==
    ASSUME NEW s \in Seq(Calls), s # <<>>
    PROVE  RustSegment(s) \in 1 .. Len(s)
<1> DEFINE D == {i \in 1 .. Len(s) : RustIsDirect(s[i])}
           Good(n) == /\ n <= Len(s)
                      /\ \A i \in 1 .. n : ~RustIsDirect(s[i])
                      /\ \/ n = FLUSH_CHUNK \/ n = Len(s)
                         \/ RustIsDirect(s[n + 1])
<1>1. Len(s) \in Nat \ {0} /\ FLUSH_CHUNK \in Nat \ {0}
  BY NetAssumption
<1>2. CASE RustIsDirect(s[1])
  BY <1>1, <1>2 DEF RustSegment
<1>3. CASE ~RustIsDirect(s[1])
  <2>1. PICK n \in 1 .. FLUSH_CHUNK : n <= Len(s) /\ (\A i \in 1 .. n : i \notin D) /\ (n = FLUSH_CHUNK \/ n = Len(s) \/ n + 1 \in D)
    <3>1. 1 \notin D
      BY <1>3
    <3>2. \A E : 1 \notin E => \E n \in 1 .. FLUSH_CHUNK : n <= Len(s) /\ (\A i \in 1 .. n : i \notin E) /\ (n = FLUSH_CHUNK \/ n = Len(s) \/ n + 1 \in E)
      BY <1>1, SegmentExists, ZenonT(40)
    <3> HIDE DEF D
    <3> QED BY <3>1, <3>2, Zenon
  <2>2. \A i \in 1 .. n : i \in 1 .. Len(s)
    BY <1>1, <2>1
  <2>3. Good(n)
    BY <2>1, <2>2
  <2>4. RustSegment(s) = CHOOSE k \in 1 .. FLUSH_CHUNK : Good(k)
    BY <1>3 DEF RustSegment
  <2> HIDE DEF Good
  <2>5. RustSegment(s) \in 1 .. FLUSH_CHUNK /\ Good(RustSegment(s))
    BY <2>3, <2>4
  <2> QED BY <1>1, <2>5 DEF Good
<1> QED BY <1>2, <1>3

LEMMA GoSegmentFits ==
    ASSUME NEW s \in Seq(Calls), s # <<>>
    PROVE  GoSegment(s) \in 1 .. Len(s)
<1> DEFINE D == {i \in 1 .. Len(s) : GoIsDirect(s[i])}
           Good(n) == /\ n <= Len(s)
                      /\ \A i \in 1 .. n : ~GoIsDirect(s[i])
                      /\ \/ n = FLUSH_CHUNK \/ n = Len(s)
                         \/ GoIsDirect(s[n + 1])
<1>1. Len(s) \in Nat \ {0} /\ FLUSH_CHUNK \in Nat \ {0}
  BY NetAssumption
<1>2. CASE GoIsDirect(s[1])
  BY <1>1, <1>2 DEF GoSegment
<1>3. CASE ~GoIsDirect(s[1])
  <2>1. PICK n \in 1 .. FLUSH_CHUNK : n <= Len(s) /\ (\A i \in 1 .. n : i \notin D) /\ (n = FLUSH_CHUNK \/ n = Len(s) \/ n + 1 \in D)
    <3>1. 1 \notin D
      BY <1>3
    <3>2. \A E : 1 \notin E => \E n \in 1 .. FLUSH_CHUNK : n <= Len(s) /\ (\A i \in 1 .. n : i \notin E) /\ (n = FLUSH_CHUNK \/ n = Len(s) \/ n + 1 \in E)
      BY <1>1, SegmentExists, ZenonT(40)
    <3> HIDE DEF D
    <3> QED BY <3>1, <3>2, Zenon
  <2>2. \A i \in 1 .. n : i \in 1 .. Len(s)
    BY <1>1, <2>1
  <2>3. Good(n)
    BY <2>1, <2>2
  <2>4. GoSegment(s) = CHOOSE k \in 1 .. FLUSH_CHUNK : Good(k)
    BY <1>3 DEF GoSegment
  <2> HIDE DEF Good
  <2>5. GoSegment(s) \in 1 .. FLUSH_CHUNK /\ Good(GoSegment(s))
    BY <2>3, <2>4
  <2> QED BY <1>1, <2>5 DEF Good
<1> QED BY <1>2, <1>3

LEMMA NoCalls == NCalls \in Nat /\ List(<<>>) /\ Range(<<>>) = {}
  BY NetAssumption, IncrEmpty DEF List

LEMMA RefusesNone == ASSUME NetTypes, UNCHANGED c_answer PROVE Refuses({})
<1>1. Refused({}, "closed") = [x \in Calls |-> c_answer[x]]
  BY DEF Refused
<1> QED BY <1>1 DEF NetTypes, Refuses

(* Refusing calls answers those that wait, and changes no answer.          *)
LEMMA RefusesFacts ==
    ASSUME NetTypes, NEW S \in SUBSET Calls, Refuses(S)
    PROVE  \A x \in Calls : /\ x \in S => c_answer'[x] # Unanswered
                            /\ \/ c_answer'[x] = c_answer[x]
                               \/ x \in S /\ c_answer[x] = Unanswered /\ c_answer'[x].tag # "ok"
<1>1. PICK tag \in {"transport", "timeout", "closed"} : c_answer' = Refused(S, tag)
  BY DEF Refuses
<1>2. [tag |-> tag, of |-> 0].tag = tag /\ \A x : [tag |-> tag, of |-> x].tag = tag /\ Unanswered.tag = "none"
  BY DEF Unanswered
<1>3. \A x \in Calls : c_answer'[x] = IF x \in S /\ c_answer[x] = Unanswered THEN [tag |-> tag, of |-> x] ELSE c_answer[x]
  BY <1>1 DEF Refused
<1> QED BY <1>1, <1>2, <1>3

\* A step that only regroups calls on the connection in use.
LEMMA Regroups ==
    ASSUME WorkerTypes, c_worker.pc \notin {"write", "read", "gone"}, c_worker'.pc # "read",
           WorkerOK(c_worker'), Held(c_worker') \cup RunSet(c_worker') \subseteq Held(c_worker),
           c_worker'.pc = "write" => c_worker'.try = 1,
           NEW S \in SUBSET Calls, Refuses(S),
           c_worker'.pc = "gone" \/ Held(c_worker) \ (Held(c_worker') \cup RunSet(c_worker')) \subseteq S
                                 \/ \A x \in Held(c_worker) \ (Held(c_worker') \cup RunSet(c_worker')) : c_answer[x] # Unanswered,
           c_worker'.conn = c_worker.conn, c_worker'.stash = c_worker.stash,
           Fit(c_worker') => Fit(c_worker),
           UNCHANGED <<c_mixed, net_vars>>, Stays
    PROVE  Regroup
<1>1. Held(c_worker) \subseteq Calls
  BY NoCalls DEF WorkerTypes, Made, NetTypes, Calls
<1>2. \A x \in Calls : (x \in S => c_answer'[x] # Unanswered) /\ (c_answer[x] # Unanswered => c_answer'[x] # Unanswered)
  BY RefusesFacts DEF WorkerTypes
<1>3. \/ c_worker'.pc = "gone"
      \/ \A x \in Held(c_worker) \ (Held(c_worker') \cup RunSet(c_worker')) : c_answer'[x] # Unanswered
  BY <1>1, <1>2
<1>4. UNCHANGED <<n_opened, n_up, n_in>> /\ UNCHANGED <<c_mixed, n_out>>
  BY DEF net_vars
<1> QED BY <1>3, <1>4, Zenon DEF Regroup

LEMMA RustDrainRegroups ==
    ASSUME WorkerTypes, c_lang = "rust", RustDrain PROVE Regroup
<1>1. /\ IsWorker(c_worker) /\ c_worker.cmds = <<>> /\ c_worker.dead \in BOOLEAN
      /\ c_worker.pc = "idle" /\ n_opened \in Conns /\ MaxOpened(c_lang) \in 1 .. MaxConns /\ MaxConns \in Nat
  BY NetAssumption, LangsAssumption DEF WorkerTypes, WorkerOK, RustDrain, NetTypes
<1>2. NCalls \in Nat /\ List(<<>>) /\ Range(<<>>) = {}
  BY NoCalls
<1>3. /\ c_worker'.pc = "segment" /\ c_worker'.cmds = c_worker.queue /\ c_worker'.queue = <<>>
      /\ c_worker'.direct = c_worker.direct /\ c_worker'.run = c_worker.run /\ c_worker'.try = c_worker.try
      /\ c_worker'.back = c_worker.back /\ IsWorker(c_worker') /\ c_worker'.dead = FALSE
  BY <1>1 DEF RustDrain, IsWorker
<1>4. /\ \/ Fit(c_worker) /\ c_worker'.stash = c_worker.stash /\ c_worker'.conn = c_worker.conn /\ UNCHANGED <<n_opened, n_up, n_in>>
         \/ c_worker'.stash = <<>> /\ Opens
      /\ c_worker'.stash \in Seq(ResponsePieces) /\ c_worker'.conn \in Conns
  <2>1. CASE ~c_worker.dead
    BY <1>1, <2>1 DEF RustDrain, IsWorker, WorkerTypes, WorkerOK, Fit
  <2>2. CASE c_worker.dead
    <3>1. /\ Reconnected(c_worker.conn)
          /\ c_worker' = [c_worker EXCEPT !.pc = "segment", !.cmds = c_worker.queue,
                                          !.queue = <<>>, !.dead = FALSE, !.stash = <<>>,
                                          !.conn = n_opened + 1]
      BY <2>2 DEF RustDrain
    <3>2. c_worker'.stash = <<>> /\ c_worker'.conn = n_opened + 1
      BY <1>1, <3>1 DEF IsWorker
    <3>3. n_opened + 1 \in Conns
      BY <1>1, <3>1 DEF Reconnected, Conns
    <3> QED BY <3>1, <3>2, <3>3 DEF Opens
  <2> QED BY <2>1, <2>2
<1>5. RunSet(c_worker) = {} /\ RunSet(c_worker') = {} /\ Held(c_worker') = Held(c_worker)
  BY <1>1, <1>2, <1>3 DEF Held, RunSet, Running
<1>6. WorkerOK(c_worker')
  BY <1>1, <1>2, <1>3, <1>4, <1>5 DEF WorkerTypes, WorkerOK
<1>7. c_answer' = c_answer /\ Refuses({})
  BY RefusesNone DEF RustDrain, WorkerTypes
<1>8. c_worker.pc \notin {"write", "read", "gone"} /\ c_worker'.pc \notin {"read", "write"}
  BY <1>1, <1>3
<1>9. UNCHANGED <<c_mixed, n_out>> /\ Stays
  BY DEF RustDrain, Stays
<1>11. \E S \in SUBSET Calls : Refuses(S)
  BY <1>7
<1> QED
  BY <1>4, <1>5, <1>6, <1>8, <1>9, <1>11, Zenon DEF Regroup

LEMMA RustStillDeadRegroups ==
    ASSUME WorkerTypes, c_lang = "rust", RustStillDead PROVE Regroup
<1> DEFINE q == c_worker.queue
<1>1. /\ IsWorker(c_worker) /\ c_worker.pc = "idle" /\ q # <<>> /\ c_worker' = [c_worker EXCEPT !.queue = Tail(q)]
      /\ Incr(q, NCalls) /\ c_worker.dead /\ NCalls \in Nat
  BY NoCalls DEF WorkerTypes, WorkerOK, RustStillDead, List
<1>2. /\ Incr(Tail(q), NCalls) /\ Head(q) \in 1 .. NCalls
      /\ Range(Tail(q)) \cup {Head(q)} = Range(q)
  BY <1>1, IncrTail
<1>3. /\ c_worker'.pc = "idle" /\ c_worker'.cmds = c_worker.cmds /\ c_worker'.queue = Tail(q)
      /\ c_worker'.direct = c_worker.direct /\ c_worker'.run = c_worker.run /\ c_worker'.try = c_worker.try
      /\ c_worker'.back = c_worker.back /\ IsWorker(c_worker') /\ c_worker'.dead = c_worker.dead
      /\ c_worker'.stash = c_worker.stash /\ c_worker'.conn = c_worker.conn
  BY <1>1 DEF IsWorker
<1> HIDE DEF q
<1>4. RunSet(c_worker) = {} /\ RunSet(c_worker') = {}
  BY <1>1, <1>3 DEF RunSet, Running
<1>5. Held(c_worker') \subseteq Held(c_worker) /\ Held(c_worker) \ Held(c_worker') \subseteq {Head(q)}
  BY <1>2, <1>3 DEF Held, q
<1>6. WorkerOK(c_worker')
  BY <1>1, <1>2, <1>3, <1>4, <1>5 DEF WorkerTypes, WorkerOK, q, List
<1>7. {Head(q)} \in SUBSET Calls /\ Refuses({Head(q)})
  BY <1>2 DEF RustStillDead, Refuses, q, Calls
<1>8. UNCHANGED <<c_mixed, net_vars>> /\ Stays
  BY DEF RustStillDead, Stays, net_vars
<1>9. Fit(c_worker') => Fit(c_worker)
  BY <1>1, <1>3 DEF Fit
<1> QED BY <1>1, <1>3, <1>4, <1>5, <1>6, <1>7, <1>8, <1>9, Regroups

LEMMA RustDoneRegroups ==
    ASSUME WorkerTypes, c_lang = "rust", RustDone PROVE Regroup
<1>1. IsWorker(c_worker) /\ c_worker.pc = "segment" /\ c_worker.cmds = <<>> /\ c_worker' = [c_worker EXCEPT !.pc = "idle"]
  BY DEF WorkerTypes, WorkerOK, RustDone
<1>3. /\ c_worker'.pc = "idle" /\ c_worker'.cmds = c_worker.cmds /\ c_worker'.queue = c_worker.queue
      /\ c_worker'.direct = c_worker.direct /\ c_worker'.run = c_worker.run /\ c_worker'.try = c_worker.try
      /\ c_worker'.back = c_worker.back /\ IsWorker(c_worker') /\ c_worker'.dead = c_worker.dead
      /\ c_worker'.stash = c_worker.stash /\ c_worker'.conn = c_worker.conn
  BY <1>1 DEF IsWorker
<1>4. RunSet(c_worker) = {} /\ RunSet(c_worker') = {}
  BY <1>1, <1>3 DEF RunSet, Running
<1>5. Held(c_worker') = Held(c_worker)
  BY <1>3 DEF Held
<1>6. WorkerOK(c_worker')
  BY <1>1, <1>3, <1>4, <1>5 DEF WorkerTypes, WorkerOK
<1>7. {} \in SUBSET Calls /\ Refuses({})
  BY RefusesNone DEF RustDone, WorkerTypes
<1>8. UNCHANGED <<c_mixed, net_vars>> /\ Stays
  BY DEF RustDone, Stays, net_vars
<1>9. Fit(c_worker') => Fit(c_worker)
  BY <1>1, <1>3 DEF Fit
<1> QED BY <1>1, <1>3, <1>4, <1>5, <1>6, <1>7, <1>8, <1>9, Regroups

LEMMA RustFlushRegroups ==
    ASSUME WorkerTypes, c_lang = "rust", RustFlush PROVE Regroup
<1> DEFINE s == c_worker.cmds
           n == RustSegment(s)
           seg == SubSeq(s, 1, n)
           rest == SubSeq(s, n + 1, Len(s))
<1>1. /\ IsWorker(c_worker) /\ c_worker.pc = "segment" /\ s # <<>> /\ Incr(s, NCalls) /\ NCalls \in Nat
      /\ s \in Seq(Calls)
  BY NoCalls DEF WorkerTypes, WorkerOK, RustFlush, List, Incr, Calls
<1>2. PICK late \in SUBSET Range(seg) :
        /\ c_answer' = Refused(late, "timeout")
        /\ c_worker' = [c_worker EXCEPT
                              !.cmds = rest, !.run = Without(seg, late), !.try = 1,
                              !.pc = IF Without(seg, late) = <<>> THEN "segment" ELSE "write"]
  BY Zenon DEF RustFlush
<1>3. n \in 1 .. Len(s) /\ n \in Nat /\ n <= Len(s)
  BY <1>1, RustSegmentFits
<1> HIDE DEF n
<1>4. /\ Incr(seg, NCalls) /\ Incr(rest, NCalls) /\ Range(seg) \cup Range(rest) = Range(s)
      /\ Range(seg) \cap Range(rest) = {} /\ \A x \in Range(seg), y \in Range(rest) : x < y
  BY <1>1, <1>3, IncrCut
<1> DEFINE fresh == Without(seg, late)
<1> HIDE DEF seg, rest, s
<1>5. Incr(fresh, NCalls) /\ Range(fresh) = Range(seg) \ late
  BY <1>1, <1>4, WithoutFacts
<1> HIDE DEF fresh
<1>6. /\ c_worker'.pc = (IF fresh = <<>> THEN "segment" ELSE "write") /\ c_worker'.cmds = rest /\ c_worker'.queue = c_worker.queue
      /\ c_worker'.direct = c_worker.direct /\ c_worker'.run = fresh /\ c_worker'.try = 1
      /\ c_worker'.back = c_worker.back /\ IsWorker(c_worker') /\ c_worker'.dead = c_worker.dead
      /\ c_worker'.stash = c_worker.stash /\ c_worker'.conn = c_worker.conn
  BY <1>1, <1>2 DEF IsWorker, fresh
<1>7. RunSet(c_worker) = {} /\ RunSet(c_worker') = Range(fresh)
  BY <1>1, <1>6, NoCalls DEF RunSet, Running
<1>8. /\ Held(c_worker') \cup RunSet(c_worker') \subseteq Held(c_worker)
      /\ Held(c_worker) \ (Held(c_worker') \cup RunSet(c_worker')) \subseteq late
  BY <1>4, <1>5, <1>6, <1>7 DEF Held, s
<1>9. WorkerOK(c_worker')
  BY <1>1, <1>4, <1>5, <1>6, <1>7 DEF WorkerTypes, WorkerOK, Held, s, List
<1>10. late \in SUBSET Calls /\ Refuses(late)
  <2>1. Range(seg) \subseteq Calls
    BY <1>4, RangeIn DEF Incr, Calls
  <2> QED BY <1>2, <2>1 DEF Refuses
<1>11. UNCHANGED <<c_mixed, net_vars>> /\ Stays
  BY DEF RustFlush, Stays, net_vars
<1>12. (Fit(c_worker') => Fit(c_worker)) /\ c_worker'.pc # "read"
  BY <1>1, <1>6 DEF Fit
<1> QED BY <1>1, <1>6, <1>8, <1>9, <1>10, <1>11, <1>12, Regroups

-----------------------------------------------------------------------------
LEMMA TakenNone ==
    ASSUME NetTypes, NEW c \in Conns
    PROVE  Taken(c, 0) = n_in
  BY DEF NetTypes, Taken

LEMMA RustFailedEnds ==
    ASSUME WorkerTypes, c_lang = "rust", c_worker.pc = "read", NEW stash \in Seq(ResponsePieces),
           NEW k \in 0 .. Len(n_in[c_worker.conn]),
           Spoils(stash), RustFailed(stash, k),
           UNCHANGED <<c_lang, c_op, c_issued, c_tasks, c_mixed, n_lost, n_out, server_vars>>
    PROVE  Retry \/ Fail
<1>0. IsWorker(c_worker) /\ Running(c_worker) /\ RunSet(c_worker) \subseteq Made /\ Held(c_worker) \subseteq Made
  BY DEF WorkerTypes, WorkerOK, Running
<1>1. CASE /\ c_worker.try = 1 /\ RustRetrySafe
           /\ Reconnected(c_worker.conn)
           /\ c_worker' = [c_worker EXCEPT !.pc = "write", !.try = 2, !.stash = <<>>, !.conn = n_opened + 1]
           /\ UNCHANGED c_answer
  <2>1. ASSUME NEW x \in Range(c_worker.run) PROVE ~Unrepeated(x)
    <3>1. x \in DOMAIN c_op
      BY <1>0 DEF RunSet, Made
    <3>2. c_op[x] \in DOMAIN RustOps
      BY <3>1, LangsAssumption DEF WorkerTypes, NetTypes, Methods
    <3> QED BY <1>1, <3>2, RustMethods DEF RustRetrySafe, Unrepeated
  <2>2. c_worker'.conn = n_opened + 1
    BY <1>0, <1>1 DEF IsWorker
  <2>3. Spoils(<<>>)
    BY DEF Spoils
  <2>5. <<>> \in Seq(ResponsePieces)
    OBVIOUS
  <2>6. \E st \in Seq(ResponsePieces) :
          /\ Spoils(st) /\ (c_lang = "rust" => st = <<>>)
          /\ c_worker' = [c_worker EXCEPT !.pc = "write", !.try = 2, !.stash = st, !.conn = n_opened + 1]
    BY <1>1, <2>3, <2>5
  <2>4. Retry
    BY <1>1, <2>1, <2>2, <2>6, Zenon DEF Retry, Opens, Stays
  <2> QED BY <2>4
<1>2. CASE /\ c_answer' = Refused(Range(c_worker.run) \cup Range(c_worker.cmds), "transport")
           /\ c_worker' = [c_worker EXCEPT !.pc = "idle", !.dead = TRUE, !.cmds = <<>>,
                                           !.run = <<>>, !.stash = stash]
           /\ n_in' = Taken(c_worker.conn, k)
           /\ UNCHANGED <<n_opened, n_up>>
  <2> DEFINE S == Range(c_worker.run) \cup Range(c_worker.cmds)
  <2>1. S \in SUBSET Calls
    BY <1>0, NoCalls DEF RunSet, Held, Made, Calls, WorkerTypes, NetTypes
  <2>2. Refuses(S)
    BY <1>2 DEF Refuses
  <2>3. c_worker' = [c_worker EXCEPT !.pc = "idle", !.run = <<>>, !.cmds = <<>>, !.stash = stash, !.dead = TRUE]
    BY <1>0, <1>2 DEF IsWorker
  <2>4. n_in' \in {n_in} \cup {Taken(c_worker.conn, j) : j \in Arrived}
    BY <1>2, TakenNone DEF WorkerTypes, WorkerOK, Arrived
  <2> HIDE DEF S
  <2>5. Ends("idle", <<>>, <<>>, stash, TRUE, S)
    BY <2>2, <2>3 DEF Ends, S
  <2>6. \E pc \in {"idle", "segment", "direct", "queue", "gone"}, run \in {c_worker.run, <<>>},
          cmds \in {c_worker.cmds, <<>>}, st \in Seq(ResponsePieces), dead \in {c_worker.dead, TRUE},
          T \in SUBSET Calls : Ends(pc, run, cmds, st, dead, T)
    BY <2>1, <2>5
  <2>7. Fail
    BY <1>2, <2>4, <2>6 DEF Fail, Stays
  <2> QED BY <2>7
<1> QED BY <1>1, <1>2 DEF RustFailed

LEMMA RustReadEnds ==
    ASSUME WorkerTypes, c_lang = "rust", RustRead PROVE Retry \/ Fail \/ Settle \/ More
<1>0. IsWorker(c_worker) /\ c_worker.pc = "read" /\ c_worker.stash \in Seq(ResponsePieces) /\ c_worker.conn \in Conns
  BY DEF WorkerTypes, WorkerOK, RustRead
<1>1. PICK k \in Arrived :
         \/ /\ Whole(Fed(k)) /\ SameShape(c_worker.run, Fed(k)[1].run)
            /\ Len(Fed(k)[1].run) = Len(c_worker.run)
            /\ c_answer' = Answered(c_worker.run, Fed(k)[1].run)
            /\ c_worker' = [c_worker EXCEPT !.pc = "segment", !.run = <<>>,
                                            !.stash = SubSeq(Fed(k), 3, Len(Fed(k)))]
            /\ n_in' = Taken(c_worker.conn, k)
            /\ UNCHANGED <<n_opened, n_up>>
         \/ /\ Whole(Fed(k))
            /\ ~(SameShape(c_worker.run, Fed(k)[1].run) /\ Len(Fed(k)[1].run) = Len(c_worker.run))
            /\ RustFailed(SubSeq(Fed(k), 3, Len(Fed(k))), k)
         \/ Garbled(Fed(k)) /\ RustFailed(Fed(k), k)
         \/ /\ Len(Fed(k)) = 1 /\ ~Garbled(Fed(k))
            /\ c_worker' = [c_worker EXCEPT !.stash = Fed(k)]
            /\ n_in' = Taken(c_worker.conn, k)
            /\ UNCHANGED <<c_answer, n_opened, n_up>>
  BY DEF RustRead, Arrived, Fed
<1>2. UNCHANGED <<c_lang, c_op, c_issued, c_tasks, c_mixed, n_lost, n_out, server_vars>>
  BY DEF RustRead
<1>3. k \in 1 .. Len(n_in[c_worker.conn]) /\ k \in 0 .. Len(n_in[c_worker.conn]) /\ n_in[c_worker.conn] \in Seq(ResponsePieces)
  BY <1>0 DEF Arrived, WorkerTypes, NetTypes
<1>4. Fed(k) \in Seq(ResponsePieces) /\ SubSeq(Fed(k), 3, Len(Fed(k))) \in Seq(ResponsePieces)
      /\ (Len(Fed(k)) = 2 => SubSeq(Fed(k), 3, Len(Fed(k))) = <<>>)
  BY <1>0, <1>3 DEF Fed
<1>5. CASE /\ Whole(Fed(k)) /\ Len(Fed(k)[1].run) = Len(c_worker.run)
           /\ c_answer' = Answered(c_worker.run, Fed(k)[1].run)
           /\ c_worker' = [c_worker EXCEPT !.pc = "segment", !.run = <<>>,
                                            !.stash = SubSeq(Fed(k), 3, Len(Fed(k)))]
           /\ n_in' = Taken(c_worker.conn, k)
           /\ UNCHANGED <<n_opened, n_up>>
  <2>1. Len(c_worker.run) \in Nat
    BY DEF WorkerTypes, WorkerOK, List, Incr
  <2>2. Len(Fed(k)[1].run) >= Len(c_worker.run)
    BY <1>5, <2>1
  <2> HIDE DEF Fed
  <2>3. Settle
    BY <1>0, <1>2, <1>4, <1>5, <2>2 DEF Settle, Stays
  <2> QED BY <2>3
<1>6. CASE /\ Whole(Fed(k))
           /\ ~(SameShape(c_worker.run, Fed(k)[1].run) /\ Len(Fed(k)[1].run) = Len(c_worker.run))
           /\ RustFailed(SubSeq(Fed(k), 3, Len(Fed(k))), k)
  <2>1. Spoils(SubSeq(Fed(k), 3, Len(Fed(k))))
    BY <1>4, <1>6 DEF Spoils
  <2> QED BY <1>0, <1>2, <1>3, <1>4, <1>6, <2>1, RustFailedEnds
<1>7. CASE Garbled(Fed(k)) /\ RustFailed(Fed(k), k)
  <2>1. Spoils(Fed(k))
    BY <1>7 DEF Spoils
  <2> QED BY <1>0, <1>2, <1>3, <1>4, <1>7, <2>1, RustFailedEnds
<1>8. CASE /\ Len(Fed(k)) = 1 /\ ~Garbled(Fed(k))
           /\ c_worker' = [c_worker EXCEPT !.stash = Fed(k)]
           /\ n_in' = Taken(c_worker.conn, k)
           /\ UNCHANGED <<c_answer, n_opened, n_up>>
  <2>1. More
    BY <1>0, <1>2, <1>8 DEF More, Stays
  <2> QED BY <2>1
<1> QED BY <1>1, <1>5, <1>6, <1>7, <1>8

(* Each step of the Rust worker is a step of a worker.                     *)
LEMMA RustRefines ==
    ASSUME WorkerTypes, c_lang = "rust", RustStep PROVE WorkerStep
<1>1. CASE RustDrain \/ RustStillDead \/ RustFlush \/ RustDone
  BY <1>1, RustDrainRegroups, RustStillDeadRegroups, RustFlushRegroups, RustDoneRegroups DEF WorkerStep
<1>2. CASE RustWrite
  <2>1. Write
    BY <1>2 DEF RustWrite, Write, Stays
  <2> QED BY <2>1 DEF WorkerStep
<1>3. CASE RustRead
  BY <1>3, RustReadEnds DEF WorkerStep
<1>4. CASE RustReadFails
  <2>1. c_worker.pc = "read" /\ Spoils(c_worker.stash) /\ RustFailed(c_worker.stash, 0)
    BY <1>4 DEF RustReadFails, Spoils
  <2>2. UNCHANGED <<c_lang, c_op, c_issued, c_tasks, c_mixed, n_lost, n_out, server_vars>>
    BY <1>4 DEF RustReadFails
  <2>3. 0 \in 0 .. Len(n_in[c_worker.conn]) /\ c_worker.stash \in Seq(ResponsePieces)
    BY DEF WorkerTypes, WorkerOK, NetTypes
  <2> QED BY <2>1, <2>2, <2>3, RustFailedEnds DEF WorkerStep
<1> QED BY <1>1, <1>2, <1>3, <1>4 DEF RustStep

LEMMA GoDrainRegroups ==
    ASSUME WorkerTypes, c_lang = "go", GoDrain PROVE Regroup
<1>0. /\ IsWorker(c_worker) /\ c_worker.pc = "idle" /\ c_worker.queue # <<>> /\ c_worker.cmds = <<>>
      /\ Incr(c_worker.queue, NCalls) /\ NCalls \in Nat /\ Range(<<>>) = {} /\ List(<<>>) /\ ~c_worker.dead
  BY NoCalls DEF WorkerTypes, WorkerOK, GoDrain, List
<1>1. UNCHANGED <<c_mixed, net_vars>> /\ Stays /\ {} \in SUBSET Calls /\ Refuses({})
  BY RefusesNone DEF GoDrain, Stays, net_vars, WorkerTypes
<1>2. /\ Incr(Tail(c_worker.queue), NCalls) /\ Range(Tail(c_worker.queue)) \subseteq Range(c_worker.queue)
  BY <1>0, IncrTail
<1>3. /\ \/ c_worker'.pc = "gone" /\ c_worker'.cmds = <<>> /\ c_worker'.queue = Tail(c_worker.queue)
         \/ c_worker'.pc = "segment" /\ c_worker'.cmds = c_worker.queue /\ c_worker'.queue = <<>>
      /\ c_worker'.direct = c_worker.direct /\ c_worker'.run = c_worker.run /\ c_worker'.try = c_worker.try
      /\ c_worker'.back = c_worker.back /\ IsWorker(c_worker') /\ c_worker'.dead = c_worker.dead
      /\ c_worker'.stash = c_worker.stash /\ c_worker'.conn = c_worker.conn
  BY <1>0 DEF GoDrain, IsWorker
<1>4. RunSet(c_worker) = {} /\ RunSet(c_worker') = {} /\ ~Running(c_worker')
  BY <1>0, <1>3 DEF RunSet, Running
<1>5. Held(c_worker') \subseteq Held(c_worker) /\ (c_worker'.pc = "gone" \/ Held(c_worker) \subseteq Held(c_worker'))
  BY <1>0, <1>2, <1>3 DEF Held
<1>6. WorkerOK(c_worker')
  <2>1. CASE c_worker'.pc = "gone"
    BY <1>0, <1>2, <1>3, <1>4, <1>5, <2>1 DEF WorkerTypes, WorkerOK, List
  <2>2. CASE c_worker'.pc = "segment"
    BY <1>0, <1>3, <1>4, <1>5, <2>2 DEF WorkerTypes, WorkerOK
  <2> QED BY <1>3, <2>1, <2>2
<1>7. (Fit(c_worker') => Fit(c_worker)) /\ c_worker'.pc \notin {"read", "write"}
  BY <1>0, <1>3 DEF Fit
<1> QED BY <1>0, <1>1, <1>3, <1>4, <1>5, <1>6, <1>7, Regroups

LEMMA GoDoneRegroups ==
    ASSUME WorkerTypes, c_lang = "go", GoDone PROVE Regroup
<1>1. IsWorker(c_worker) /\ c_worker.pc = "segment" /\ c_worker.cmds = <<>> /\ c_worker' = [c_worker EXCEPT !.pc = "idle"]
  BY DEF WorkerTypes, WorkerOK, GoDone
<1>3. /\ c_worker'.pc = "idle" /\ c_worker'.cmds = c_worker.cmds /\ c_worker'.queue = c_worker.queue
      /\ c_worker'.direct = c_worker.direct /\ c_worker'.run = c_worker.run /\ c_worker'.try = c_worker.try
      /\ c_worker'.back = c_worker.back /\ IsWorker(c_worker') /\ c_worker'.dead = c_worker.dead
      /\ c_worker'.stash = c_worker.stash /\ c_worker'.conn = c_worker.conn
  BY <1>1 DEF IsWorker
<1>4. RunSet(c_worker) = {} /\ RunSet(c_worker') = {}
  BY <1>1, <1>3 DEF RunSet, Running
<1>5. Held(c_worker') = Held(c_worker)
  BY <1>3 DEF Held
<1>6. WorkerOK(c_worker')
  BY <1>1, <1>3, <1>4, <1>5 DEF WorkerTypes, WorkerOK
<1>7. {} \in SUBSET Calls /\ Refuses({})
  BY RefusesNone DEF GoDone, WorkerTypes
<1>8. UNCHANGED <<c_mixed, net_vars>> /\ Stays
  BY DEF GoDone, Stays, net_vars
<1>9. Fit(c_worker') => Fit(c_worker)
  BY <1>1, <1>3 DEF Fit
<1> QED BY <1>1, <1>3, <1>4, <1>5, <1>6, <1>7, <1>8, <1>9, Regroups

LEMMA GoFlushSends ==
    ASSUME WorkerTypes, c_lang = "go", ~c_worker.closed, GoFlush PROVE Regroup
<1> DEFINE s == c_worker.cmds
           n == GoSegment(s)
           seg == SubSeq(s, 1, n)
           rest == SubSeq(s, n + 1, Len(s))
<1>1. /\ IsWorker(c_worker) /\ c_worker.pc = "segment" /\ s # <<>> /\ Incr(s, NCalls) /\ NCalls \in Nat
      /\ s \in Seq(Calls)
  BY NoCalls DEF WorkerTypes, WorkerOK, GoFlush, List, Incr, Calls
<1>2. PICK late \in SUBSET Range(seg) :
        /\ c_answer' = Refused(late, "timeout")
        /\ c_worker' = [c_worker EXCEPT
                              !.cmds = rest, !.run = Without(seg, late), !.try = 1,
                              !.pc = IF Without(seg, late) = <<>> THEN "segment" ELSE "write"]
  BY Zenon DEF GoFlush
<1>3. n \in 1 .. Len(s) /\ n \in Nat /\ n <= Len(s)
  BY <1>1, GoSegmentFits
<1> HIDE DEF n
<1>4. /\ Incr(seg, NCalls) /\ Incr(rest, NCalls) /\ Range(seg) \cup Range(rest) = Range(s)
      /\ Range(seg) \cap Range(rest) = {} /\ \A x \in Range(seg), y \in Range(rest) : x < y
  BY <1>1, <1>3, IncrCut
<1> DEFINE fresh == Without(seg, late)
<1> HIDE DEF seg, rest, s
<1>5. Incr(fresh, NCalls) /\ Range(fresh) = Range(seg) \ late
  BY <1>1, <1>4, WithoutFacts
<1> HIDE DEF fresh
<1>6. /\ c_worker'.pc = (IF fresh = <<>> THEN "segment" ELSE "write") /\ c_worker'.cmds = rest /\ c_worker'.queue = c_worker.queue
      /\ c_worker'.direct = c_worker.direct /\ c_worker'.run = fresh /\ c_worker'.try = 1
      /\ c_worker'.back = c_worker.back /\ IsWorker(c_worker') /\ c_worker'.dead = c_worker.dead
      /\ c_worker'.stash = c_worker.stash /\ c_worker'.conn = c_worker.conn
  BY <1>1, <1>2 DEF IsWorker, fresh
<1>7. RunSet(c_worker) = {} /\ RunSet(c_worker') = Range(fresh)
  BY <1>1, <1>6, NoCalls DEF RunSet, Running
<1>8. /\ Held(c_worker') \cup RunSet(c_worker') \subseteq Held(c_worker)
      /\ Held(c_worker) \ (Held(c_worker') \cup RunSet(c_worker')) \subseteq late
  BY <1>4, <1>5, <1>6, <1>7 DEF Held, s
<1>9. WorkerOK(c_worker')
  BY <1>1, <1>4, <1>5, <1>6, <1>7 DEF WorkerTypes, WorkerOK, Held, s, List
<1>10. late \in SUBSET Calls /\ Refuses(late)
  <2>1. Range(seg) \subseteq Calls
    BY <1>4, RangeIn DEF Incr, Calls
  <2> QED BY <1>2, <2>1 DEF Refuses
<1>11. UNCHANGED <<c_mixed, net_vars>> /\ Stays
  BY DEF GoFlush, Stays, net_vars
<1>12. (Fit(c_worker') => Fit(c_worker)) /\ c_worker'.pc # "read"
  BY <1>1, <1>6 DEF Fit
<1> QED BY <1>1, <1>6, <1>8, <1>9, <1>10, <1>11, <1>12, Regroups

-----------------------------------------------------------------------------

LEMMA GoFlushRefuses ==
    ASSUME WorkerTypes, c_lang = "go", c_worker.closed, GoFlush PROVE Regroup
<1> DEFINE s == c_worker.cmds
           n == GoSegment(s)
           seg == SubSeq(s, 1, n)
           rest == SubSeq(s, n + 1, Len(s))
<1>1. /\ IsWorker(c_worker) /\ c_worker.pc = "segment" /\ s # <<>> /\ Incr(s, NCalls) /\ NCalls \in Nat
      /\ s \in Seq(Calls)
  BY NoCalls DEF WorkerTypes, WorkerOK, GoFlush, List, Incr, Calls
<1>2. /\ c_answer' = Refused(Range(seg), "closed")
      /\ c_worker' = [c_worker EXCEPT !.cmds = rest, !.pc = GoAfter(seg)]
  BY Zenon DEF GoFlush
<1>3. n \in 1 .. Len(s) /\ n \in Nat /\ n <= Len(s)
  BY <1>1, GoSegmentFits
<1> HIDE DEF n
<1>4. /\ Incr(seg, NCalls) /\ Incr(rest, NCalls) /\ Range(seg) \cup Range(rest) = Range(s)
  BY <1>1, <1>3, IncrCut
<1> HIDE DEF seg, rest, s
<1>6. /\ c_worker'.pc \in {"gone", "segment"} /\ c_worker'.cmds = rest /\ c_worker'.queue = c_worker.queue
      /\ c_worker'.direct = c_worker.direct /\ c_worker'.run = c_worker.run /\ c_worker'.try = c_worker.try
      /\ c_worker'.back = c_worker.back /\ IsWorker(c_worker') /\ c_worker'.dead = c_worker.dead
      /\ c_worker'.stash = c_worker.stash /\ c_worker'.conn = c_worker.conn
  BY <1>1, <1>2 DEF IsWorker, GoAfter
<1>7. RunSet(c_worker) = {} /\ RunSet(c_worker') = {} /\ ~Running(c_worker')
  BY <1>1, <1>6 DEF RunSet, Running
<1>8. /\ Held(c_worker') \cup RunSet(c_worker') \subseteq Held(c_worker)
      /\ Held(c_worker) \ (Held(c_worker') \cup RunSet(c_worker')) \subseteq Range(seg)
  BY <1>4, <1>6, <1>7 DEF Held, s
<1>9. WorkerOK(c_worker')
  BY <1>1, <1>4, <1>6, <1>7 DEF WorkerTypes, WorkerOK, Held, s, List
<1>10. Range(seg) \in SUBSET Calls /\ Refuses(Range(seg))
  <2>1. Range(seg) \subseteq Calls
    BY <1>4, RangeIn DEF Incr, Calls
  <2> QED BY <1>2, <2>1 DEF Refuses
<1>11. UNCHANGED <<c_mixed, net_vars>> /\ Stays
  BY DEF GoFlush, Stays, net_vars
<1>12. (Fit(c_worker') => Fit(c_worker)) /\ c_worker'.pc \notin {"read", "write"}
  BY <1>1, <1>6 DEF Fit
<1> QED BY <1>1, <1>6, <1>8, <1>9, <1>10, <1>11, <1>12, Regroups

LEMMA GoFailedEnds ==
    ASSUME WorkerTypes, c_lang = "go", c_worker.pc = "read", NEW stash \in Seq(ResponsePieces),
           NEW k \in 0 .. Len(n_in[c_worker.conn]),
           Spoils(stash), GoFailed(stash, k),
           UNCHANGED <<c_lang, c_op, c_issued, c_tasks, c_mixed, n_lost, n_out, server_vars>>
    PROVE  Retry \/ Fail
<1>0. IsWorker(c_worker) /\ Running(c_worker) /\ RunSet(c_worker) \subseteq Made /\ Held(c_worker) \subseteq Made
  BY DEF WorkerTypes, WorkerOK, Running
<1>1. CASE /\ c_worker.try = 1 /\ GoRetrySafe
           /\ Reconnected(c_worker.conn)
           /\ c_worker' = [c_worker EXCEPT !.pc = "write", !.try = 2, !.stash = stash, !.conn = n_opened + 1]
           /\ UNCHANGED c_answer
  <2>1. ASSUME NEW x \in Range(c_worker.run) PROVE ~Unrepeated(x)
    <3>1. x \in DOMAIN c_op
      BY <1>0 DEF RunSet, Made
    <3>2. c_op[x] \in DOMAIN GoOps
      BY <3>1, LangsAssumption DEF WorkerTypes, NetTypes, Methods
    <3> QED BY <1>1, <3>2, GoMethods DEF GoRetrySafe, Unrepeated
  <2>2. c_worker'.conn = n_opened + 1
    BY <1>0, <1>1 DEF IsWorker
  <2>3. \E st \in Seq(ResponsePieces) :
          /\ Spoils(st) /\ (c_lang = "rust" => st = <<>>)
          /\ c_worker' = [c_worker EXCEPT !.pc = "write", !.try = 2, !.stash = st, !.conn = n_opened + 1]
    BY <1>1
  <2>4. Retry
    BY <1>1, <2>1, <2>2, <2>3, Zenon DEF Retry, Opens, Stays
  <2> QED BY <2>4
<1>2. CASE /\ c_answer' = Refused(Range(c_worker.run), "transport")
           /\ c_worker' = [c_worker EXCEPT !.pc = GoAfter(c_worker.run), !.run = <<>>,
                                       !.stash = stash]
           /\ n_in' = Taken(c_worker.conn, k)
           /\ UNCHANGED <<n_opened, n_up>>
  <2> DEFINE S == Range(c_worker.run)
             pc == GoAfter(c_worker.run)
  <2>1. S \in SUBSET Calls
    BY <1>0, NoCalls DEF RunSet, Held, Made, Calls, WorkerTypes, NetTypes
  <2>2. Refuses(S) /\ pc \in {"gone", "segment"}
    BY <1>2 DEF Refuses, GoAfter
  <2>3. c_worker' = [c_worker EXCEPT !.pc = pc, !.run = <<>>, !.cmds = c_worker.cmds, !.stash = stash, !.dead = c_worker.dead]
    BY <1>0, <1>2 DEF IsWorker
  <2>4. n_in' \in {n_in} \cup {Taken(c_worker.conn, j) : j \in Arrived}
    BY <1>2, TakenNone DEF WorkerTypes, WorkerOK, Arrived
  <2> HIDE DEF S, pc
  <2>5. Ends(pc, <<>>, c_worker.cmds, stash, c_worker.dead, S)
    BY <2>2, <2>3 DEF Ends, S
  <2>6. \E p \in {"idle", "segment", "direct", "queue", "gone"}, run \in {c_worker.run, <<>>},
          cmds \in {c_worker.cmds, <<>>}, st \in Seq(ResponsePieces), dead \in {c_worker.dead, TRUE},
          T \in SUBSET Calls : Ends(p, run, cmds, st, dead, T)
    BY <2>1, <2>2, <2>5
  <2>7. Fail
    BY <1>2, <2>4, <2>6 DEF Fail, Stays
  <2> QED BY <2>7
<1> QED BY <1>1, <1>2 DEF GoFailed

LEMMA GoReadEnds ==
    ASSUME WorkerTypes, c_lang = "go", GoRead PROVE Retry \/ Fail \/ Settle \/ More
<1>0. IsWorker(c_worker) /\ c_worker.pc = "read" /\ c_worker.stash \in Seq(ResponsePieces) /\ c_worker.conn \in Conns
  BY DEF WorkerTypes, WorkerOK, GoRead
<1>1. PICK k \in Arrived :
             \/ /\ Whole(Fed(k)) /\ SameShape(c_worker.run, Fed(k)[1].run)
                /\ n_in' = Taken(c_worker.conn, k)
                /\ IF Len(Fed(k)[1].run) >= Len(c_worker.run)
                   THEN /\ c_answer' = Answered(c_worker.run, Fed(k)[1].run)
                        /\ c_worker' = [c_worker EXCEPT !.pc = GoAfter(c_worker.run),
                                                        !.run = <<>>, !.stash = AfterWhole(Fed(k))]
                   ELSE /\ c_worker' = [c_worker EXCEPT !.pc = "gone"]
                        /\ UNCHANGED c_answer
                /\ UNCHANGED <<n_opened, n_up>>
             \/ /\ Whole(Fed(k)) /\ ~SameShape(c_worker.run, Fed(k)[1].run)
                /\ GoFailed(AfterWhole(Fed(k)), k)
             \/ Garbled(Fed(k)) /\ GoFailed(Fed(k), k)
             \/ /\ Len(Fed(k)) = 1 /\ ~Garbled(Fed(k))
                /\ c_worker' = [c_worker EXCEPT !.stash = Fed(k)]
                /\ n_in' = Taken(c_worker.conn, k)
                /\ UNCHANGED <<c_answer, n_opened, n_up>>
  BY DEF GoRead, Arrived, Fed
<1>2. UNCHANGED <<c_lang, c_op, c_issued, c_tasks, c_mixed, n_lost, n_out, server_vars>>
  BY DEF GoRead
<1>3. k \in 1 .. Len(n_in[c_worker.conn]) /\ k \in 0 .. Len(n_in[c_worker.conn]) /\ n_in[c_worker.conn] \in Seq(ResponsePieces)
  BY <1>0 DEF Arrived, WorkerTypes, NetTypes
<1>4. Fed(k) \in Seq(ResponsePieces)
  BY <1>0, <1>3 DEF Fed
<1>40. AfterWhole(Fed(k)) \in Seq(ResponsePieces) /\ (Whole(Fed(k)) /\ Len(Fed(k)) = 2 => AfterWhole(Fed(k)) = <<>>)
  <2> HIDE DEF Fed
  <2> QED BY <1>4, AfterWholeFacts
<1>41. GoAfter(c_worker.run) \in {"gone", "segment"}
  BY DEF GoAfter
<1>5. CASE /\ Whole(Fed(k)) /\ Len(Fed(k)[1].run) >= Len(c_worker.run)
           /\ c_answer' = Answered(c_worker.run, Fed(k)[1].run)
           /\ c_worker' = [c_worker EXCEPT !.pc = GoAfter(c_worker.run), !.run = <<>>,
                                            !.stash = AfterWhole(Fed(k))]
           /\ n_in' = Taken(c_worker.conn, k)
           /\ UNCHANGED <<n_opened, n_up>>
  <2> HIDE DEF Fed
  <2>3. Settle
    BY <1>0, <1>2, <1>40, <1>41, <1>5 DEF Settle, Stays
  <2> QED BY <2>3
<1>50. CASE /\ Whole(Fed(k)) /\ c_worker' = [c_worker EXCEPT !.pc = "gone"]
            /\ n_in' = Taken(c_worker.conn, k)
            /\ UNCHANGED <<c_answer, n_opened, n_up>>
  <2>1. c_worker' = [c_worker EXCEPT !.pc = "gone", !.run = c_worker.run, !.cmds = c_worker.cmds, !.stash = c_worker.stash, !.dead = c_worker.dead]
    BY <1>0, <1>50 DEF IsWorker
  <2>2. Spoils(c_worker.stash) /\ Refuses({})
    BY <1>50, RefusesNone DEF Spoils, WorkerTypes
  <2>3. Ends("gone", c_worker.run, c_worker.cmds, c_worker.stash, c_worker.dead, {})
    BY <2>1, <2>2 DEF Ends
  <2>4. \E p \in {"idle", "segment", "direct", "queue", "gone"}, run \in {c_worker.run, <<>>},
          cmds \in {c_worker.cmds, <<>>}, st \in Seq(ResponsePieces), dead \in {c_worker.dead, TRUE},
          T \in SUBSET Calls : Ends(p, run, cmds, st, dead, T)
    BY <1>0, <2>3
  <2>5. n_in' \in {Taken(c_worker.conn, j) : j \in Arrived}
    BY <1>50
  <2>6. Fail
    BY <1>0, <1>2, <1>50, <2>4, <2>5 DEF Fail, Stays
  <2> QED BY <2>6
<1>6. CASE /\ Whole(Fed(k)) /\ ~SameShape(c_worker.run, Fed(k)[1].run)
           /\ GoFailed(AfterWhole(Fed(k)), k)
  <2>1. Spoils(AfterWhole(Fed(k)))
    BY <1>40, <1>6 DEF Spoils
  <2> QED BY <1>0, <1>2, <1>3, <1>40, <1>6, <2>1, GoFailedEnds
<1>7. CASE Garbled(Fed(k)) /\ GoFailed(Fed(k), k)
  <2>1. Spoils(Fed(k))
    BY <1>7 DEF Spoils
  <2> QED BY <1>0, <1>2, <1>3, <1>4, <1>7, <2>1, GoFailedEnds
<1>8. CASE /\ Len(Fed(k)) = 1 /\ ~Garbled(Fed(k))
           /\ c_worker' = [c_worker EXCEPT !.stash = Fed(k)]
           /\ n_in' = Taken(c_worker.conn, k)
           /\ UNCHANGED <<c_answer, n_opened, n_up>>
  <2>1. More
    BY <1>0, <1>2, <1>8 DEF More, Stays
  <2> QED BY <2>1
<1> QED BY <1>1, <1>5, <1>50, <1>6, <1>7, <1>8

(* Each step of the Go worker is a step of a worker.                       *)
LEMMA GoRefines ==
    ASSUME WorkerTypes, c_lang = "go", GoStep PROVE WorkerStep
<1>1. CASE GoDrain \/ GoFlush \/ GoDone
  BY <1>1, GoDrainRegroups, GoFlushSends, GoFlushRefuses, GoDoneRegroups DEF WorkerStep
<1>2. CASE GoWrite
  <2>1. Write
    BY <1>2 DEF GoWrite, Write, Stays
  <2> QED BY <2>1 DEF WorkerStep
<1>3. CASE GoRead
  BY <1>3, GoReadEnds DEF WorkerStep
<1>4. CASE GoReadFails
  <2>1. c_worker.pc = "read" /\ Spoils(c_worker.stash) /\ GoFailed(c_worker.stash, 0)
    BY <1>4 DEF GoReadFails, Spoils
  <2>2. UNCHANGED <<c_lang, c_op, c_issued, c_tasks, c_mixed, n_lost, n_out, server_vars>>
    BY <1>4 DEF GoReadFails
  <2>3. 0 \in 0 .. Len(n_in[c_worker.conn]) /\ c_worker.stash \in Seq(ResponsePieces)
    BY DEF WorkerTypes, WorkerOK, NetTypes
  <2> QED BY <2>1, <2>2, <2>3, GoFailedEnds DEF WorkerStep
<1> QED BY <1>1, <1>2, <1>3, <1>4 DEF GoStep

LEMMA PyWakeRegroups ==
    ASSUME WorkerTypes, c_lang = "py", PyWake PROVE Regroup
<1>0. /\ IsWorker(c_worker) /\ c_worker.pc = "idle" /\ c_worker.cmds = <<>> /\ ~c_worker.dead
      /\ NCalls \in Nat /\ Range(<<>>) = {} /\ List(<<>>)
  BY NoCalls DEF WorkerTypes, WorkerOK, PyWake
<1>1. UNCHANGED <<c_mixed, net_vars>> /\ Stays
  BY DEF PyWake, Stays, net_vars
<1>2. CASE c_worker' = [c_worker EXCEPT !.pc = "direct"] /\ UNCHANGED c_answer
  <2>1. /\ c_worker'.pc = "direct" /\ c_worker'.cmds = c_worker.cmds /\ c_worker'.queue = c_worker.queue
        /\ c_worker'.direct = c_worker.direct /\ c_worker'.run = c_worker.run /\ c_worker'.try = c_worker.try
        /\ c_worker'.back = c_worker.back /\ IsWorker(c_worker') /\ c_worker'.dead = c_worker.dead
        /\ c_worker'.stash = c_worker.stash /\ c_worker'.conn = c_worker.conn
    BY <1>0, <1>2 DEF IsWorker
  <2>2. RunSet(c_worker) = {} /\ RunSet(c_worker') = {} /\ ~Running(c_worker') /\ Held(c_worker') = Held(c_worker)
    BY <1>0, <2>1 DEF RunSet, Running, Held
  <2>3. WorkerOK(c_worker')
    BY <1>0, <2>1, <2>2 DEF WorkerTypes, WorkerOK
  <2>4. {} \in SUBSET Calls /\ Refuses({})
    BY <1>2, RefusesNone DEF WorkerTypes
  <2>5. (Fit(c_worker') => Fit(c_worker)) /\ c_worker'.pc \notin {"read", "write"}
    BY <1>0, <2>1 DEF Fit
  <2> QED BY <1>0, <1>1, <2>1, <2>2, <2>3, <2>4, <2>5, Regroups
<1>3. CASE /\ c_answer' = Refused(Range(c_worker.direct) \cup Range(c_worker.queue), "transport")
           /\ c_worker' = [c_worker EXCEPT !.pc = "gone", !.direct = <<>>, !.queue = <<>>]
  <2>1. /\ c_worker'.pc = "gone" /\ c_worker'.cmds = c_worker.cmds /\ c_worker'.queue = <<>>
        /\ c_worker'.direct = <<>> /\ c_worker'.run = c_worker.run /\ c_worker'.try = c_worker.try
        /\ c_worker'.back = c_worker.back /\ IsWorker(c_worker') /\ c_worker'.dead = c_worker.dead
        /\ c_worker'.stash = c_worker.stash /\ c_worker'.conn = c_worker.conn
    BY <1>0, <1>3 DEF IsWorker
  <2>2. RunSet(c_worker) = {} /\ RunSet(c_worker') = {} /\ ~Running(c_worker') /\ Held(c_worker') \subseteq Held(c_worker)
    BY <1>0, <2>1 DEF RunSet, Running, Held
  <2>3. WorkerOK(c_worker')
    BY <1>0, <2>1, <2>2 DEF WorkerTypes, WorkerOK
  <2> DEFINE S == Range(c_worker.direct) \cup Range(c_worker.queue)
  <2>4. S \in SUBSET Calls
    BY NoCalls DEF WorkerTypes, Held, Made, NetTypes, Calls
  <2>5. Refuses(S)
    BY <1>3 DEF Refuses
  <2> HIDE DEF S
  <2>6. (Fit(c_worker') => Fit(c_worker)) /\ c_worker'.pc \notin {"read", "write"}
    BY <1>0, <2>1 DEF Fit
  <2> QED BY <1>0, <1>1, <2>1, <2>2, <2>3, <2>4, <2>5, <2>6, Regroups
<1> QED BY <1>2, <1>3 DEF PyWake

\* _flush_run, on a run cut off one of the two queues.
PyCut(run, back, direct, queue) ==
    /\ Incr(run, NCalls) /\ Incr(direct, NCalls) /\ Incr(queue, NCalls)
    /\ Range(run) \cup Range(direct) \cup Range(queue) = Range(c_worker.direct) \cup Range(c_worker.queue)
    /\ Range(run) \cap (Range(direct) \cup Range(queue)) = {} /\ Range(direct) \cap Range(queue) = {}
    /\ \A x \in Range(run), y \in Range(queue) : Batched(x) => x < y
    /\ \A x \in Range(direct) : ~Batched(x)
    /\ back \in {"direct", "queue"}
    /\ direct = (IF back = "direct" THEN Tail(c_worker.direct) ELSE c_worker.direct)
    /\ queue = SubSeq(c_worker.queue, (IF back = "queue" THEN Len(run) ELSE 0) + 1, Len(c_worker.queue))

LEMMA PyFlushRegroups ==
    ASSUME WorkerTypes, c_lang = "py", c_worker.pc \in {"direct", "queue"},
           NEW run, NEW back, NEW direct, NEW queue, PyCut(run, back, direct, queue), PyFlush(run, back),
           UNCHANGED <<c_mixed, net_vars>>, Stays
    PROVE  Regroup
<1>0. /\ IsWorker(c_worker) /\ c_worker.cmds = <<>> /\ ~c_worker.dead
      /\ NCalls \in Nat /\ Range(<<>>) = {} /\ List(<<>>)
  BY NoCalls DEF WorkerTypes, WorkerOK
<1>1. Range(run) \in SUBSET Calls
  BY RangeIn DEF PyCut, Incr, Calls
<1>2. CASE c_worker.closed
  <2>0. /\ c_answer' = Refused(Range(run), "closed")
        /\ c_worker' = [c_worker EXCEPT !.pc = "gone", !.direct = direct, !.queue = queue]
    BY <1>2 DEF PyFlush, PyCut
  <2>1. /\ c_worker'.pc = "gone" /\ c_worker'.cmds = c_worker.cmds /\ c_worker'.queue = queue
        /\ c_worker'.direct = direct /\ c_worker'.run = c_worker.run /\ c_worker'.try = c_worker.try
        /\ c_worker'.back = c_worker.back /\ IsWorker(c_worker') /\ c_worker'.dead = c_worker.dead
        /\ c_worker'.stash = c_worker.stash /\ c_worker'.conn = c_worker.conn
    BY <1>0, <2>0 DEF IsWorker
  <2>2. RunSet(c_worker) = {} /\ RunSet(c_worker') = {} /\ ~Running(c_worker') /\ Held(c_worker') \subseteq Held(c_worker)
    BY <1>0, <2>1 DEF RunSet, Running, Held, PyCut
  <2>3. WorkerOK(c_worker')
    BY <1>0, <2>1, <2>2 DEF WorkerTypes, WorkerOK, PyCut, List
  <2>4. Refuses(Range(run))
    BY <2>0 DEF Refuses
  <2>5. (Fit(c_worker') => Fit(c_worker)) /\ c_worker'.pc \notin {"read", "write"}
    BY <1>0, <2>1 DEF Fit
  <2> QED BY <1>0, <1>1, <2>1, <2>2, <2>3, <2>4, <2>5, Regroups
<1>3. CASE ~c_worker.closed
  <2> DEFINE A == {x \in Calls : c_answer[x] # Unanswered}
             fresh == Without(run, A)
  <2>0. /\ UNCHANGED c_answer
        /\ c_worker' = [c_worker EXCEPT !.pc = IF fresh = <<>> THEN back ELSE "write",
                             !.run = fresh, !.try = 1, !.back = back,
                             !.direct = direct, !.queue = queue]
    BY <1>3 DEF PyFlush, PyCut
  <2>00. Incr(fresh, NCalls) /\ Range(fresh) = Range(run) \ A
    <3> HIDE DEF A
    <3> QED BY <1>0, WithoutFacts DEF PyCut
  <2> HIDE DEF fresh
  <2>1. /\ c_worker'.pc = (IF fresh = <<>> THEN back ELSE "write") /\ c_worker'.cmds = c_worker.cmds /\ c_worker'.queue = queue
        /\ c_worker'.direct = direct /\ c_worker'.run = fresh /\ c_worker'.try = 1
        /\ c_worker'.back = back /\ IsWorker(c_worker') /\ c_worker'.dead = c_worker.dead
        /\ c_worker'.stash = c_worker.stash /\ c_worker'.conn = c_worker.conn
    BY <1>0, <2>0 DEF IsWorker
  <2>2. RunSet(c_worker) = {} /\ RunSet(c_worker') = Range(fresh)
    BY <1>0, <2>1 DEF RunSet, Running, PyCut
  <2>3. Held(c_worker') \cup RunSet(c_worker') \subseteq Held(c_worker) /\ Held(c_worker) \ (Held(c_worker') \cup RunSet(c_worker')) \subseteq A
    BY <1>0, <2>1, <2>2, <2>00 DEF Held, PyCut
  <2>4. WorkerOK(c_worker')
    BY <1>0, <2>1, <2>2, <2>00 DEF WorkerTypes, WorkerOK, PyCut, List, Held
  <2>5. {} \in SUBSET Calls /\ Refuses({})
    BY <2>0, RefusesNone DEF WorkerTypes
  <2>6. (Fit(c_worker') => Fit(c_worker)) /\ c_worker'.pc # "read"
    BY <1>0, <2>1 DEF Fit, PyCut
  <2>7. \A x \in Held(c_worker) \ (Held(c_worker') \cup RunSet(c_worker')) : c_answer[x] # Unanswered
    BY <2>3
  <2> QED BY <1>0, <2>1, <2>3, <2>4, <2>5, <2>6, <2>7, Regroups
<1> QED BY <1>2, <1>3

LEMMA PyIdleRegroups ==
    ASSUME WorkerTypes, c_lang = "py", c_worker.pc \in {"direct", "queue"}, NEW pc \in {"queue", "idle"},
           c_worker' = [c_worker EXCEPT !.pc = pc], UNCHANGED c_answer, UNCHANGED <<c_mixed, net_vars>>, Stays
    PROVE  Regroup
<1>0. /\ IsWorker(c_worker) /\ c_worker.cmds = <<>> /\ ~c_worker.dead
  BY NoCalls DEF WorkerTypes, WorkerOK
<1>1. /\ c_worker'.pc = pc /\ c_worker'.cmds = c_worker.cmds /\ c_worker'.queue = c_worker.queue
      /\ c_worker'.direct = c_worker.direct /\ c_worker'.run = c_worker.run /\ c_worker'.try = c_worker.try
      /\ c_worker'.back = c_worker.back /\ IsWorker(c_worker') /\ c_worker'.dead = c_worker.dead
      /\ c_worker'.stash = c_worker.stash /\ c_worker'.conn = c_worker.conn
  BY <1>0 DEF IsWorker
<1>2. RunSet(c_worker) = {} /\ RunSet(c_worker') = {} /\ ~Running(c_worker') /\ Held(c_worker') = Held(c_worker)
  BY <1>0, <1>1 DEF RunSet, Running, Held
<1>3. WorkerOK(c_worker')
  BY <1>0, <1>1, <1>2 DEF WorkerTypes, WorkerOK
<1>4. {} \in SUBSET Calls /\ Refuses({})
  BY RefusesNone DEF WorkerTypes
<1>5. (Fit(c_worker') => Fit(c_worker)) /\ c_worker'.pc \notin {"read", "write"}
  BY <1>0, <1>1 DEF Fit
<1> QED BY <1>0, <1>1, <1>2, <1>3, <1>4, <1>5, Regroups

LEMMA PyNextDirectRegroups ==
    ASSUME WorkerTypes, c_lang = "py", PyNextDirect PROVE Regroup
<1>1. UNCHANGED <<c_mixed, net_vars>> /\ Stays /\ c_worker.pc = "direct"
  BY DEF PyNextDirect, Stays, net_vars
<1>2. CASE c_worker.direct = <<>>
  BY <1>1, <1>2, PyIdleRegroups DEF PyNextDirect
<1>3. CASE c_worker.direct # <<>>
  <2> DEFINE d == c_worker.direct
             q == c_worker.queue
  <2>1. /\ Incr(d, NCalls) /\ Incr(q, NCalls) /\ q \in Seq(1 .. NCalls) /\ NCalls \in Nat /\ Range(d) \cap Range(q) = {}
        /\ \A x \in Range(d) : ~Batched(x)
    BY NoCalls DEF WorkerTypes, WorkerOK, List, Incr
  <2>2. /\ Incr(Tail(d), NCalls) /\ Head(d) \in 1 .. NCalls
        /\ Range(Tail(d)) \cup {Head(d)} = Range(d) /\ Head(d) \notin Range(Tail(d))
    BY <1>3, <2>1, IncrTail
  <2>3. Incr(<<Head(d)>>, NCalls) /\ Range(<<Head(d)>>) = {Head(d)} /\ Len(<<Head(d)>>) = 1
    BY <2>1, <2>2, IncrOne
  <2>4. SubSeq(q, 0 + 1, Len(q)) = q
    BY <2>1
  <2> HIDE DEF d, q
  <2>5. PyCut(<<Head(d)>>, "direct", Tail(d), q)
    BY <2>1, <2>2, <2>3, <2>4 DEF PyCut, d, q
  <2>6. PyFlush(<<Head(d)>>, "direct")
    BY <1>3 DEF PyNextDirect, d
  <2> QED BY <1>1, <2>5, <2>6, PyFlushRegroups
<1> QED BY <1>2, <1>3

LEMMA PyNextRunRegroups ==
    ASSUME WorkerTypes, c_lang = "py", PyNextRun PROVE Regroup
<1>1. UNCHANGED <<c_mixed, net_vars>> /\ Stays /\ c_worker.pc = "queue"
  BY DEF PyNextRun, Stays, net_vars
<1>2. CASE c_worker.queue = <<>>
  BY <1>1, <1>2, PyIdleRegroups DEF PyNextRun
<1>3. CASE c_worker.queue # <<>>
  <2> DEFINE d == c_worker.direct
             q == c_worker.queue
  <2>0. PICK n \in 1 .. FLUSH_CHUNK : n <= Len(q) /\ PyFlush(SubSeq(q, 1, n), "queue")
    BY <1>3 DEF PyNextRun
  <2>1. /\ Incr(d, NCalls) /\ Incr(q, NCalls) /\ q \in Seq(1 .. NCalls) /\ NCalls \in Nat /\ Range(d) \cap Range(q) = {}
        /\ (\A x \in Range(d) : ~Batched(x)) /\ n \in Nat
    BY NoCalls, NetAssumption DEF WorkerTypes, WorkerOK, List, Incr
  <2> HIDE DEF d, q
  <2>2. /\ Incr(SubSeq(q, 1, n), NCalls) /\ Incr(SubSeq(q, n + 1, Len(q)), NCalls)
        /\ Range(SubSeq(q, 1, n)) \cup Range(SubSeq(q, n + 1, Len(q))) = Range(q)
        /\ Range(SubSeq(q, 1, n)) \cap Range(SubSeq(q, n + 1, Len(q))) = {}
        /\ \A x \in Range(SubSeq(q, 1, n)), y \in Range(SubSeq(q, n + 1, Len(q))) : x < y
        /\ Len(SubSeq(q, 1, n)) = n
    BY <2>0, <2>1, IncrCut
  <2>3. PyCut(SubSeq(q, 1, n), "queue", d, SubSeq(q, n + 1, Len(q)))
    BY <2>1, <2>2 DEF PyCut, d, q
  <2> QED BY <1>1, <2>0, <2>3, PyFlushRegroups
<1> QED BY <1>2, <1>3

\* A run of the Python client that ends without its response.
LEMMA PyEnds ==
    ASSUME WorkerTypes, c_lang = "py", c_worker.pc = "read", NEW stash \in Seq(ResponsePieces), Spoils(stash),
           PyRunFails(stash),
           n_up' \in {n_up, [n_up EXCEPT ![c_worker.conn] = FALSE]},
           n_in' \in {n_in, [n_in EXCEPT ![c_worker.conn] = <<>>]} \cup {Taken(c_worker.conn, k) : k \in Arrived},
           UNCHANGED <<n_opened, n_out, c_mixed>>, Stays
    PROVE  Fail
<1> DEFINE S == Range(c_worker.run)
           pc == PyAfter(c_worker.back)
<1>0. IsWorker(c_worker) /\ Running(c_worker) /\ RunSet(c_worker) \subseteq Made /\ c_worker.back \in {"direct", "queue"}
  BY DEF WorkerTypes, WorkerOK, Running
<1>1. S \in SUBSET Calls
  BY <1>0, NoCalls DEF RunSet, Held, Made, Calls, WorkerTypes, NetTypes
<1>2. Refuses(S) /\ pc \in {"gone", "direct", "queue"}
  BY <1>0 DEF Refuses, PyRunFails, PyAfter
<1>3. c_worker' = [c_worker EXCEPT !.pc = pc, !.run = <<>>, !.cmds = c_worker.cmds, !.stash = stash, !.dead = c_worker.dead]
  BY <1>0 DEF IsWorker, PyRunFails
<1> HIDE DEF S, pc
<1>4. Ends(pc, <<>>, c_worker.cmds, stash, c_worker.dead, S)
  BY <1>2, <1>3 DEF Ends, S
<1>5. \E p \in {"idle", "segment", "direct", "queue", "gone"}, run \in {c_worker.run, <<>>},
        cmds \in {c_worker.cmds, <<>>}, st \in Seq(ResponsePieces), dead \in {c_worker.dead, TRUE},
        T \in SUBSET Calls : Ends(p, run, cmds, st, dead, T)
  BY <1>1, <1>2, <1>4, ZenonT(40)
<1> QED BY <1>5, Zenon DEF Fail

LEMMA PyFailedEnds ==
    ASSUME WorkerTypes, c_lang = "py", c_worker.pc = "read", PyFailed,
           UNCHANGED <<c_lang, c_op, c_issued, c_tasks, c_mixed, n_lost, n_out, server_vars>>
    PROVE  Retry \/ Fail
<1>0. IsWorker(c_worker) /\ Running(c_worker) /\ RunSet(c_worker) \subseteq Made /\ c_worker.stash \in Seq(ResponsePieces)
      /\ Spoils(c_worker.stash)
  BY DEF WorkerTypes, WorkerOK, Running, Spoils
<1>1. CASE /\ c_worker.try = 1 /\ PyRetrySafe
           /\ Reconnected(c_worker.conn)
           /\ c_worker' = [c_worker EXCEPT !.pc = "write", !.try = 2, !.conn = n_opened + 1]
           /\ UNCHANGED c_answer
  <2>1. ASSUME NEW x \in Range(c_worker.run) PROVE ~Unrepeated(x)
    <3>1. x \in DOMAIN c_op
      BY <1>0 DEF RunSet, Made
    <3>2. c_op[x] \in DOMAIN PyOps
      BY <3>1, LangsAssumption DEF WorkerTypes, NetTypes, Methods
    <3> QED BY <1>1, <3>2, PyMethods DEF PyRetrySafe, Unrepeated
  <2>2. /\ c_worker'.conn = n_opened + 1
        /\ c_worker' = [c_worker EXCEPT !.pc = "write", !.try = 2, !.stash = c_worker.stash, !.conn = n_opened + 1]
    BY <1>0, <1>1 DEF IsWorker
  <2>3. \E st \in Seq(ResponsePieces) :
          /\ Spoils(st) /\ (c_lang = "rust" => st = <<>>)
          /\ c_worker' = [c_worker EXCEPT !.pc = "write", !.try = 2, !.stash = st, !.conn = n_opened + 1]
    BY <1>0, <2>2
  <2>4. Retry
    BY <1>1, <2>1, <2>2, <2>3, Zenon DEF Retry, Opens, Stays
  <2> QED BY <2>4
<1>2. CASE /\ PyRunFails(c_worker.stash)
           /\ IF c_worker.try = 1 /\ PyRetrySafe
              THEN /\ n_up' = [n_up EXCEPT ![c_worker.conn] = FALSE]
                   /\ n_in' = [n_in EXCEPT ![c_worker.conn] = <<>>]
              ELSE UNCHANGED <<n_up, n_in>>
           /\ UNCHANGED n_opened
  <2>1. /\ n_up' \in {n_up, [n_up EXCEPT ![c_worker.conn] = FALSE]}
        /\ n_in' \in {n_in, [n_in EXCEPT ![c_worker.conn] = <<>>]} \cup {Taken(c_worker.conn, k) : k \in Arrived}
    BY <1>2
  <2>2. Stays
    BY DEF Stays
  <2> QED BY <1>0, <1>2, <2>1, <2>2, PyEnds
<1> QED BY <1>1, <1>2 DEF PyFailed

LEMMA PyReadEnds ==
    ASSUME WorkerTypes, c_lang = "py", PyRead PROVE Retry \/ Fail \/ Settle \/ More
<1>0. /\ IsWorker(c_worker) /\ c_worker.pc = "read" /\ c_worker.stash \in Seq(ResponsePieces) /\ c_worker.conn \in Conns
      /\ c_worker.back \in {"direct", "queue"}
  BY DEF WorkerTypes, WorkerOK, PyRead, Running
<1>1. PICK k \in Arrived :
             /\ n_in' = Taken(c_worker.conn, k)
             /\ \/ /\ Whole(Fed(k)) /\ SameShape(c_worker.run, Fed(k)[1].run)
                   /\ \/ /\ Len(Fed(k)[1].run) = Len(c_worker.run)
                         /\ c_answer' = Answered(c_worker.run, Fed(k)[1].run)
                         /\ c_worker' = [c_worker EXCEPT !.pc = PyAfter(c_worker.back),
                                                         !.run = <<>>, !.stash = AfterWhole(Fed(k))]
                      \/ Len(Fed(k)[1].run) # Len(c_worker.run) /\ PyRunFails(AfterWhole(Fed(k)))
                \/ /\ Garbled(Fed(k)) \/ (Whole(Fed(k)) /\ ~SameShape(c_worker.run, Fed(k)[1].run))
                   /\ c_worker' = [c_worker EXCEPT !.pc = "gone", !.stash = Fed(k)]
                   /\ UNCHANGED c_answer
                \/ /\ Len(Fed(k)) = 1 /\ ~Garbled(Fed(k))
                   /\ c_worker' = [c_worker EXCEPT !.stash = Fed(k)]
                   /\ UNCHANGED c_answer
  BY DEF PyRead, Arrived, Fed
<1>2. UNCHANGED <<c_lang, c_op, c_issued, c_tasks, c_mixed, n_opened, n_up, n_lost, n_out, server_vars>>
  BY DEF PyRead
<1>3. k \in 1 .. Len(n_in[c_worker.conn]) /\ n_in[c_worker.conn] \in Seq(ResponsePieces)
  BY <1>0 DEF Arrived, WorkerTypes, NetTypes
<1>4. Fed(k) \in Seq(ResponsePieces)
  BY <1>0, <1>3 DEF Fed
<1> HIDE DEF Fed
<1>40. AfterWhole(Fed(k)) \in Seq(ResponsePieces) /\ (Whole(Fed(k)) /\ Len(Fed(k)) = 2 => AfterWhole(Fed(k)) = <<>>)
  BY <1>4, AfterWholeFacts
<1>41. PyAfter(c_worker.back) \in {"gone", "direct", "queue"}
  BY <1>0 DEF PyAfter
<1>42. n_in' \in {n_in, [n_in EXCEPT ![c_worker.conn] = <<>>]} \cup {Taken(c_worker.conn, j) : j \in Arrived}
  BY <1>1
<1>5. CASE /\ Whole(Fed(k)) /\ Len(Fed(k)[1].run) = Len(c_worker.run)
           /\ c_answer' = Answered(c_worker.run, Fed(k)[1].run)
           /\ c_worker' = [c_worker EXCEPT !.pc = PyAfter(c_worker.back), !.run = <<>>,
                                            !.stash = AfterWhole(Fed(k))]
  <2>1. Len(c_worker.run) \in Nat
    BY DEF WorkerTypes, WorkerOK, List, Incr
  <2>2. Len(Fed(k)[1].run) >= Len(c_worker.run)
    BY <1>5, <2>1
  <2>3. Settle
    BY <1>0, <1>1, <1>2, <1>40, <1>41, <1>5, <2>2 DEF Settle, Stays
  <2> QED BY <2>3
<1>6. CASE Whole(Fed(k)) /\ Len(Fed(k)[1].run) # Len(c_worker.run) /\ PyRunFails(AfterWhole(Fed(k)))
  <2>1. Spoils(AfterWhole(Fed(k)))
    BY <1>40, <1>6 DEF Spoils
  <2>2. Stays /\ UNCHANGED <<n_opened, n_out, c_mixed>> /\ n_up' = n_up
    BY <1>2 DEF Stays
  <2> QED BY <1>0, <1>40, <1>42, <1>6, <2>1, <2>2, PyEnds
<1>7. CASE /\ Garbled(Fed(k)) \/ (Whole(Fed(k)) /\ ~SameShape(c_worker.run, Fed(k)[1].run))
           /\ c_worker' = [c_worker EXCEPT !.pc = "gone", !.stash = Fed(k)]
           /\ UNCHANGED c_answer
  <2>1. c_worker' = [c_worker EXCEPT !.pc = "gone", !.run = c_worker.run, !.cmds = c_worker.cmds, !.stash = Fed(k), !.dead = c_worker.dead]
    BY <1>0, <1>7 DEF IsWorker
  <2>2. Spoils(Fed(k)) /\ Refuses({})
    BY <1>4, <1>7, RefusesNone DEF Spoils, WorkerTypes
  <2>3. Ends("gone", c_worker.run, c_worker.cmds, Fed(k), c_worker.dead, {})
    BY <2>1, <2>2 DEF Ends
  <2>4. \E p \in {"idle", "segment", "direct", "queue", "gone"}, run \in {c_worker.run, <<>>},
          cmds \in {c_worker.cmds, <<>>}, st \in Seq(ResponsePieces), dead \in {c_worker.dead, TRUE},
          T \in SUBSET Calls : Ends(p, run, cmds, st, dead, T)
    BY <1>4, <2>3
  <2>6. Fail
    BY <1>0, <1>2, <1>42, <2>4 DEF Fail, Stays
  <2> QED BY <2>6
<1>8. CASE /\ Len(Fed(k)) = 1 /\ ~Garbled(Fed(k))
           /\ c_worker' = [c_worker EXCEPT !.stash = Fed(k)]
           /\ UNCHANGED c_answer
  <2>1. More
    BY <1>0, <1>1, <1>2, <1>8 DEF More, Stays
  <2> QED BY <2>1
<1> QED BY <1>1, <1>5, <1>6, <1>7, <1>8

(* Each step of the Python worker is a step of a worker.                   *)
LEMMA PyRefines ==
    ASSUME WorkerTypes, c_lang = "py", PyStep PROVE WorkerStep
<1>1. CASE PyWake \/ PyNextDirect \/ PyNextRun
  BY <1>1, PyWakeRegroups, PyNextDirectRegroups, PyNextRunRegroups DEF WorkerStep
<1>2. CASE PyWrite
  <2>1. Write
    BY <1>2 DEF PyWrite, Write, Stays
  <2> QED BY <2>1 DEF WorkerStep
<1>3. CASE PyRead
  BY <1>3, PyReadEnds DEF WorkerStep
<1>4. CASE PyReadFails
  BY <1>4, PyFailedEnds DEF PyReadFails, WorkerStep
<1> QED BY <1>1, <1>2, <1>3, <1>4 DEF PyStep

Places == <<n_out, s_busy, s_done>>

\* Where the places of x can be after a step.
LEMMA TakeMoves ==
    ASSUME NetTypes, NEW c \in Conns, SrvTake(c), NEW x \in Calls
    PROVE  /\ \A d \in Conns, j \in Nat : OutAt(x, d, j)' => IF d = c THEN j >= 1 /\ OutAt(x, c, j + 1) ELSE OutAt(x, d, j)
           /\ \A d \in Conns : BusyAt(x, d)' => IF d = c THEN OutAt(x, c, 1) ELSE BusyAt(x, d)
           /\ \A k \in Nat : DoneAt(x, k)' <=> DoneAt(x, k)
<1>1. /\ n_out[c] # <<>> /\ n_out[c] \in Seq(Runs)
      /\ s_busy' = [s_busy EXCEPT ![c] = [run |-> Head(n_out[c]), at |-> 1, stage |-> "op"]]
      /\ n_out' = [n_out EXCEPT ![c] = Tail(n_out[c])] /\ s_done' = s_done
      /\ n_out \in [Conns -> Seq(Runs)] /\ s_busy \in [Conns -> Tasks]
  BY DEF SrvTake, NetTypes
<1>2. /\ Len(n_out[c]) \in Nat /\ Len(n_out[c]) >= 1 /\ Head(n_out[c]) = n_out[c][1] /\ Head(n_out[c]) \in Runs
      /\ Len(Tail(n_out[c])) = Len(n_out[c]) - 1
      /\ \A j \in 1 .. Len(n_out[c]) - 1 : Tail(n_out[c])[j] = n_out[c][j + 1]
  BY <1>1
<1>3. ASSUME NEW d \in Conns, NEW j \in Nat, OutAt(x, d, j)'
      PROVE  IF d = c THEN j >= 1 /\ OutAt(x, c, j + 1) ELSE OutAt(x, d, j)
  <2>1. CASE d = c
    <3>1. n_out'[c] = Tail(n_out[c])
      BY <1>1
    <3>2. j \in 1 .. Len(n_out[c]) - 1 /\ x \in Range(n_out[c][j + 1])
      BY <1>2, <1>3, <2>1, <3>1 DEF OutAt
    <3>3. j + 1 \in 1 .. Len(n_out[c]) /\ j >= 1
      BY <1>2, <3>2
    <3> QED BY <2>1, <3>2, <3>3 DEF OutAt
  <2>2. CASE d # c
    BY <1>1, <1>3, <2>2 DEF OutAt
  <2> QED BY <2>1, <2>2
<1>4. ASSUME NEW d \in Conns, BusyAt(x, d)' PROVE IF d = c THEN OutAt(x, c, 1) ELSE BusyAt(x, d)
  <2>1. CASE d = c
    <3>1. s_busy'[c].run = n_out[c][1]
      BY <1>1, <1>2
    <3>2. \E i \in 1 .. Len(n_out[c][1]) : n_out[c][1][i] = x
      BY <1>4, <2>1, <3>1 DEF BusyAt
    <3>3. n_out[c][1] \in Seq(Calls)
      BY <1>2 DEF Runs
    <3>4. x \in Range(n_out[c][1])
      BY <3>2, <3>3, RangeIn
    <3> QED BY <1>2, <2>1, <3>4 DEF OutAt
  <2>2. CASE d # c
    BY <1>1, <1>4, <2>2 DEF BusyAt
  <2> QED BY <2>1, <2>2
<1> QED BY <1>1, <1>3, <1>4 DEF DoneAt

\* A step of the task of c past its current call, which may be executed.
LEMMA StepMoves ==
    ASSUME NetTypes, NEW c \in Conns, AtOp(c), NEW x \in Calls,
           n_out' = n_out, NEW stage, NEW at \in Nat, s_busy[c].at <= at,
           s_busy' = [s_busy EXCEPT ![c] = [run |-> s_busy[c].run, at |-> at, stage |-> stage]],
           \/ s_done' = s_done
           \/ /\ s_done' = Append(s_done, Current(c))
              /\ at = s_busy[c].at + 1 \/ ~Unrepeated(Current(c))
    PROVE  /\ \A d \in Conns, j \in Nat : OutAt(x, d, j)' => OutAt(x, d, j)
           /\ \A d \in Conns : BusyAt(x, d)' => BusyAt(x, d)
           /\ \A k \in Nat : DoneAt(x, k)' => DoneAt(x, k) \/ (k = Len(s_done) + 1 /\ x = Current(c) /\ BusyAt(x, c))
           /\ Unrepeated(x) => \A k \in Nat : DoneAt(x, k)' /\ ~DoneAt(x, k) => ~BusyAt(x, c)'
<1>1. /\ s_busy \in [Conns -> Tasks] /\ s_busy[c] \in Tasks /\ s_busy[c].at \in Nat /\ s_busy[c].run \in Runs
      /\ s_busy[c].run \in Seq(Calls) /\ s_done \in Seq(Calls)
      /\ \A i, j \in 1 .. Len(s_busy[c].run) : s_busy[c].run[i] = s_busy[c].run[j] => i = j
      /\ s_busy[c].at \in 1 .. Len(s_busy[c].run)
  BY NoCalls, IncrOnce DEF NetTypes, Tasks, Runs, List, AtOp
<1>2. s_busy'[c].run = s_busy[c].run /\ s_busy'[c].at = at
  BY <1>1
<1>3. \A d \in Conns : d # c => s_busy'[d] = s_busy[d]
  BY <1>1
<1>4. \A d \in Conns : BusyAt(x, d)' => BusyAt(x, d)
  BY <1>1, <1>2, <1>3 DEF BusyAt
<1>5. BusyAt(Current(c), c) /\ Current(c) \in Calls
  BY <1>1 DEF BusyAt, Current
<1>6. \A k \in Nat : DoneAt(x, k)' => DoneAt(x, k) \/ (k = Len(s_done) + 1 /\ x = Current(c) /\ s_done' = Append(s_done, Current(c)))
  BY <1>1, <1>5 DEF DoneAt
<1>7. x = Current(c) /\ at = s_busy[c].at + 1 => ~BusyAt(x, c)'
  BY <1>1, <1>2 DEF BusyAt, Current
<1>8. ASSUME Unrepeated(x), NEW k \in Nat, DoneAt(x, k)', ~DoneAt(x, k) PROVE ~BusyAt(x, c)'
  <2>1. x = Current(c) /\ s_done' = Append(s_done, Current(c))
    BY <1>6, <1>8
  <2>2. s_done' # s_done
    BY <1>1, <1>5, <2>1
  <2>3. at = s_busy[c].at + 1
    BY <1>8, <2>1, <2>2
  <2> QED BY <1>7, <2>1, <2>3
<1>9. \A d \in Conns, j \in Nat : OutAt(x, d, j)' => OutAt(x, d, j)
  BY DEF OutAt
<1> QED BY <1>4, <1>5, <1>6, <1>8, <1>9

-----------------------------------------------------------------------------
(* Operations that may not be repeated.                                    *)

\* The calls that the client has yet to write for the first time.
Unsent ==
    IF c_lang = "ts"
    THEN Range(c_worker.queue) \cup {c_tasks[i].next : i \in DOMAIN c_tasks}
    ELSE Held(c_worker) \cup (IF c_worker.pc = "write" /\ c_worker.try = 1 THEN Range(c_worker.run) ELSE {})

(* A call that may not be repeated is in one place at most, and nowhere    *)
(* while the client has yet to write it.                                   *)
Once(x) == Unrepeated(x) => OnePlace(x) /\ (x \in Unsent \/ x > c_issued => ~Sent(x))

\* What the task of c is in the middle of.
InKey(c, x) == s_busy[c].stage \in {"apply", "record"} /\ Current(c) = x

TasksOK == \A c \in Conns : s_busy[c].stage \in {"apply", "record"} => AtOp(c) /\ Keyed(Current(c))

\* A step within a frame: how it leaves the task of c.
Within(c, at, stage) == s_busy' = [s_busy EXCEPT ![c] = [run |-> s_busy[c].run, at |-> at, stage |-> stage]]

LEMMA WithinFrame ==
    ASSUME NetTypes, NEW c \in Conns
    PROVE  /\ idem_lookup(c) => AtOp(c) /\ (Within(c, s_busy[c].at + 1, "op") \/ Within(c, s_busy[c].at, "apply"))
           /\ SrvApply(c) => AtOp(c) /\ IF Keyed(Current(c)) THEN Within(c, s_busy[c].at, "record")
                                                            ELSE Within(c, s_busy[c].at + 1, "op")
           /\ idem_record(c) => Within(c, s_busy[c].at + 1, "op")
<1>1. s_busy[c] = [run |-> s_busy[c].run, at |-> s_busy[c].at, stage |-> s_busy[c].stage] /\ s_busy \in [Conns -> Tasks]
  BY DEF NetTypes, Tasks
<1> QED BY <1>1 DEF idem_lookup, SrvApply, idem_record, Within

(* The server moves a call from place to place, and copies none.           *)
LEMMA OnceServer ==
    ASSUME NetTypes, TasksOK, NEW c \in Conns, SrvStep(c), NEW x \in Calls, Once(x)
    PROVE  Once(x)'
<1>0. /\ UNCHANGED <<c_lang, client_vars>>
      /\ s_busy \in [Conns -> Tasks] /\ s_busy[c] \in Tasks /\ s_busy[c].at \in Nat /\ s_done \in Seq(Calls)
      /\ s_busy[c] = [run |-> s_busy[c].run, at |-> s_busy[c].at, stage |-> s_busy[c].stage]
  BY DEF SrvStep, SrvTake, idem_lookup, SrvApply, idem_record, SrvReply, NetTypes, Tasks
<1>1. (Unrepeated(x)' <=> Unrepeated(x)) /\ Unsent' = Unsent /\ c_issued' = c_issued
  BY <1>0 DEF client_vars, Unrepeated, Unsent, Held
<1> SUFFICES ASSUME Unrepeated(x) PROVE OnePlace(x)' /\ (~Sent(x) => ~Sent(x)')
  BY <1>1 DEF Once
<1>2. OnePlace(x)
  BY DEF Once
<1>3. CASE SrvTake(c)
  <2>1. /\ \A d \in Conns, j \in Nat : OutAt(x, d, j)' => IF d = c THEN j >= 1 /\ OutAt(x, c, j + 1) ELSE OutAt(x, d, j)
        /\ \A d \in Conns : BusyAt(x, d)' => IF d = c THEN OutAt(x, c, 1) ELSE BusyAt(x, d)
        /\ \A k \in Nat : DoneAt(x, k)' <=> DoneAt(x, k)
    BY <1>3, TakeMoves
  <2>2. \A j \in Nat : j + 1 \in Nat /\ (j >= 1 => j + 1 # 1) /\ \A k \in Nat : j + 1 = k + 1 => j = k
    OBVIOUS
  <2>3. 1 \in Nat
    OBVIOUS
  <2>4. ~Sent(x) => ~Sent(x)'
    BY <2>1, <2>2, <2>3 DEF Sent
  <2>5. OnePlace(x)'
    BY <1>2, <2>1, <2>2, <2>3 DEF OnePlace
  <2> QED BY <2>4, <2>5
<1>4. CASE idem_lookup(c) \/ SrvApply(c) \/ idem_record(c)
  <2>0. AtOp(c) /\ n_out' = n_out
    BY <1>4 DEF idem_lookup, SrvApply, idem_record, TasksOK, net_vars
  <2>1. PICK at \in {s_busy[c].at, s_busy[c].at + 1}, stage \in {"op", "apply", "record"} :
           /\ s_busy' = [s_busy EXCEPT ![c] = [run |-> s_busy[c].run, at |-> at, stage |-> stage]]
           /\ \/ s_done' = s_done
              \/ /\ s_done' = Append(s_done, Current(c))
                 /\ at = s_busy[c].at + 1 \/ ~Unrepeated(Current(c))
    <3>1. CASE idem_lookup(c)
      BY <3>1, WithinFrame DEF Within, idem_lookup
    <3>2. CASE SrvApply(c)
      BY <3>2, WithinFrame DEF Within, SrvApply, Keyed, Unrepeated
    <3>3. CASE idem_record(c)
      BY <3>3, WithinFrame DEF Within, idem_record
    <3> QED BY <1>4, <3>1, <3>2, <3>3
  <2>2. at \in Nat /\ s_busy[c].at <= at
    BY <1>0, <2>1
  <2>3. /\ \A d \in Conns, j \in Nat : OutAt(x, d, j)' => OutAt(x, d, j)
        /\ \A d \in Conns : BusyAt(x, d)' => BusyAt(x, d)
        /\ \A k \in Nat : DoneAt(x, k)' => DoneAt(x, k) \/ (k = Len(s_done) + 1 /\ x = Current(c) /\ BusyAt(x, c))
        /\ \A k \in Nat : DoneAt(x, k)' /\ ~DoneAt(x, k) => ~BusyAt(x, c)'
    BY <2>0, <2>1, <2>2, StepMoves
  <2>4. Len(s_done) + 1 \in Nat
    BY <1>0
  <2>5. ~Sent(x) => ~Sent(x)'
    BY <2>3 DEF Sent
  <2>6. OnePlace(x)'
    BY <1>2, <2>3, <2>4 DEF OnePlace
  <2> QED BY <2>5, <2>6
<1>5. CASE SrvReply(c)
  <2>1. \A d \in Conns : BusyAt(x, d)' => BusyAt(x, d)
    BY <1>0, <1>5 DEF SrvReply, BusyAt, Idle
  <2>2. /\ \A d \in Conns, j \in Nat : OutAt(x, d, j)' <=> OutAt(x, d, j)
        /\ \A k \in Nat : DoneAt(x, k)' <=> DoneAt(x, k)
    BY <1>5 DEF SrvReply, OutAt, DoneAt
  <2> QED BY <1>2, <2>1, <2>2 DEF OnePlace, Sent
<1> QED BY <1>3, <1>4, <1>5 DEF SrvStep

LEMMA TypesServer ==
    ASSUME NetTypes, TasksOK, NEW c \in Conns, SrvStep(c)
    PROVE  NetTypes' /\ TasksOK'
<1>0. /\ UNCHANGED <<c_lang, client_vars, n_opened, n_lost, n_up>>
      /\ s_busy \in [Conns -> Tasks] /\ s_busy[c] \in Tasks /\ s_busy[c].at \in Nat /\ s_done \in Seq(Calls)
      /\ s_busy[c].run \in Runs /\ s_idem \subseteq Calls /\ s_excused \subseteq Calls
      /\ n_out \in [Conns -> Seq(Runs)] /\ n_in \in [Conns -> Seq(ResponsePieces)]
      /\ s_busy[c].run \in Seq(Calls)
  BY DEF SrvStep, SrvTake, idem_lookup, SrvApply, idem_record, SrvReply, NetTypes, Tasks, net_vars, Runs
<1>1. /\ c_lang' \in Langs /\ c_op' \in Programs(c_lang') /\ c_issued' \in 0 .. NCalls
      /\ c_answer' = [x \in Calls |-> c_answer'[x]] /\ n_opened' \in Conns /\ n_up' \in [Conns -> BOOLEAN]
  BY <1>0 DEF NetTypes, client_vars
<1>2. AtOp(c) => Current(c) \in Calls
  BY <1>0 DEF AtOp, Current
<1>3. CASE SrvTake(c)
  <2>1. /\ n_out[c] \in Seq(Runs) /\ n_out[c] # <<>> /\ Head(n_out[c]) \in Runs /\ Tail(n_out[c]) \in Seq(Runs)
    BY <1>0, <1>3 DEF SrvTake
  <2>2. [run |-> Head(n_out[c]), at |-> 1, stage |-> "op"] \in Tasks
    BY <2>1 DEF Tasks
  <2>3. s_busy' \in [Conns -> Tasks] /\ n_out' \in [Conns -> Seq(Runs)]
    BY <1>0, <1>3, <2>1, <2>2 DEF SrvTake
  <2>4. NetTypes'
    BY <1>0, <1>1, <1>3, <2>3 DEF NetTypes, SrvTake
  <2>5. TasksOK'
    BY <1>0, <1>3 DEF TasksOK, SrvTake, AtOp, Keyed, Current, client_vars
  <2> QED BY <2>4, <2>5
<1>4. CASE idem_lookup(c) \/ SrvApply(c) \/ idem_record(c)
  <2>0. AtOp(c) /\ n_out' = n_out /\ n_in' = n_in /\ c_op' = c_op
    BY <1>4 DEF idem_lookup, SrvApply, idem_record, TasksOK, net_vars, client_vars
  <2>1. PICK at \in {s_busy[c].at, s_busy[c].at + 1}, stage \in {"op", "apply", "record"} :
           /\ s_busy' = [s_busy EXCEPT ![c] = [run |-> s_busy[c].run, at |-> at, stage |-> stage]]
           /\ stage \in {"apply", "record"} => at = s_busy[c].at /\ Keyed(Current(c))
    <3>1. CASE idem_lookup(c)
      BY <3>1, WithinFrame DEF Within, idem_lookup
    <3>2. CASE SrvApply(c)
      BY <3>2, WithinFrame DEF Within, SrvApply
    <3>3. CASE idem_record(c)
      BY <3>3, WithinFrame DEF Within, idem_record
    <3> QED BY <1>4, <3>1, <3>2, <3>3
  <2>2. at \in Nat
    BY <1>0, <2>1
  <2>3. s_busy' \in [Conns -> Tasks]
    BY <1>0, <2>1, <2>2 DEF Tasks
  <2>4. s_done' \in Seq(Calls) /\ s_idem' \subseteq Calls /\ s_excused' \subseteq Calls
    <3>1. CASE idem_lookup(c)
      BY <1>0, <1>2, <2>0, <3>1 DEF idem_lookup
    <3>2. CASE SrvApply(c)
      BY <1>0, <1>2, <2>0, <3>2 DEF SrvApply
    <3>3. CASE idem_record(c)
      BY <1>0, <1>2, <2>0, <3>3 DEF idem_record
    <3> QED BY <1>4, <3>1, <3>2, <3>3
  <2>5. NetTypes'
    BY <1>0, <1>1, <2>0, <2>3, <2>4 DEF NetTypes
  <2>6. TasksOK'
    <3> SUFFICES ASSUME NEW d \in Conns, s_busy'[d].stage \in {"apply", "record"}
                 PROVE  s_busy'[d].at \in DOMAIN s_busy'[d].run /\ c_op'[s_busy'[d].run[s_busy'[d].at]] = "insert"
      BY DEF TasksOK, AtOp, Keyed, Current
    <3>1. CASE d = c
      <4>1. s_busy'[c].stage = stage /\ s_busy'[c].at = at /\ s_busy'[c].run = s_busy[c].run
        BY <1>0, <2>1
      <4> QED BY <2>0, <2>1, <3>1, <4>1 DEF AtOp, Keyed, Current
    <3>2. CASE d # c
      BY <1>0, <2>0, <2>1, <3>2 DEF TasksOK, AtOp, Keyed, Current
    <3> QED BY <3>1, <3>2
  <2> QED BY <2>5, <2>6
<1>5. CASE SrvReply(c)
  <2>0. s_busy' = [s_busy EXCEPT ![c] = Idle] /\ n_out' = n_out /\ UNCHANGED <<s_done, s_idem, s_excused>> /\ c_op' = c_op
    BY <1>5 DEF SrvReply, client_vars
  <2>1. Idle \in Tasks
    BY NoCalls DEF Idle, Tasks, Runs
  <2>2. Pieces(s_busy[c].run) \in Seq(ResponsePieces)
    BY <1>0 DEF Pieces, ResponsePieces
  <2>3. n_in[c] \o Pieces(s_busy[c].run) \in Seq(ResponsePieces)
    BY <1>0, <2>2
  <2>4. s_busy' \in [Conns -> Tasks] /\ n_in' \in [Conns -> Seq(ResponsePieces)]
    BY <1>0, <1>5, <2>0, <2>1, <2>3 DEF SrvReply
  <2>5. NetTypes'
    BY <1>0, <1>1, <2>0, <2>4 DEF NetTypes
  <2>6. TasksOK'
    BY <1>0, <2>0 DEF TasksOK, AtOp, Keyed, Current, Idle
  <2> QED BY <2>5, <2>6
<1> QED BY <1>3, <1>4, <1>5 DEF SrvStep

(* A lost connection takes calls away, and adds none.                      *)
LEMMA LostNet ==
    ASSUME NetTypes, TasksOK, NEW c \in Conns, ConnLost(c)
    PROVE  /\ NetTypes' /\ TasksOK'
           /\ \A x \in Calls : Once(x) => Once(x)'
<1>1. /\ UNCHANGED <<c_lang, c_op, c_issued, c_answer, c_worker, c_tasks, n_opened, s_busy, s_done, s_idem, s_excused>>
      /\ n_out' = [n_out EXCEPT ![c] = <<>>] /\ n_up' = [n_up EXCEPT ![c] = FALSE]
      /\ \E k \in 0 .. Len(n_in[c]) : n_in' = [n_in EXCEPT ![c] = SubSeq(n_in[c], 1, k)]
      /\ n_out \in [Conns -> Seq(Runs)] /\ n_in \in [Conns -> Seq(ResponsePieces)]
  BY DEF ConnLost, client_vars, server_vars, NetTypes
<1>2. NetTypes'
  <2>1. n_out' \in [Conns -> Seq(Runs)]
    BY <1>1
  <2>2. n_in' \in [Conns -> Seq(ResponsePieces)]
    BY <1>1
  <2>3. n_up' \in [Conns -> BOOLEAN]
    BY <1>1 DEF NetTypes
  <2> QED BY <1>1, <2>1, <2>2, <2>3 DEF NetTypes
<1>3. TasksOK'
  BY <1>1 DEF TasksOK, AtOp, Keyed, Current
<1>4. ASSUME NEW x \in Calls, Once(x) PROVE Once(x)'
  <2>1. \A d \in Conns, j \in Nat : OutAt(x, d, j)' => OutAt(x, d, j)
    BY <1>1 DEF OutAt
  <2>2. /\ \A d \in Conns : BusyAt(x, d)' <=> BusyAt(x, d)
        /\ \A k \in Nat : DoneAt(x, k)' <=> DoneAt(x, k)
    BY <1>1 DEF BusyAt, DoneAt
  <2>3. OnePlace(x) => OnePlace(x)'
    BY <2>1, <2>2 DEF OnePlace
  <2>4. ~Sent(x) => ~Sent(x)'
    BY <2>1, <2>2 DEF Sent
  <2>5. (Unrepeated(x)' <=> Unrepeated(x)) /\ Unsent' = Unsent /\ c_issued' = c_issued
    BY <1>1 DEF Unrepeated, Unsent, Held
  <2> QED BY <1>4, <2>3, <2>4, <2>5 DEF Once
<1> QED BY <1>2, <1>3, <1>4

(* A frame that is written adds its calls to the end of one connection.    *)
LEMMA AppendMoves ==
    ASSUME NetTypes, NEW x \in Calls, NEW c \in Conns, NEW run \in Runs,
           n_out' = [n_out EXCEPT ![c] = Append(n_out[c], run)]
    PROVE  \A d \in Conns, j \in Nat :
             OutAt(x, d, j)' <=> OutAt(x, d, j) \/ (d = c /\ j = Len(n_out[c]) + 1 /\ x \in Range(run))
<1>0. n_out \in [Conns -> Seq(Runs)] /\ n_out[c] \in Seq(Runs) /\ Len(n_out[c]) \in Nat
  BY DEF NetTypes
<1> TAKE d \in Conns, j \in Nat
<1>1. CASE d # c
  BY <1>0, <1>1 DEF OutAt
<1>2. CASE d = c
  <2>1. n_out'[c] = Append(n_out[c], run) /\ Len(Append(n_out[c], run)) = Len(n_out[c]) + 1
    BY <1>0
  <2>2. /\ \A i \in 1 .. Len(n_out[c]) : Append(n_out[c], run)[i] = n_out[c][i]
        /\ Append(n_out[c], run)[Len(n_out[c]) + 1] = run
    BY <1>0
  <2>3. j \in 1 .. Len(n_out[c]) + 1 <=> j \in 1 .. Len(n_out[c]) \/ j = Len(n_out[c]) + 1
    BY <1>0
  <2>4. Len(n_out[c]) + 1 \notin 1 .. Len(n_out[c])
    BY <1>0
  <2> QED BY <1>2, <2>1, <2>2, <2>3, <2>4 DEF OutAt
<1> QED BY <1>1, <1>2

\* What a step of the client may do to the frames and to what is unsent.
LEMMA OnceClient ==
    ASSUME NetTypes, NEW x \in Calls, Once(x), NEW c \in Conns, NEW run \in Runs,
           n_out' = n_out \/ n_out' = [n_out EXCEPT ![c] = Append(n_out[c], run)],
           UNCHANGED <<c_op, s_busy, s_done>>, c_issued' \in Nat, c_issued <= c_issued',
           x \in Unsent' => x \in Unsent \/ (c_issued < x /\ x <= c_issued'),
           n_out' = n_out \/ ~(x \in Range(run)) \/ (~Unrepeated(x)) \/ (x \in Unsent /\ x \notin Unsent' /\ x <= c_issued)
    PROVE  Once(x)'
<1>0. n_out \in [Conns -> Seq(Runs)] /\ n_out[c] \in Seq(Runs) /\ Len(n_out[c]) \in Nat /\ c_issued \in Nat
  BY NoCalls DEF NetTypes
<1>1. (Unrepeated(x)' <=> Unrepeated(x)) /\ (\A d \in Conns : BusyAt(x, d)' <=> BusyAt(x, d)) /\ (\A k \in Nat : DoneAt(x, k)' <=> DoneAt(x, k))
  BY DEF Unrepeated, BusyAt, DoneAt
<1> SUFFICES ASSUME Unrepeated(x) PROVE OnePlace(x)' /\ (x \in Unsent' \/ x > c_issued' => ~Sent(x)')
  BY <1>1 DEF Once
<1>2. OnePlace(x) /\ (x \in Unsent \/ x > c_issued => ~Sent(x)) /\ x \in Nat
  BY NoCalls DEF Once, Calls
<1>3. CASE n_out' = n_out \/ x \notin Range(run)
  <2>1. \A d \in Conns, j \in Nat : OutAt(x, d, j)' => OutAt(x, d, j)
    <3>1. CASE n_out' = n_out
      BY <3>1 DEF OutAt
    <3>2. CASE n_out' # n_out
      BY <1>3, <3>2, AppendMoves
    <3> QED BY <3>1, <3>2
  <2>2. OnePlace(x)'
    BY <1>1, <1>2, <2>1 DEF OnePlace
  <2>3. ~Sent(x) => ~Sent(x)'
    BY <1>1, <2>1 DEF Sent
  <2>4. x > c_issued' => x > c_issued
    BY <1>0, <1>2
  <2> QED BY <1>0, <1>2, <2>2, <2>3, <2>4
<1>4. CASE n_out' # n_out /\ x \in Range(run)
  <2>1. x \in Unsent /\ x \notin Unsent' /\ ~(x > c_issued') /\ ~Sent(x)
    BY <1>0, <1>2, <1>4
  <2>2. \A d \in Conns, j \in Nat : OutAt(x, d, j)' => OutAt(x, d, j) \/ (d = c /\ j = Len(n_out[c]) + 1)
    BY <1>4, AppendMoves
  <2>3. \A d \in Conns, j \in Nat : ~OutAt(x, d, j) /\ ~BusyAt(x, d) /\ ~DoneAt(x, j)
    BY <2>1 DEF Sent
  <2>4. OnePlace(x)'
    BY <1>1, <2>2, <2>3 DEF OnePlace
  <2> QED BY <2>1, <2>4
<1> QED BY <1>3, <1>4

(* Keyed inserts, outside the cache's two known gaps.                      *)

KeyOnce(x) ==
    Keyed(x) /\ x \notin s_excused =>
      /\ \A c, d \in Conns : InKey(c, x) /\ InKey(d, x) => c = d
      /\ \A c \in Conns, k \in Nat : ~(InKey(c, x) /\ s_busy[c].stage = "apply" /\ DoneAt(x, k))
      /\ \A k \in Nat : DoneAt(x, k) => x \in s_idem \/ \E c \in Conns : InKey(c, x) /\ s_busy[c].stage = "record"
      /\ \A j, k \in Nat : DoneAt(x, j) /\ DoneAt(x, k) => j = k

\* Tasks of other connections are not disturbed.
LEMMA OthersKeys ==
    ASSUME NetTypes, NEW c \in Conns, NEW d \in Conns, d # c, NEW t, s_busy' = [s_busy EXCEPT ![c] = t], NEW x
    PROVE  (InKey(d, x)' <=> InKey(d, x)) /\ s_busy'[d] = s_busy[d]
  BY DEF NetTypes, InKey, Current

(* The lookup, the execution and the record of a key keep them so.         *)
LEMMA KeyServer ==
    ASSUME NetTypes, TasksOK, NEW c \in Conns, SrvStep(c), NEW x \in Calls, KeyOnce(x)
    PROVE  KeyOnce(x)'
<1>0. /\ c_op' = c_op /\ (Keyed(x)' <=> Keyed(x)) /\ s_excused \subseteq s_excused'
      /\ s_busy \in [Conns -> Tasks] /\ s_busy[c] \in Tasks /\ s_done \in Seq(Calls) /\ s_busy[c].at \in Nat
      /\ s_busy[c].run \in Seq(Calls)
  BY DEF SrvStep, SrvTake, idem_lookup, SrvApply, idem_record, SrvReply, client_vars, Keyed, NetTypes, Tasks, Runs
<1> SUFFICES ASSUME Keyed(x), x \notin s_excused'
             PROVE  /\ \A a, d \in Conns : InKey(a, x)' /\ InKey(d, x)' => a = d
                    /\ \A d \in Conns, k \in Nat : ~(InKey(d, x)' /\ s_busy'[d].stage = "apply" /\ DoneAt(x, k)')
                    /\ \A k \in Nat : DoneAt(x, k)' => x \in s_idem' \/ \E d \in Conns : InKey(d, x)' /\ s_busy'[d].stage = "record"
                    /\ \A j, k \in Nat : DoneAt(x, j)' /\ DoneAt(x, k)' => j = k
  BY <1>0 DEF KeyOnce
<1>1. /\ \A a, d \in Conns : InKey(a, x) /\ InKey(d, x) => a = d
      /\ \A d \in Conns, k \in Nat : ~(InKey(d, x) /\ s_busy[d].stage = "apply" /\ DoneAt(x, k))
      /\ \A k \in Nat : DoneAt(x, k) => x \in s_idem \/ \E d \in Conns : InKey(d, x) /\ s_busy[d].stage = "record"
      /\ \A j, k \in Nat : DoneAt(x, j) /\ DoneAt(x, k) => j = k
  BY <1>0 DEF KeyOnce
<1>2. \A t : s_busy' = [s_busy EXCEPT ![c] = t] => \A d \in Conns : d # c => (InKey(d, x)' <=> InKey(d, x)) /\ s_busy'[d] = s_busy[d]
  BY OthersKeys
<1>3. CASE SrvTake(c)
  <2>0. UNCHANGED <<s_done, s_idem>> /\ s_busy[c] = Idle
    BY <1>3 DEF SrvTake
  <2>1. s_busy' = [s_busy EXCEPT ![c] = [run |-> Head(n_out[c]), at |-> 1, stage |-> "op"]]
    BY <1>3 DEF SrvTake
  <2>2. ~InKey(c, x) /\ ~InKey(c, x)'
    BY <1>0, <2>0, <2>1 DEF InKey, Idle
  <2>3. \A k \in Nat : DoneAt(x, k)' <=> DoneAt(x, k)
    BY <2>0 DEF DoneAt
  <2>4. \A d \in Conns : (InKey(d, x)' <=> InKey(d, x)) /\ (d # c => s_busy'[d] = s_busy[d])
    BY <1>2, <2>1, <2>2
  <2> QED BY <1>1, <2>0, <2>2, <2>3, <2>4
<1>4. CASE idem_lookup(c)
  <2>0. UNCHANGED <<s_done, s_idem>> /\ s_busy[c].stage = "op" /\ AtOp(c)
    BY <1>4 DEF idem_lookup
  <2>1. ~InKey(c, x)
    BY <2>0 DEF InKey
  <2>2. \A k \in Nat : DoneAt(x, k)' <=> DoneAt(x, k)
    BY <2>0 DEF DoneAt
  <2>3. CASE Current(c) # x \/ x \in s_idem
    <3>1. PICK at \in Nat, stage \in {"op", "apply"} : Within(c, at, stage) /\ (stage = "apply" => at = s_busy[c].at /\ Current(c) \notin s_idem)
      <4>1. s_busy[c] = [run |-> s_busy[c].run, at |-> s_busy[c].at, stage |-> s_busy[c].stage]
        BY <1>0 DEF Tasks
      <4>2. CASE Current(c) \in s_idem
        <5>1. Within(c, s_busy[c].at + 1, "op")
          BY <1>0, <1>4, <2>0, <4>1, <4>2 DEF idem_lookup, Within
        <5> QED BY <1>0, <5>1
      <4>3. CASE Current(c) \notin s_idem
        <5>1. Within(c, s_busy[c].at, "apply")
          BY <1>0, <1>4, <2>0, <4>1, <4>3 DEF idem_lookup, Within
        <5> QED BY <1>0, <4>3, <5>1
      <4> QED BY <4>2, <4>3
    <3>2. ~InKey(c, x)'
      <4>1. s_busy'[c].stage = stage /\ s_busy'[c].at = at /\ s_busy'[c].run = s_busy[c].run
        BY <1>0, <3>1 DEF Within
      <4> QED BY <2>3, <3>1, <4>1 DEF InKey, Current
    <3>3. \A d \in Conns : (InKey(d, x)' <=> InKey(d, x)) /\ (d # c => s_busy'[d] = s_busy[d])
      BY <1>2, <2>1, <3>1, <3>2 DEF Within
    <3> QED BY <1>1, <2>0, <2>1, <2>2, <3>3
  <2>4. CASE Current(c) = x /\ x \notin s_idem
    <3>1. /\ s_busy' = [s_busy EXCEPT ![c].stage = "apply"]
          /\ s_excused' = s_excused \cup (IF InFlight(c, x) THEN {x} ELSE {})
      BY <1>4, <2>4 DEF idem_lookup
    <3>2. \A d \in Conns : d # c => ~InKey(d, x)
      BY <3>1 DEF InFlight, InKey
    <3>3. \A k \in Nat : ~DoneAt(x, k)
      BY <1>1, <2>1, <2>4, <3>2
    <3>4. \A d \in Conns : d # c => ~InKey(d, x)'
      BY <1>0, <3>1, <3>2 DEF InKey, Current
    <3> QED BY <2>2, <3>3, <3>4
  <2> QED BY <2>3, <2>4
<1>5. CASE SrvApply(c)
  <2>0. s_idem' = s_idem /\ s_done' = Append(s_done, Current(c)) /\ AtOp(c) /\ Current(c) \in Calls
    BY <1>0, <1>5 DEF SrvApply, AtOp, Current
  <2>1. CASE Current(c) = x
    <3>1. s_busy[c].stage = "apply" /\ s_busy' = [s_busy EXCEPT ![c].stage = "record"] /\ InKey(c, x)
      BY <1>5, <2>1 DEF SrvApply, InKey
    <3>2. \A d \in Conns : d # c => ~InKey(d, x)
      BY <1>1, <3>1
    <3>3. \A k \in Nat : ~DoneAt(x, k)
      BY <1>1, <3>1
    <3>4. \A d \in Conns : d # c => ~InKey(d, x)'
      BY <1>0, <3>1, <3>2 DEF InKey, Current
    <3>5. InKey(c, x)' /\ s_busy'[c].stage = "record"
      BY <1>0, <2>1, <3>1 DEF InKey, Current
    <3>6. \A k \in Nat : DoneAt(x, k)' => k = Len(s_done) + 1
      BY <1>0, <2>0, <3>3 DEF DoneAt
    <3> QED BY <3>4, <3>5, <3>6
  <2>2. CASE Current(c) # x
    <3>1. \A k \in Nat : DoneAt(x, k)' <=> DoneAt(x, k)
      BY <1>0, <2>0, <2>2 DEF DoneAt
    <3>2. PICK at \in Nat, stage \in {"op", "record"} : Within(c, at, stage) /\ (stage = "record" => at = s_busy[c].at)
      BY <1>0, <1>5, WithinFrame
    <3>3. ~InKey(c, x) /\ ~InKey(c, x)'
      <4>1. s_busy'[c].stage = stage /\ s_busy'[c].at = at /\ s_busy'[c].run = s_busy[c].run
        BY <1>0, <3>2 DEF Within
      <4> QED BY <2>2, <3>2, <4>1 DEF InKey, Current
    <3>4. \A d \in Conns : (InKey(d, x)' <=> InKey(d, x)) /\ (d # c => s_busy'[d] = s_busy[d])
      BY <1>2, <3>2, <3>3 DEF Within
    <3> QED BY <1>1, <2>0, <3>1, <3>3, <3>4
  <2> QED BY <2>1, <2>2
<1>6. CASE idem_record(c)
  <2>0. s_done' = s_done /\ s_busy[c].stage = "record"
    BY <1>6 DEF idem_record
  <2>1. \A k \in Nat : DoneAt(x, k)' <=> DoneAt(x, k)
    BY <2>0 DEF DoneAt
  <2>2. Within(c, s_busy[c].at + 1, "op")
    BY <1>6, WithinFrame
  <2>3. ~InKey(c, x)'
    BY <1>0, <2>2 DEF InKey, Within
  <2>4. \A d \in Conns : d # c => (InKey(d, x)' <=> InKey(d, x)) /\ s_busy'[d] = s_busy[d]
    BY <1>2, <2>2 DEF Within
  <2>5. (x \in s_idem => x \in s_idem') /\ (Current(c) = x => x \in s_idem')
    BY <1>6 DEF idem_record
  <2>6. InKey(c, x) => Current(c) = x
    BY DEF InKey
  <2> QED BY <1>1, <2>1, <2>3, <2>4, <2>5, <2>6
<1>7. CASE SrvReply(c)
  <2>0. UNCHANGED <<s_done, s_idem>> /\ s_busy' = [s_busy EXCEPT ![c] = Idle] /\ s_busy[c].at > Len(s_busy[c].run)
    BY <1>7 DEF SrvReply
  <2>1. ~InKey(c, x)
    BY <1>0, <2>0 DEF InKey, TasksOK, AtOp
  <2>2. ~InKey(c, x)'
    BY <1>0, <2>0 DEF InKey, Idle
  <2>3. \A k \in Nat : DoneAt(x, k)' <=> DoneAt(x, k)
    BY <2>0 DEF DoneAt
  <2>4. \A d \in Conns : (InKey(d, x)' <=> InKey(d, x)) /\ (d # c => s_busy'[d] = s_busy[d])
    BY <1>2, <2>0, <2>1, <2>2
  <2> QED BY <1>1, <2>0, <2>2, <2>3, <2>4
<1> QED BY <1>3, <1>4, <1>5, <1>6, <1>7 DEF SrvStep

LEMMA ReconnectTypes ==
    ASSUME NetTypes, NEW old \in Conns \cup {0}, Reconnected(old)
    PROVE  /\ n_opened' = n_opened + 1 /\ n_opened + 1 \in Conns
           /\ n_up' \in [Conns -> BOOLEAN] /\ n_in' \in [Conns -> Seq(ResponsePieces)]
<1>1. MaxOpened(c_lang) \in 1 .. MaxConns /\ MaxConns \in Nat /\ n_opened \in 1 .. MaxConns /\ n_opened < MaxOpened(c_lang)
  BY NetAssumption, LangsAssumption DEF NetTypes, Conns, Reconnected
<1>2. n_opened + 1 \in Conns
  BY <1>1 DEF Conns
<1>3. n_up' \in [Conns -> BOOLEAN]
  BY DEF NetTypes, Reconnected
<1>4. n_in' \in [Conns -> Seq(ResponsePieces)]
  BY DEF NetTypes, Reconnected
<1> QED BY <1>2, <1>3, <1>4 DEF Reconnected

LEMMA RefusesTypes ==
    ASSUME NEW S, Refuses(S) PROVE c_answer' = [x \in Calls |-> c_answer'[x]]
  BY DEF Refuses, Refused

LEMMA AnsweredTypes ==
    ASSUME NEW run, NEW got, c_answer' = Answered(run, got) PROVE c_answer' = [x \in Calls |-> c_answer'[x]]
  BY DEF Answered

\* Types are kept when the parts that a step changes have their types.
LEMMA NetTypesKept ==
    ASSUME NetTypes, Stays, c_answer' = [x \in Calls |-> c_answer'[x]], n_opened' \in Conns, n_up' \in [Conns -> BOOLEAN],
           n_in' \in [Conns -> Seq(ResponsePieces)], n_out' \in [Conns -> Seq(Runs)]
    PROVE  NetTypes'
  BY DEF NetTypes, Stays, server_vars

LEMMA WorkerTypesKept ==
    ASSUME WorkerTypes, NetTypes', Stays, WorkerOK(c_worker'),
           Held(c_worker') \cup RunSet(c_worker') \subseteq Held(c_worker) \cup RunSet(c_worker)
    PROVE  WorkerTypes' /\ UNCHANGED <<c_lang, c_op, c_issued, s_busy, s_done, s_idem, s_excused>>
<1>1. UNCHANGED <<c_lang, c_op, c_issued, s_busy, s_done, s_idem, s_excused>>
  BY DEF Stays, server_vars
<1>2. WorkerOK(c_worker)'
  BY <1>1 DEF WorkerOK, Batched
<1>3. Made' = Made
  BY <1>1 DEF Made
<1>4. (Held(c_worker) \cup RunSet(c_worker))' \subseteq Made'
  BY <1>3 DEF WorkerTypes, Held, RunSet, Running
<1> QED BY <1>1, <1>2, <1>4 DEF WorkerTypes

LEMMA SendTypes ==
    ASSUME NetTypes, NEW c \in Conns, NEW run \in Runs, NEW o, Send(c, run, o)
    PROVE  /\ n_out' = n_out \/ n_out' = [n_out EXCEPT ![c] = Append(n_out[c], run)]
           /\ n_out' \in [Conns -> Seq(Runs)]
<1>1. n_out \in [Conns -> Seq(Runs)] /\ Append(n_out[c], run) \in Seq(Runs)
  BY DEF NetTypes
<1> QED BY <1>1 DEF Send

\* The same, with what becomes of the calls not yet written.
WorkerKept ==
    /\ WorkerTypes'
    /\ UNCHANGED <<c_lang, c_op, c_issued, s_busy, s_done, s_idem, s_excused>>
    /\ \/ n_out' = n_out /\ Unsent' \subseteq Unsent
       \/ \E c \in Conns, run \in Runs :
            /\ n_out' = [n_out EXCEPT ![c] = Append(n_out[c], run)]
            /\ Unsent' \subseteq Unsent
            /\ \A x \in Range(run) : Unrepeated(x) => x \in Unsent /\ x \notin Unsent'

LEMMA RegroupKeeps ==
    ASSUME WorkerTypes, c_lang # "ts", Regroup
    PROVE  WorkerKept
<1>1. NetTypes' /\ Stays /\ WorkerOK(c_worker') /\ n_out' = n_out /\ UNCHANGED <<c_lang, c_op, c_issued>>
  <2>1. n_opened' \in Conns /\ n_up' \in [Conns -> BOOLEAN] /\ n_in' \in [Conns -> Seq(ResponsePieces)]
    BY ReconnectTypes DEF Regroup, Opens, WorkerTypes, WorkerOK, NetTypes
  <2>2. c_answer' = [x \in Calls |-> c_answer'[x]]
    BY RefusesTypes DEF Regroup
  <2>3. Stays /\ WorkerOK(c_worker') /\ n_out' = n_out /\ n_out' \in [Conns -> Seq(Runs)]
    BY DEF Regroup, WorkerTypes, NetTypes
  <2> QED BY <2>1, <2>2, <2>3, NetTypesKept DEF WorkerTypes, Stays
<1>2. Held(c_worker') \cup RunSet(c_worker') \subseteq Held(c_worker)
  BY DEF Regroup
<1>3. Unsent' \subseteq Held(c_worker') \cup RunSet(c_worker') /\ Held(c_worker) \subseteq Unsent
  BY <1>1 DEF Unsent, Held, RunSet, Running
<1> QED BY <1>1, <1>2, <1>3, WorkerTypesKept DEF WorkerKept

LEMMA WriteKeeps ==
    ASSUME WorkerTypes, c_lang # "ts", Write,
           c_worker.try = 2 => \A x \in Range(c_worker.run) : ~Unrepeated(x)
    PROVE  WorkerKept
<1>0. IsWorker(c_worker) /\ c_worker.pc = "write" /\ c_worker' = [c_worker EXCEPT !.pc = "read"]
      /\ c_worker.conn \in Conns /\ c_worker.run \in Runs /\ c_worker.try \in {1, 2}
      /\ RunSet(c_worker) \cap Held(c_worker) = {}
  BY DEF WorkerTypes, WorkerOK, Write, Runs, List, Incr, Calls
<1>1. /\ c_worker'.pc = "read" /\ c_worker'.cmds = c_worker.cmds /\ c_worker'.queue = c_worker.queue
      /\ c_worker'.direct = c_worker.direct /\ c_worker'.run = c_worker.run /\ c_worker'.try = c_worker.try
      /\ c_worker'.back = c_worker.back /\ IsWorker(c_worker') /\ c_worker'.dead = c_worker.dead
      /\ c_worker'.stash = c_worker.stash /\ c_worker'.conn = c_worker.conn
  BY <1>0 DEF IsWorker
<1>2. RunSet(c_worker) = Range(c_worker.run) /\ RunSet(c_worker') = Range(c_worker.run) /\ Held(c_worker') = Held(c_worker)
      /\ Running(c_worker)
  BY <1>0, <1>1 DEF RunSet, Running, Held
<1>3. WorkerOK(c_worker')
  BY <1>0, <1>1, <1>2 DEF WorkerTypes, WorkerOK
<1>4. /\ n_out' = n_out \/ n_out' = [n_out EXCEPT ![c_worker.conn] = Append(n_out[c_worker.conn], c_worker.run)]
      /\ n_out' \in [Conns -> Seq(Runs)]
  BY <1>0, SendTypes DEF Write, WorkerTypes
<1>5. Stays /\ UNCHANGED <<c_lang, c_answer, n_opened, n_up, n_in>>
  BY DEF Write, Stays
<1>6. NetTypes'
  BY <1>4, <1>5, NetTypesKept DEF WorkerTypes, NetTypes
<1>7. Unsent' = Held(c_worker) /\ Unsent = Held(c_worker) \cup (IF c_worker.try = 1 THEN Range(c_worker.run) ELSE {})
  BY <1>0, <1>1, <1>2, <1>5 DEF Unsent, Held
<1>8. \A x \in Range(c_worker.run) : Unrepeated(x) => x \in Unsent /\ x \notin Unsent'
  BY <1>0, <1>2, <1>7
<1>9. WorkerTypes' /\ UNCHANGED <<c_lang, c_op, c_issued, s_busy, s_done, s_idem, s_excused>>
  BY <1>2, <1>3, <1>5, <1>6, WorkerTypesKept
<1> QED BY <1>0, <1>4, <1>7, <1>8, <1>9 DEF WorkerKept

LEMMA RetryKeeps ==
    ASSUME WorkerTypes, c_lang # "ts", Retry
    PROVE  WorkerKept
<1>0. IsWorker(c_worker) /\ c_worker.pc = "read" /\ c_worker.conn \in Conns
  BY DEF WorkerTypes, WorkerOK, Retry
<1>1. PICK stash \in Seq(ResponsePieces) : c_worker' = [c_worker EXCEPT !.pc = "write", !.try = 2, !.stash = stash, !.conn = n_opened + 1]
  BY DEF Retry
<1>2. /\ c_worker'.pc = "write" /\ c_worker'.cmds = c_worker.cmds /\ c_worker'.queue = c_worker.queue
      /\ c_worker'.direct = c_worker.direct /\ c_worker'.run = c_worker.run /\ c_worker'.try = 2
      /\ c_worker'.back = c_worker.back /\ IsWorker(c_worker') /\ c_worker'.dead = c_worker.dead
      /\ c_worker'.stash = stash /\ c_worker'.conn = n_opened + 1
  BY <1>0, <1>1 DEF IsWorker
<1>3. RunSet(c_worker) = Range(c_worker.run) /\ RunSet(c_worker') = Range(c_worker.run) /\ Held(c_worker') = Held(c_worker)
      /\ Running(c_worker)
  BY <1>0, <1>2 DEF RunSet, Running, Held
<1>4. n_opened + 1 \in Conns /\ n_opened' \in Conns /\ n_up' \in [Conns -> BOOLEAN] /\ n_in' \in [Conns -> Seq(ResponsePieces)]
  BY <1>0, ReconnectTypes DEF Retry, Opens, WorkerTypes
<1>5. WorkerOK(c_worker')
  BY <1>0, <1>2, <1>3, <1>4 DEF WorkerTypes, WorkerOK
<1>6. Stays /\ UNCHANGED <<c_lang, c_answer, n_out>>
  BY DEF Retry, Stays
<1>7. NetTypes'
  BY <1>4, <1>6, NetTypesKept DEF WorkerTypes, NetTypes
<1>8. Unsent' = Held(c_worker) /\ Unsent = Held(c_worker)
  BY <1>0, <1>2, <1>3, <1>6 DEF Unsent, Held
<1>9. WorkerTypes' /\ UNCHANGED <<c_lang, c_op, c_issued, s_busy, s_done, s_idem, s_excused>>
  BY <1>3, <1>5, <1>6, <1>7, WorkerTypesKept
<1> QED BY <1>6, <1>8, <1>9 DEF WorkerKept

\* A run that ends, one way or the other.
LEMMA EndKeeps ==
    ASSUME WorkerTypes, c_lang # "ts", c_worker.pc = "read", NEW pc \in {"idle", "segment", "direct", "queue", "gone"},
           NEW run \in {c_worker.run, <<>>}, NEW cmds \in {c_worker.cmds, <<>>}, NEW stash \in Seq(ResponsePieces),
           NEW dead \in {c_worker.dead, TRUE}, c_lang # "rust" => dead = c_worker.dead, pc = "idle" => cmds = <<>>,
           c_worker' = [c_worker EXCEPT !.pc = pc, !.run = run, !.cmds = cmds, !.stash = stash, !.dead = dead],
           Stays, NetTypes', n_out' = n_out
    PROVE  WorkerKept
<1>0. IsWorker(c_worker) /\ c_worker.conn \in Conns /\ List(<<>>) /\ Range(<<>>) = {}
  BY NoCalls DEF WorkerTypes, WorkerOK
<1>2. /\ c_worker'.pc = pc /\ c_worker'.cmds = cmds /\ c_worker'.queue = c_worker.queue
      /\ c_worker'.direct = c_worker.direct /\ c_worker'.run = run /\ c_worker'.try = c_worker.try
      /\ c_worker'.back = c_worker.back /\ IsWorker(c_worker') /\ c_worker'.dead = dead
      /\ c_worker'.stash = stash /\ c_worker'.conn = c_worker.conn
  BY <1>0 DEF IsWorker
<1>3. RunSet(c_worker') = {} /\ ~Running(c_worker') /\ Held(c_worker') \subseteq Held(c_worker)
  BY <1>0, <1>2 DEF RunSet, Running, Held
<1>4. Range(cmds) \subseteq Range(c_worker.cmds) /\ List(cmds) /\ List(run) /\ dead \in BOOLEAN /\ (c_worker.cmds = <<>> => cmds = <<>>)
  BY <1>0 DEF WorkerTypes, WorkerOK
<1>5. WorkerOK(c_worker')
  BY <1>0, <1>2, <1>3, <1>4 DEF WorkerTypes, WorkerOK
<1>6. Unsent' \subseteq Held(c_worker) /\ Unsent = Held(c_worker)
  BY <1>0, <1>2, <1>3 DEF Unsent, Held, Stays
<1>7. WorkerTypes' /\ UNCHANGED <<c_lang, c_op, c_issued, s_busy, s_done, s_idem, s_excused>>
  BY <1>3, <1>5, WorkerTypesKept
<1> QED BY <1>6, <1>7 DEF WorkerKept

LEMMA FedTypes ==
    ASSUME WorkerTypes, NEW k \in Arrived
    PROVE  Fed(k) \in Seq(ResponsePieces) /\ Taken(c_worker.conn, k) \in [Conns -> Seq(ResponsePieces)]
           /\ k \in 1 .. Len(n_in[c_worker.conn]) /\ n_in[c_worker.conn] \in Seq(ResponsePieces)
<1>1. /\ c_worker.conn \in Conns /\ n_in \in [Conns -> Seq(ResponsePieces)] /\ n_in[c_worker.conn] \in Seq(ResponsePieces)
      /\ c_worker.stash \in Seq(ResponsePieces) /\ k \in 1 .. Len(n_in[c_worker.conn])
  BY DEF WorkerTypes, NetTypes, WorkerOK, Arrived
<1> QED BY <1>1 DEF Fed, Taken

Resending == c_lang # "ts" /\ c_worker.pc = "write" /\ c_worker.try = 2 => \A x \in Range(c_worker.run) : ~Unrepeated(x)

LEMMA FailKeeps ==
    ASSUME WorkerTypes, c_lang # "ts", Fail
    PROVE  WorkerKept /\ c_worker'.pc # "write"
<1>0. /\ c_worker.pc = "read" /\ Stays /\ UNCHANGED <<n_opened, n_out>> /\ c_worker.conn \in Conns
      /\ n_up \in [Conns -> BOOLEAN] /\ n_in \in [Conns -> Seq(ResponsePieces)] /\ IsWorker(c_worker)
  BY DEF Fail, WorkerTypes, NetTypes, WorkerOK
<1>1. PICK pc \in {"idle", "segment", "direct", "queue", "gone"}, run \in {c_worker.run, <<>>},
          cmds \in {c_worker.cmds, <<>>}, stash \in Seq(ResponsePieces), dead \in {c_worker.dead, TRUE},
          S \in SUBSET Calls : Ends(pc, run, cmds, stash, dead, S)
  BY DEF Fail
<1>2. n_up' \in [Conns -> BOOLEAN]
  BY <1>0 DEF Fail
<1>3. n_in' \in [Conns -> Seq(ResponsePieces)]
  <2>1. [n_in EXCEPT ![c_worker.conn] = <<>>] \in [Conns -> Seq(ResponsePieces)]
    BY <1>0
  <2>2. \A k \in Arrived : Taken(c_worker.conn, k) \in [Conns -> Seq(ResponsePieces)]
    BY FedTypes
  <2>3. n_in' \in {n_in, [n_in EXCEPT ![c_worker.conn] = <<>>]} \cup {Taken(c_worker.conn, k) : k \in Arrived}
    BY Zenon DEF Fail
  <2>4. \A k : k \in {Taken(c_worker.conn, j) : j \in Arrived} => k \in [Conns -> Seq(ResponsePieces)]
    BY <2>2, Zenon
  <2> QED BY <1>0, <2>1, <2>3, <2>4, Zenon
<1>4. NetTypes'
  BY <1>0, <1>1, <1>2, <1>3, RefusesTypes, NetTypesKept DEF WorkerTypes, NetTypes, Ends
<1>5. c_worker'.pc = pc
  BY <1>0, <1>1 DEF Ends, IsWorker
<1> QED BY <1>0, <1>1, <1>4, <1>5, EndKeeps DEF Ends

LEMMA SettleKeeps ==
    ASSUME WorkerTypes, c_lang # "ts", Settle
    PROVE  WorkerKept /\ c_worker'.pc # "write"
<1>0. /\ c_worker.pc = "read" /\ Stays /\ UNCHANGED <<n_opened, n_up, n_out>> /\ IsWorker(c_worker)
      /\ c_worker.dead \in {c_worker.dead, TRUE}
  BY DEF Settle, WorkerTypes, WorkerOK
<1>1. PICK k \in Arrived, pc \in {"idle", "segment", "direct", "queue", "gone"}, stash \in Seq(ResponsePieces) :
         /\ c_answer' = Answered(c_worker.run, Fed(k)[1].run)
         /\ c_worker' = [c_worker EXCEPT !.pc = pc, !.run = <<>>, !.stash = stash]
         /\ pc # "idle"
         /\ n_in' = Taken(c_worker.conn, k)
  BY DEF Settle
<1>2. c_worker' = [c_worker EXCEPT !.pc = pc, !.run = <<>>, !.cmds = c_worker.cmds, !.stash = stash, !.dead = c_worker.dead]
  BY <1>0, <1>1 DEF IsWorker
<1>3. NetTypes'
  BY <1>0, <1>1, FedTypes, AnsweredTypes, NetTypesKept DEF WorkerTypes, NetTypes
<1>4. c_worker'.pc = pc
  BY <1>0, <1>1 DEF IsWorker
<1> QED BY <1>0, <1>1, <1>2, <1>3, <1>4, EndKeeps, ZenonT(40)

LEMMA MoreKeeps ==
    ASSUME WorkerTypes, c_lang # "ts", More
    PROVE  WorkerKept /\ c_worker'.pc # "write"
<1>0. /\ c_worker.pc = "read" /\ Stays /\ UNCHANGED <<c_answer, n_opened, n_up, n_out>> /\ IsWorker(c_worker)
  BY DEF More, WorkerTypes, WorkerOK
<1>1. PICK k \in Arrived : c_worker' = [c_worker EXCEPT !.stash = Fed(k)] /\ n_in' = Taken(c_worker.conn, k)
  BY DEF More
<1>2. /\ c_worker'.pc = "read" /\ c_worker'.cmds = c_worker.cmds /\ c_worker'.queue = c_worker.queue
      /\ c_worker'.direct = c_worker.direct /\ c_worker'.run = c_worker.run /\ c_worker'.try = c_worker.try
      /\ c_worker'.back = c_worker.back /\ IsWorker(c_worker') /\ c_worker'.dead = c_worker.dead
      /\ c_worker'.stash = Fed(k) /\ c_worker'.conn = c_worker.conn
  BY <1>0, <1>1 DEF IsWorker
<1>3. RunSet(c_worker') = RunSet(c_worker) /\ Held(c_worker') = Held(c_worker) /\ Running(c_worker)
  BY <1>0, <1>2 DEF RunSet, Running, Held
<1>4. WorkerOK(c_worker')
  BY <1>0, <1>2, <1>3, FedTypes DEF WorkerTypes, WorkerOK
<1>5. NetTypes'
  BY <1>0, <1>1, FedTypes, NetTypesKept DEF WorkerTypes, NetTypes
<1>6. Unsent' = Held(c_worker) /\ Unsent = Held(c_worker)
  BY <1>0, <1>2, <1>3 DEF Unsent, Held, Stays
<1>7. WorkerTypes' /\ UNCHANGED <<c_lang, c_op, c_issued, s_busy, s_done, s_idem, s_excused>>
  BY <1>0, <1>3, <1>4, <1>5, WorkerTypesKept
<1> QED BY <1>0, <1>2, <1>6, <1>7 DEF WorkerKept

(* A step of a worker writes a call that may not be repeated only once.    *)
LEMMA WorkerKeeps ==
    ASSUME WorkerTypes, c_lang # "ts", Resending, WorkerStep
    PROVE  WorkerKept /\ Resending'
<1>1. CASE Regroup
  BY <1>1, RegroupKeeps DEF Regroup, Resending
<1>2. CASE Write
  <2>1. c_worker'.pc = "read"
    BY <1>2 DEF Write, WorkerTypes, WorkerOK, IsWorker
  <2> QED BY <1>2, <2>1, WriteKeeps DEF Write, Resending
<1>3. CASE Retry
  <2>1. WorkerKept
    BY <1>3, RetryKeeps
  <2>2. c_worker'.run = c_worker.run /\ c_op' = c_op
    BY <1>3 DEF Retry, Stays, WorkerTypes, WorkerOK, IsWorker
  <2> QED BY <1>3, <2>1, <2>2 DEF Retry, Resending, Unrepeated
<1>4. CASE Fail \/ Settle \/ More
  BY <1>4, FailKeeps, SettleKeeps, MoreKeeps DEF Resending
<1> QED BY <1>1, <1>2, <1>3, <1>4 DEF WorkerStep

\* The calls of a worker's application.
LEMMA WorkerIssue ==
    ASSUME WorkerTypes, c_lang # "ts", Issue
    PROVE  /\ WorkerTypes'
           /\ UNCHANGED <<c_lang, c_op, n_out, s_busy, s_done, s_idem, s_excused>>
           /\ c_issued' = c_issued + 1
           /\ Unsent' \subseteq Unsent \cup {c_issued + 1}
           /\ c_worker'.pc = c_worker.pc /\ c_worker'.try = c_worker.try /\ c_worker'.run = c_worker.run
<1> DEFINE x == c_issued + 1
<1>0. /\ x \in Calls /\ x \in DOMAIN c_op /\ c_issued' = x /\ IsWorker(c_worker) /\ NCalls \in Nat /\ c_issued \in 0 .. NCalls
      /\ UNCHANGED <<c_lang, c_op, n_opened, n_up, n_in, n_out, s_busy, s_done, s_idem, s_excused>>
      /\ c_lang \in {"rust", "py", "go"}
  BY NoCalls, LangsAssumption DEF Issue, server_vars, WorkerTypes, WorkerOK, NetTypes
<1>1. Made' = Made \cup {x}
  BY <1>0 DEF Made
<1>2. CASE c_worker.closed
  <2>1. UNCHANGED <<c_worker, c_tasks>> /\ c_answer' = [y \in Calls |-> c_answer'[y]]
    BY <1>2 DEF Issue, Refused
  <2>2. NetTypes'
    BY <1>0, <2>1 DEF WorkerTypes, NetTypes, Calls
  <2>3. WorkerOK(c_worker)' /\ Held(c_worker)' = Held(c_worker) /\ RunSet(c_worker)' = RunSet(c_worker) /\ Unsent' = Unsent
    BY <1>0, <2>1 DEF WorkerTypes, WorkerOK, Batched, Held, RunSet, Running, Unsent
  <2> QED BY <1>0, <1>1, <2>1, <2>2, <2>3 DEF WorkerTypes
<1>3. CASE ~c_worker.closed
  <2>1. /\ UNCHANGED <<c_answer, c_tasks>>
        /\ \/ c_worker' = [c_worker EXCEPT !.queue = Append(c_worker.queue, x)]
           \/ c_lang = "py" /\ PyOps[c_op[x]].direct /\ c_worker' = [c_worker EXCEPT !.direct = Append(c_worker.direct, x)]
    BY <1>0, <1>3 DEF Issue, RustExec, PyExec, GoExec
  <2>2. NetTypes'
    BY <1>0, <2>1 DEF WorkerTypes, NetTypes, Calls
  <2>3. Held(c_worker) \cup RunSet(c_worker) \subseteq Made /\ \A y \in Made : y < x /\ y # x
    BY <1>0 DEF WorkerTypes, Made
  <2>4. PyOps[c_op[x]].direct /\ c_lang = "py" => ~Batched(x)
    <3>1. c_lang = "py" => c_op[x] \in DOMAIN PyOps
      BY <1>0, LangsAssumption DEF WorkerTypes, NetTypes, Methods
    <3> QED BY <3>1, PyMethods DEF Batched
  <2>5. /\ Incr(Append(c_worker.queue, x), NCalls) /\ Range(Append(c_worker.queue, x)) = Range(c_worker.queue) \cup {x}
        /\ Incr(Append(c_worker.direct, x), NCalls) /\ Range(Append(c_worker.direct, x)) = Range(c_worker.direct) \cup {x}
    <3>1. Incr(c_worker.queue, NCalls) /\ Incr(c_worker.direct, NCalls) /\ x \in 1 .. NCalls
      BY <1>0 DEF WorkerTypes, WorkerOK, List, Calls
    <3>2. (\A y \in Range(c_worker.queue) : y < x) /\ (\A y \in Range(c_worker.direct) : y < x)
      BY <2>3 DEF Held
    <3> HIDE DEF x
    <3> QED BY <1>0, <3>1, <3>2, IncrAppend
  <2>6. CASE c_worker' = [c_worker EXCEPT !.queue = Append(c_worker.queue, x)]
    <3>1. /\ c_worker'.pc = c_worker.pc /\ c_worker'.cmds = c_worker.cmds /\ c_worker'.queue = Append(c_worker.queue, x)
          /\ c_worker'.direct = c_worker.direct /\ c_worker'.run = c_worker.run /\ c_worker'.try = c_worker.try
          /\ c_worker'.back = c_worker.back /\ IsWorker(c_worker') /\ c_worker'.dead = c_worker.dead
          /\ c_worker'.stash = c_worker.stash /\ c_worker'.conn = c_worker.conn
      BY <1>0, <2>6 DEF IsWorker
    <3>2. RunSet(c_worker') = RunSet(c_worker) /\ Held(c_worker') = Held(c_worker) \cup {x} /\ Running(c_worker') = Running(c_worker)
      BY <2>5, <3>1 DEF RunSet, Running, Held
    <3>3. WorkerOK(c_worker')
      BY <1>0, <2>3, <2>5, <3>1, <3>2 DEF WorkerTypes, WorkerOK, List, Held
    <3>4. WorkerOK(c_worker)'
      BY <1>0, <3>3 DEF WorkerOK, Batched
    <3>5. Unsent' \subseteq Unsent \cup {x}
      BY <1>0, <3>1, <3>2 DEF Unsent, Held
    <3>6. (Held(c_worker) \cup RunSet(c_worker))' \subseteq Made'
      BY <1>1, <2>3, <3>2 DEF Held, RunSet, Running
    <3> QED BY <1>0, <2>2, <3>1, <3>4, <3>5, <3>6 DEF WorkerTypes
  <2>7. CASE c_lang = "py" /\ PyOps[c_op[x]].direct /\ c_worker' = [c_worker EXCEPT !.direct = Append(c_worker.direct, x)]
    <3>1. /\ c_worker'.pc = c_worker.pc /\ c_worker'.cmds = c_worker.cmds /\ c_worker'.queue = c_worker.queue
          /\ c_worker'.direct = Append(c_worker.direct, x) /\ c_worker'.run = c_worker.run /\ c_worker'.try = c_worker.try
          /\ c_worker'.back = c_worker.back /\ IsWorker(c_worker') /\ c_worker'.dead = c_worker.dead
          /\ c_worker'.stash = c_worker.stash /\ c_worker'.conn = c_worker.conn
      BY <1>0, <2>7 DEF IsWorker
    <3>2. RunSet(c_worker') = RunSet(c_worker) /\ Held(c_worker') = Held(c_worker) \cup {x} /\ Running(c_worker') = Running(c_worker)
      BY <2>5, <3>1 DEF RunSet, Running, Held
    <3>3. WorkerOK(c_worker')
      BY <1>0, <2>3, <2>4, <2>5, <2>7, <3>1, <3>2, ZenonT(40) DEF WorkerTypes, WorkerOK, List, Held
    <3>4. WorkerOK(c_worker)'
      BY <1>0, <3>3 DEF WorkerOK, Batched
    <3>5. Unsent' \subseteq Unsent \cup {x}
      BY <1>0, <3>1, <3>2 DEF Unsent, Held
    <3>6. (Held(c_worker) \cup RunSet(c_worker))' \subseteq Made'
      BY <1>1, <2>3, <3>2 DEF Held, RunSet, Running
    <3> QED BY <1>0, <2>2, <3>1, <3>4, <3>5, <3>6 DEF WorkerTypes
  <2> QED BY <2>1, <2>6, <2>7
<1> QED BY <1>2, <1>3

\* A caller's deadline, and the end of the client.
LEMMA WorkerOther ==
    ASSUME WorkerTypes, c_lang # "ts", (\E x \in Calls : Deadline(x)) \/ Close
    PROVE  /\ WorkerTypes'
           /\ UNCHANGED <<c_lang, c_op, c_issued, n_out, s_busy, s_done, s_idem, s_excused>>
           /\ Unsent' = Unsent
           /\ c_worker'.pc = c_worker.pc /\ c_worker'.try = c_worker.try /\ c_worker'.run = c_worker.run
<1>1. CASE \E x \in Calls : Deadline(x)
  <2>1. PICK x \in Calls : PyGiveUp(x)
    BY <1>1 DEF Deadline
  <2>2. UNCHANGED <<c_lang, c_op, c_issued, c_worker, c_tasks, net_vars, server_vars>> /\ c_answer' = [y \in Calls |-> c_answer'[y]]
    BY <2>1 DEF PyGiveUp, Refused
  <2>3. NetTypes'
    BY <2>2 DEF WorkerTypes, NetTypes, net_vars, server_vars
  <2>4. WorkerOK(c_worker)' /\ Held(c_worker)' = Held(c_worker) /\ RunSet(c_worker)' = RunSet(c_worker) /\ Unsent' = Unsent /\ Made' = Made
    BY <2>2 DEF WorkerTypes, WorkerOK, Batched, Held, RunSet, Running, Unsent, Made
  <2> QED BY <2>2, <2>3, <2>4 DEF WorkerTypes, net_vars, server_vars
<1>2. CASE Close
  <2>0. IsWorker(c_worker) /\ c_worker.conn \in Conns /\ n_up \in [Conns -> BOOLEAN] /\ n_in \in [Conns -> Seq(ResponsePieces)]
    BY DEF WorkerTypes, WorkerOK, NetTypes
  <2>1. /\ c_worker' = [c_worker EXCEPT !.closed = TRUE]
        /\ n_up' = [n_up EXCEPT ![c_worker.conn] = FALSE]
        /\ n_in' = [n_in EXCEPT ![c_worker.conn] = <<>>]
        /\ UNCHANGED <<c_lang, c_op, c_issued, c_answer, c_tasks, n_opened, n_lost, n_out, server_vars>>
    BY <1>2 DEF Close, PyClose, GoClose
  <2>2. n_up' \in [Conns -> BOOLEAN] /\ n_in' \in [Conns -> Seq(ResponsePieces)]
    BY <2>0, <2>1
  <2>3. NetTypes'
    BY <2>1, <2>2 DEF WorkerTypes, NetTypes, server_vars
  <2>4. /\ c_worker'.pc = c_worker.pc /\ c_worker'.cmds = c_worker.cmds /\ c_worker'.queue = c_worker.queue
        /\ c_worker'.direct = c_worker.direct /\ c_worker'.run = c_worker.run /\ c_worker'.try = c_worker.try
        /\ c_worker'.back = c_worker.back /\ IsWorker(c_worker') /\ c_worker'.dead = c_worker.dead
        /\ c_worker'.stash = c_worker.stash /\ c_worker'.conn = c_worker.conn
    BY <2>0, <2>1 DEF IsWorker
  <2>5. Held(c_worker') = Held(c_worker) /\ RunSet(c_worker') = RunSet(c_worker) /\ Running(c_worker') = Running(c_worker)
    BY <2>4 DEF Held, RunSet, Running
  <2>6. WorkerOK(c_worker')
    BY <2>4, <2>5 DEF WorkerTypes, WorkerOK
  <2>7. WorkerOK(c_worker)' /\ Made' = Made /\ Unsent' = Unsent
    <3>1. WorkerOK(c_worker)'
      BY <2>1, <2>6 DEF WorkerOK, Batched
    <3>2. Made' = Made
      BY <2>1 DEF Made
    <3>3. Unsent' = Unsent
      BY <2>1, <2>4, <2>5 DEF Unsent, Held
    <3> QED BY <3>1, <3>2, <3>3
  <2>8. (Held(c_worker) \cup RunSet(c_worker))' \subseteq Made'
    BY <2>5, <2>7 DEF WorkerTypes, Held, RunSet, Running
  <2> QED BY <2>1, <2>3, <2>4, <2>7, <2>8 DEF WorkerTypes, server_vars
<1> QED BY <1>1, <1>2

(* The flushes of the TypeScript client.                                   *)

TsTasks == [pc : {"read", "loop", "reconnect"}, run : Runs, try : {1, 2}, conn : Conns \cup {0},
            loop : BOOLEAN, next : Calls \cup {0}]

\* A flush, when q is queued and the calls M have been made.
FlushOK(t, q, M) ==
    /\ t \in TsTasks /\ (t.pc = "read" => t.conn \in Conns)
    /\ Range(t.run) \subseteq M /\ t.next \in M \cup {0} /\ t.next \notin Range(q)
    /\ t.pc = "reconnect" => \A x \in Range(t.run) : ~Unrepeated(x)

(* The flushes under way: no two wait to hand on the same call.            *)
FlushesOK(s, q, M) ==
    /\ s \in Seq(TsTasks)
    /\ \A i \in 1 .. Len(s) : FlushOK(s[i], q, M)
    /\ \A i, j \in 1 .. Len(s) : i # j /\ s[i].next = s[j].next => s[i].next = 0

Nexts(s) == {s[i].next : i \in 1 .. Len(s)}

LEMMA FlushLess ==
    ASSUME NEW s, NEW q, NEW r, NEW M, NEW L, FlushesOK(s, q, M), Range(r) \subseteq Range(q), M \subseteq L
    PROVE  FlushesOK(s, r, L)
  BY DEF FlushesOK, FlushOK

LEMMA FlushAppend ==
    ASSUME NEW s, NEW q, NEW M, FlushesOK(s, q, M), NEW t, FlushOK(t, q, M), t.next = 0 \/ t.next \notin Nexts(s)
    PROVE  FlushesOK(Append(s, t), q, M) /\ Nexts(Append(s, t)) = Nexts(s) \cup {t.next}
<1>1. s \in Seq(TsTasks) /\ t \in TsTasks /\ Len(s) \in Nat
  BY DEF FlushesOK, FlushOK
<1>2. /\ Append(s, t) \in Seq(TsTasks) /\ Len(Append(s, t)) = Len(s) + 1
      /\ \A i \in 1 .. Len(s) : Append(s, t)[i] = s[i] /\ i \in 1 .. Len(s) + 1
      /\ Append(s, t)[Len(s) + 1] = t /\ Len(s) + 1 \in 1 .. Len(s) + 1
      /\ \A i \in 1 .. Len(s) + 1 : i \in 1 .. Len(s) \/ i = Len(s) + 1
  BY <1>1
<1> DEFINE a == Append(s, t)
<1> HIDE DEF a
<1>3. \A i \in 1 .. Len(a) : FlushOK(a[i], q, M)
  BY <1>2 DEF a, FlushesOK
<1>4. ASSUME NEW i \in 1 .. Len(a), NEW j \in 1 .. Len(a), i # j, a[i].next = a[j].next PROVE a[i].next = 0
  <2>1. CASE i \in 1 .. Len(s) /\ j \in 1 .. Len(s)
    BY <1>2, <1>4, <2>1 DEF a, FlushesOK
  <2>2. CASE ~(i \in 1 .. Len(s) /\ j \in 1 .. Len(s))
    BY <1>2, <1>4, <2>2 DEF a, Nexts
  <2> QED BY <2>1, <2>2
<1>5. Nexts(a) = Nexts(s) \cup {t.next}
  BY <1>2 DEF a, Nexts
<1> QED BY <1>2, <1>3, <1>4, <1>5 DEF a, FlushesOK

LEMMA FlushMap ==
    ASSUME NEW s, NEW q, NEW M, FlushesOK(s, q, M), NEW r \in Seq(TsTasks), Len(r) = Len(s),
           \A i \in 1 .. Len(s) : FlushOK(r[i], q, M) /\ r[i].next = s[i].next
    PROVE  FlushesOK(r, q, M) /\ Nexts(r) = Nexts(s)
<1>1. Nexts(r) = Nexts(s)
  BY DEF Nexts
<1> QED BY <1>1 DEF FlushesOK

LEMMA FlushRemove ==
    ASSUME NEW s, NEW q, NEW M, FlushesOK(s, q, M), NEW i \in 1 .. Len(s)
    PROVE  /\ FlushesOK(RemoveAt(s, i), q, M) /\ Nexts(RemoveAt(s, i)) \subseteq Nexts(s)
           /\ s[i].next = 0 \/ s[i].next \notin Nexts(RemoveAt(s, i))
<1> DEFINE r == RemoveAt(s, i)
           f(j) == IF j < i THEN j ELSE j + 1
<1>1. s \in Seq(TsTasks) /\ Len(s) \in Nat
  BY DEF FlushesOK
<1>2. r \in Seq(TsTasks) /\ Len(r) = Len(s) - 1 /\ \A j \in 1 .. Len(s) - 1 : r[j] = s[f(j)]
  <2> DEFINE a == SubSeq(s, 1, i - 1)
             b == SubSeq(s, i + 1, Len(s))
  <2>1. /\ a \in Seq(TsTasks) /\ Len(a) = i - 1 /\ \A j \in 1 .. i - 1 : a[j] = s[j]
    BY <1>1
  <2>2. /\ b \in Seq(TsTasks) /\ Len(b) = Len(s) - i /\ \A j \in 1 .. Len(s) - i : b[j] = s[i + j]
    BY <1>1
  <2>3. r = a \o b
    BY DEF RemoveAt
  <2> HIDE DEF a, b, r
  <2>4. r \in Seq(TsTasks) /\ Len(r) = Len(s) - 1 /\ \A j \in 1 .. Len(s) - 1 : r[j] = IF j <= i - 1 THEN a[j] ELSE b[j - (i - 1)]
    BY <1>1, <2>1, <2>2, <2>3
  <2>5. ASSUME NEW j \in 1 .. Len(s) - 1 PROVE r[j] = s[f(j)]
    <3>1. CASE j < i
      BY <1>1, <2>1, <2>4, <3>1
    <3>2. CASE ~(j < i)
      <4>1. j - (i - 1) \in 1 .. Len(s) - i /\ i + (j - (i - 1)) = j + 1 /\ ~(j <= i - 1)
        BY <1>1, <3>2
      <4> QED BY <2>2, <2>4, <3>2, <4>1
    <3> QED BY <3>1, <3>2
  <2> QED BY <2>4, <2>5
<1>3. \A j \in 1 .. Len(s) - 1 : f(j) \in 1 .. Len(s) /\ f(j) # i /\ \A k \in 1 .. Len(s) - 1 : f(j) = f(k) => j = k
  BY <1>1
<1> HIDE DEF r, f
<1>4. FlushesOK(r, q, M)
  BY <1>2, <1>3 DEF FlushesOK
<1>5. Nexts(r) \subseteq Nexts(s)
  BY <1>2, <1>3 DEF Nexts
<1>6. s[i].next = 0 \/ s[i].next \notin Nexts(r)
  <2> SUFFICES ASSUME s[i].next \in Nexts(r) PROVE s[i].next = 0
    OBVIOUS
  <2>1. PICK j \in 1 .. Len(s) - 1 : s[i].next = r[j].next
    BY <1>2 DEF Nexts
  <2>2. f(j) \in 1 .. Len(s) /\ f(j) # i /\ s[i].next = s[f(j)].next
    BY <1>2, <1>3, <2>1
  <2> QED BY <2>2 DEF FlushesOK
<1> QED BY <1>4, <1>5, <1>6 DEF r

(* What holds of the TypeScript client between its callbacks.              *)
TsTypes ==
    /\ NetTypes /\ IsWorker(c_worker) /\ c_worker.conn \in Conns
    /\ List(c_worker.queue) /\ Range(c_worker.queue) \subseteq Made
    /\ FlushesOK(c_tasks, c_worker.queue, Made)

\* What a step of this client does to the calls not yet written.
TsKept ==
    /\ TsTypes'
    /\ UNCHANGED <<c_lang, c_op, s_busy, s_done, s_idem, s_excused>>
    /\ c_issued' \in Nat /\ c_issued <= c_issued'
    /\ \A x \in Unsent' : x \in Unsent \/ x = 0 \/ (c_issued < x /\ x <= c_issued')
    /\ \/ n_out' = n_out
       \/ \E c \in Conns, run \in Runs :
            /\ n_out' = [n_out EXCEPT ![c] = Append(n_out[c], run)]
            /\ \A x \in Range(run) : Unrepeated(x) => x \in Unsent /\ x \notin Unsent' /\ x <= c_issued

(* The chunk that a flush takes off the queue.                             *)
LEMMA ChunkFacts ==
    ASSUME NEW q, List(q)
    PROVE  LET run == TsChunk(q)
               rest == SubSeq(q, Len(run) + 1, Len(q)) IN
           /\ run \in Runs /\ List(run) /\ List(rest) /\ Range(run) \cup Range(rest) = Range(q)
           /\ Range(run) \cap Range(rest) = {} /\ \A x \in Range(run), y \in Range(rest) : x < y
<1> DEFINE m == IF Len(q) < FLUSH_CHUNK THEN Len(q) ELSE FLUSH_CHUNK
<1>1. Incr(q, NCalls) /\ NCalls \in Nat /\ Len(q) \in Nat /\ FLUSH_CHUNK \in Nat
  BY NoCalls, NetAssumption DEF List, Incr
<1>2. m \in Nat /\ m <= Len(q)
  BY <1>1
<1>3. TsChunk(q) = SubSeq(q, 1, m)
  BY DEF TsChunk
<1> HIDE DEF m
<1>4. /\ Incr(SubSeq(q, 1, m), NCalls) /\ Incr(SubSeq(q, m + 1, Len(q)), NCalls)
      /\ Range(SubSeq(q, 1, m)) \cup Range(SubSeq(q, m + 1, Len(q))) = Range(q)
      /\ Range(SubSeq(q, 1, m)) \cap Range(SubSeq(q, m + 1, Len(q))) = {}
      /\ \A x \in Range(SubSeq(q, 1, m)), y \in Range(SubSeq(q, m + 1, Len(q))) : x < y
      /\ Len(SubSeq(q, 1, m)) = m
  BY <1>1, <1>2, IncrCut
<1> QED BY <1>3, <1>4 DEF List, Runs, Incr, Calls

LEMMA TsTypesKept ==
    ASSUME NetTypes', c_op' = c_op, IsWorker(c_worker'), c_worker'.conn \in Conns,
           List(c_worker'.queue), Range(c_worker'.queue) \subseteq Made',
           FlushesOK(c_tasks', c_worker'.queue, Made')
    PROVE  TsTypes'
<1>1. FlushesOK(c_tasks, c_worker.queue, Made)'
  BY DEF FlushesOK, FlushOK, Unrepeated
<1> QED BY <1>1 DEF TsTypes, Conns, Runs, List, Calls

\* Unsent calls of this client.
LEMMA TsUnsent ==
    ASSUME c_lang = "ts", TsTypes
    PROVE  Unsent = Range(c_worker.queue) \cup Nexts(c_tasks)
<1>1. DOMAIN c_tasks = 1 .. Len(c_tasks)
  BY DEF TsTypes, FlushesOK
<1> QED BY <1>1 DEF Unsent, Nexts

\* The flushes a step makes.
Flushing(t, pc, run, conn, next) ==
    t \in TsTasks /\ t.pc = pc /\ t.run = run /\ t.conn = conn /\ t.next = next

LEMMA ListeningFacts ==
    \A run \in Runs, try \in {1, 2}, conn \in Conns, loop \in BOOLEAN, next \in Calls \cup {0} :
      Flushing(TsListening(run, try, conn, loop, next), "read", run, conn, next)
<1> TAKE run \in Runs, try \in {1, 2}, conn \in Conns, loop \in BOOLEAN, next \in Calls \cup {0}
<1> DEFINE t == TsListening(run, try, conn, loop, next)
<1>1. t.pc = "read" /\ t.run = run /\ t.conn = conn /\ t.next = next
  BY DEF TsListening
<1>2. conn \in Conns \cup {0}
  OBVIOUS
<1>3. t \in TsTasks
  BY <1>2 DEF TsListening, TsTasks
<1> QED BY <1>1, <1>3 DEF Flushing

LEMMA PausedFacts ==
    \A pc \in {"loop", "reconnect"}, run \in Runs, loop \in BOOLEAN, next \in Calls \cup {0} :
      Flushing(TsPaused(pc, run, loop, next), pc, run, 0, next)
<1> TAKE pc \in {"loop", "reconnect"}, run \in Runs, loop \in BOOLEAN, next \in Calls \cup {0}
<1> DEFINE t == TsPaused(pc, run, loop, next)
<1>1. t.pc = pc /\ t.run = run /\ t.conn = 0 /\ t.next = next
  BY DEF TsPaused
<1>2. 0 \in Conns \cup {0} /\ pc \in {"read", "loop", "reconnect"}
  OBVIOUS
<1>3. t \in TsTasks
  BY <1>2 DEF TsPaused, TsTasks
<1> QED BY <1>1, <1>3 DEF Flushing

\* A flush takes a run off the queue q and writes it.
TakesRun(q, M, L, tasks, next, t, run, rest) ==
    /\ List(q) /\ Range(q) \subseteq M /\ M \subseteq L /\ FlushesOK(tasks, q, M)
    /\ next \in L \cup {0} /\ (next = 0 \/ next \notin Nexts(tasks)) /\ next \notin Range(q)
    /\ run = TsChunk(q) /\ rest = SubSeq(q, Len(run) + 1, Len(q))
    /\ t \in TsTasks /\ t.pc = "read" /\ t.conn \in Conns /\ t.run = run /\ t.next = next

LEMMA TakeRunFacts ==
    \A q, M, L, tasks, next, t, run, rest : TakesRun(q, M, L, tasks, next, t, run, rest)
      => /\ run \in Runs /\ List(rest) /\ Range(run) \cup Range(rest) = Range(q)
         /\ Range(run) \cap Range(rest) = {}
         /\ FlushesOK(Append(tasks, t), rest, L) /\ Nexts(Append(tasks, t)) = Nexts(tasks) \cup {next}
<1> TAKE q, M, L, tasks, next, t, run, rest
<1> HAVE TakesRun(q, M, L, tasks, next, t, run, rest)
<1>0. List(q) /\ run = TsChunk(q) /\ rest = SubSeq(q, Len(run) + 1, Len(q))
  BY DEF TakesRun
<1>1. /\ run \in Runs /\ List(rest) /\ Range(run) \cup Range(rest) = Range(q)
      /\ Range(run) \cap Range(rest) = {}
  BY <1>0, ChunkFacts
<1>2. FlushesOK(tasks, rest, L)
  BY <1>1, FlushLess DEF TakesRun
<1>4. FlushOK(t, rest, L)
  BY <1>1 DEF FlushOK, TakesRun
<1>5. FlushesOK(Append(tasks, t), rest, L) /\ Nexts(Append(tasks, t)) = Nexts(tasks) \cup {t.next}
  BY <1>2, <1>4, FlushAppend DEF TakesRun
<1> QED BY <1>1, <1>5 DEF TakesRun

\* The flushes of the state, with more calls made.
LEMMA TsFacts ==
    ASSUME TsTypes, c_lang = "ts"
    PROVE  /\ IsWorker(c_worker) /\ c_worker.conn \in Conns /\ NetTypes /\ c_issued \in Nat
           /\ Made \subseteq Calls /\ (\A x \in Made : x <= c_issued /\ x # 0)
           /\ FlushesOK(c_tasks, c_worker.queue, Made) /\ List(c_worker.queue) /\ Range(c_worker.queue) \subseteq Made
           /\ 0 \notin Range(c_worker.queue) /\ Unsent = Range(c_worker.queue) \cup Nexts(c_tasks)
           /\ \A x \in Nexts(c_tasks) : x \notin Range(c_worker.queue)
<1>1. /\ c_issued \in 0 .. NCalls /\ NCalls \in Nat
  BY NoCalls DEF TsTypes, NetTypes
<1>2. \A x \in Made : x <= c_issued /\ x # 0 /\ x \in Calls
  BY <1>1 DEF Made, Calls
<1>3. \A x \in Nexts(c_tasks) : x \notin Range(c_worker.queue)
  BY DEF TsTypes, FlushesOK, FlushOK, Nexts
<1> QED BY <1>1, <1>2, <1>3, TsUnsent DEF TsTypes

\* What is left to show of a step that ends with tasks s and queue q.
LEMMA TsEnds ==
    ASSUME TsTypes, c_lang = "ts", NetTypes', c_op' = c_op, c_lang' = c_lang,
           UNCHANGED <<s_busy, s_done, s_idem, s_excused>>, c_issued' \in Nat, c_issued <= c_issued',
           IsWorker(c_worker'), c_worker'.conn \in Conns,
           List(c_worker'.queue), Range(c_worker'.queue) \subseteq Made',
           FlushesOK(c_tasks', c_worker'.queue, Made'),
           \A x \in Range(c_worker'.queue) \cup Nexts(c_tasks') : x \in Unsent \/ x = 0 \/ (c_issued < x /\ x <= c_issued'),
           \/ n_out' = n_out
           \/ \E c \in Conns, run \in Runs :
                /\ n_out' = [n_out EXCEPT ![c] = Append(n_out[c], run)]
                /\ \A x \in Range(run) : Unrepeated(x) => x \in Unsent /\ x \notin Range(c_worker'.queue) \cup Nexts(c_tasks') /\ x <= c_issued
    PROVE  TsKept
<1>1. TsTypes'
  BY TsTypesKept
<1>2. DOMAIN c_tasks' = 1 .. Len(c_tasks')
  BY DEF FlushesOK
<1>3. Unsent' = Range(c_worker'.queue) \cup Nexts(c_tasks')
  BY <1>2 DEF Unsent, Nexts
<1> QED BY <1>1, <1>3 DEF TsKept

\* One turn of the loop: a run is taken off the queue and written.
LEMMA TsTakeKeeps ==
    ASSUME TsTypes, c_lang = "ts", NEW tasks, NEW next, NEW w,
           UNCHANGED <<c_lang, c_op, n_opened, n_up, n_in, s_busy, s_done, s_idem, s_excused>>,
           c_answer' = [x \in Calls |-> c_answer'[x]],
           c_issued' \in 0 .. NCalls, c_issued <= c_issued', Made \subseteq Made', Made' \subseteq Calls,
           Send(c_worker.conn, TsChunk(c_worker.queue), TsOverlap),
           c_tasks' = Append(tasks, TsListening(TsChunk(c_worker.queue), 1, c_worker.conn, TRUE, next)),
           c_worker' = [c_worker EXCEPT !.queue = SubSeq(c_worker.queue, Len(TsChunk(c_worker.queue)) + 1, Len(c_worker.queue)),
                                        !.sched = w],
           FlushesOK(tasks, c_worker.queue, Made), Nexts(tasks) \subseteq Nexts(c_tasks),
           next \in Made' \cup {0}, next = 0 \/ next \notin Nexts(tasks), next \notin Range(c_worker.queue),
           next \in Unsent \/ next = 0 \/ (c_issued < next /\ next <= c_issued')
    PROVE  TsKept
<1>0. /\ IsWorker(c_worker) /\ c_worker.conn \in Conns /\ NetTypes /\ c_issued \in Nat
      /\ Made \subseteq Calls /\ (\A x \in Made : x <= c_issued /\ x # 0)
      /\ List(c_worker.queue) /\ Range(c_worker.queue) \subseteq Made
      /\ 0 \notin Range(c_worker.queue) /\ Unsent = Range(c_worker.queue) \cup Nexts(c_tasks)
      /\ \A x \in Nexts(c_tasks) : x \notin Range(c_worker.queue)
  BY TsFacts
<1> DEFINE run == TsChunk(c_worker.queue)
           rest == SubSeq(c_worker.queue, Len(run) + 1, Len(c_worker.queue))
           t == TsListening(run, 1, c_worker.conn, TRUE, next)
<1>1. /\ Send(c_worker.conn, run, TsOverlap) /\ c_tasks' = Append(tasks, t)
      /\ c_worker' = [c_worker EXCEPT !.queue = rest, !.sched = w]
  OBVIOUS
<1>2. /\ run \in Runs /\ run = TsChunk(c_worker.queue)
      /\ rest = SubSeq(c_worker.queue, Len(run) + 1, Len(c_worker.queue))
  BY <1>0, ChunkFacts
<1>3. t \in TsTasks /\ t.pc = "read" /\ t.conn \in Conns /\ t.run = run /\ t.next = next
  <2>1. 1 \in {1, 2} /\ TRUE \in BOOLEAN /\ next \in Calls \cup {0} /\ c_worker.conn \in Conns
    BY <1>0
  <2> HIDE DEF run
  <2>2. Flushing(t, "read", run, c_worker.conn, next)
    BY <1>2, <2>1, ListeningFacts, Zenon
  <2> HIDE DEF t
  <2> QED BY <2>1, <2>2 DEF Flushing
<1> HIDE DEF run, rest, t
<1>4. TakesRun(c_worker.queue, Made, Made', tasks, next, t, run, rest)
  BY <1>0, <1>2, <1>3 DEF TakesRun
<1>5. /\ run \in Runs /\ List(rest) /\ Range(run) \cup Range(rest) = Range(c_worker.queue)
      /\ Range(run) \cap Range(rest) = {}
      /\ FlushesOK(Append(tasks, t), rest, Made') /\ Nexts(Append(tasks, t)) = Nexts(tasks) \cup {next}
  BY <1>4, TakeRunFacts
<1>6. /\ c_worker'.queue = rest /\ IsWorker(c_worker') /\ c_worker'.conn = c_worker.conn
  BY <1>0, <1>1 DEF IsWorker
<1>7. /\ n_out' = n_out \/ n_out' = [n_out EXCEPT ![c_worker.conn] = Append(n_out[c_worker.conn], run)]
      /\ n_out' \in [Conns -> Seq(Runs)]
  BY <1>0, <1>1, <1>5, SendTypes
<1>8. NetTypes'
  BY <1>0, <1>7 DEF NetTypes
<1>9. \A x \in Range(run) : x \in Unsent /\ x \notin Range(rest) \cup Nexts(tasks) \cup {next} /\ x <= c_issued
  BY <1>0, <1>5
<1>10. \A x \in Range(rest) \cup Nexts(tasks) \cup {next} : x \in Unsent \/ x = 0 \/ (c_issued < x /\ x <= c_issued')
  BY <1>0, <1>5
<1>11. Nexts(c_tasks') = Nexts(tasks) \cup {next} /\ FlushesOK(c_tasks', c_worker'.queue, Made')
  BY <1>1, <1>5, <1>6
<1>12. c_issued' \in Nat /\ Range(rest) \subseteq Made'
  BY <1>0, <1>5, NoCalls
<1> QED BY <1>0, <1>5, <1>6, <1>7, <1>8, <1>9, <1>10, <1>11, <1>12, TsEnds

LEMMA TsImmediateKeeps ==
    ASSUME TsTypes, c_lang = "ts", TsImmediate PROVE TsKept
<1>a. /\ UNCHANGED <<c_lang, c_op, c_issued, c_answer, n_opened, n_up, n_in, s_busy, s_done, s_idem, s_excused>>
      /\ Made' = Made
  BY DEF TsImmediate, server_vars, Made
<1>0. /\ IsWorker(c_worker) /\ c_worker.conn \in Conns /\ NetTypes /\ c_issued \in Nat /\ c_issued \in 0 .. NCalls
      /\ Made \subseteq Calls /\ c_answer = [x \in Calls |-> c_answer[x]]
      /\ FlushesOK(c_tasks, c_worker.queue, Made) /\ List(c_worker.queue) /\ Range(c_worker.queue) \subseteq Made
      /\ 0 \notin Range(c_worker.queue) /\ Unsent = Range(c_worker.queue) \cup Nexts(c_tasks)
  BY TsFacts DEF NetTypes
<1>b. c_issued <= c_issued' /\ c_answer' = [x \in Calls |-> c_answer'[x]]
  BY <1>0, <1>a
<1>1. CASE c_worker.queue # <<>> /\ ~c_worker.closed
  <2>1. /\ Send(c_worker.conn, TsChunk(c_worker.queue), TsOverlap)
        /\ c_tasks' = Append(c_tasks, TsListening(TsChunk(c_worker.queue), 1, c_worker.conn, TRUE, 0))
        /\ c_worker' = [c_worker EXCEPT !.queue = SubSeq(c_worker.queue, Len(TsChunk(c_worker.queue)) + 1, Len(c_worker.queue)),
                                        !.sched = FALSE]
    <3>1. c_worker' = [c_worker EXCEPT !.sched = FALSE, !.queue = SubSeq(c_worker.queue, Len(TsChunk(c_worker.queue)) + 1, Len(c_worker.queue))]
      BY <1>1 DEF TsImmediate
    <3> QED BY <1>1, <3>1 DEF TsImmediate
  <2>2. \A tasks : tasks = c_tasks => TsKept
    BY <1>0, <1>a, <1>b, <2>1, TsTakeKeeps
  <2> QED BY <2>2
<1>2. CASE ~(c_worker.queue # <<>> /\ ~c_worker.closed)
  <2>1. c_worker' = [c_worker EXCEPT !.sched = FALSE] /\ UNCHANGED <<c_tasks, n_out>>
    BY <1>2 DEF TsImmediate
  <2>2. c_worker'.queue = c_worker.queue /\ IsWorker(c_worker') /\ c_worker'.conn = c_worker.conn
    BY <1>0, <2>1 DEF IsWorker
  <2>3. NetTypes'
    BY <1>0, <1>a, <2>1 DEF NetTypes
  <2> QED BY <1>0, <1>a, <1>b, <2>1, <2>2, <2>3, TsEnds
<1> QED BY <1>1, <1>2

LEMMA FlushPut ==
    ASSUME NEW s, NEW q, NEW M, FlushesOK(s, q, M), NEW i \in 1 .. Len(s), NEW t, FlushOK(t, q, M), t.next = s[i].next
    PROVE  FlushesOK([s EXCEPT ![i] = t], q, M) /\ Nexts([s EXCEPT ![i] = t]) = Nexts(s)
<1> DEFINE r == [s EXCEPT ![i] = t]
<1>1. s \in Seq(TsTasks) /\ t \in TsTasks
  BY DEF FlushesOK, FlushOK
<1>2. r \in Seq(TsTasks) /\ Len(r) = Len(s) /\ \A j \in 1 .. Len(s) : r[j] = IF j = i THEN t ELSE s[j]
  BY <1>1
<1> HIDE DEF r
<1>3. \A j \in 1 .. Len(s) : FlushOK(r[j], q, M) /\ r[j].next = s[j].next
  BY <1>2 DEF FlushesOK
<1>4. FlushesOK(r, q, M) /\ Nexts(r) = Nexts(s)
  BY <1>2, <1>3, FlushMap
<1> QED BY <1>4 DEF r

\* A flush that goes on, or is to be resent.
LEMMA FlushPaused ==
    \A u, q, M : FlushOK(u, q, M) =>
      /\ FlushOK(TsPaused("loop", <<>>, u.loop, u.next), q, M)
      /\ TsPaused("loop", <<>>, u.loop, u.next).next = u.next
      /\ (\A x \in Range(u.run) : ~Unrepeated(x)) =>
           /\ FlushOK(TsPaused("reconnect", u.run, u.loop, u.next), q, M)
           /\ TsPaused("reconnect", u.run, u.loop, u.next).next = u.next
<1> TAKE u, q, M
<1> HAVE FlushOK(u, q, M)
<1> DEFINE a == TsPaused("loop", <<>>, u.loop, u.next)
           b == TsPaused("reconnect", u.run, u.loop, u.next)
<1>1. u \in TsTasks /\ Range(u.run) \subseteq M /\ u.next \in M \cup {0} /\ u.next \notin Range(q)
  BY DEF FlushOK
<1>2. u.run \in Runs /\ u.loop \in BOOLEAN /\ u.next \in Calls \cup {0}
  BY <1>1 DEF TsTasks
<1>3. <<>> \in Runs /\ Range(<<>>) = {} /\ "loop" \in {"loop", "reconnect"} /\ "reconnect" \in {"loop", "reconnect"}
  BY NoCalls DEF Runs
<1>4. Flushing(a, "loop", <<>>, 0, u.next)
  BY <1>2, <1>3, PausedFacts, Zenon
<1>5. Flushing(b, "reconnect", u.run, 0, u.next)
  BY <1>2, <1>3, PausedFacts, Zenon
<1> HIDE DEF a, b
<1>6. FlushOK(a, q, M) /\ a.next = u.next
  BY <1>1, <1>3, <1>4 DEF FlushOK, Flushing
<1>7. (\A x \in Range(u.run) : ~Unrepeated(x)) => FlushOK(b, q, M) /\ b.next = u.next
  BY <1>1, <1>5 DEF FlushOK, Flushing
<1> QED BY <1>6, <1>7 DEF a, b

(* A call joins the queue, or is written at once if it is not batched.     *)
LEMMA TsIssue ==
    ASSUME TsTypes, c_lang = "ts", Issue PROVE TsKept
<1> DEFINE x == c_issued + 1
<1>0. /\ x \in Calls /\ x \in DOMAIN c_op /\ c_issued' = x
      /\ UNCHANGED <<c_lang, c_op, n_opened, n_up, n_in, s_busy, s_done, s_idem, s_excused>>
  BY DEF Issue, server_vars
<1>1. /\ IsWorker(c_worker) /\ c_worker.conn \in Conns /\ NetTypes /\ c_issued \in Nat
      /\ Made \subseteq Calls /\ (\A y \in Made : y <= c_issued /\ y # 0)
      /\ FlushesOK(c_tasks, c_worker.queue, Made) /\ List(c_worker.queue) /\ Range(c_worker.queue) \subseteq Made
      /\ Unsent = Range(c_worker.queue) \cup Nexts(c_tasks)
      /\ c_answer = [y \in Calls |-> c_answer[y]]
  BY TsFacts DEF NetTypes
<1>2. /\ Made' = Made \cup {x} /\ x \notin Made /\ c_issued' \in 0 .. NCalls /\ c_issued' \in Nat /\ c_issued <= c_issued'
      /\ c_issued < x /\ x <= c_issued' /\ Made' \subseteq Calls
  <2>1. x \in 1 .. NCalls /\ NCalls \in Nat
    BY <1>0, NoCalls DEF Calls
  <2>2. \A y : y \in 1 .. x <=> y \in 1 .. c_issued \/ y = x
    BY <1>1, <2>1
  <2>3. Made' = Made \cup {x}
    BY <1>0, <2>2 DEF Made
  <2>4. x \notin Made
    BY <1>1
  <2> QED BY <1>0, <1>1, <2>1, <2>3, <2>4
<1>3. \A y \in Nexts(c_tasks) : y \in Made \cup {0}
  BY <1>1 DEF Nexts, FlushesOK, FlushOK
<1>4. x \notin Nexts(c_tasks) /\ x \notin Range(c_worker.queue) /\ x # 0
  BY <1>1, <1>2, <1>3
<1>5. NetTypes /\ c_answer' = [y \in Calls |-> c_answer'[y]] /\ n_out' \in [Conns -> Seq(Runs)] => NetTypes'
  BY <1>0, <1>2 DEF NetTypes
<1>6. c_answer' = [y \in Calls |-> c_answer'[y]]
  BY <1>1 DEF Issue, Refused
<1> HIDE DEF x
<1>7. CASE c_worker.closed
  <2>1. UNCHANGED <<c_worker, c_tasks, n_out>>
    BY <1>7 DEF Issue
  <2>2. NetTypes'
    BY <1>1, <1>5, <1>6, <2>1 DEF NetTypes
  <2>3. FlushesOK(c_tasks, c_worker.queue, Made')
    BY <1>1, <1>2, FlushLess
  <2>4. Range(c_worker'.queue) \subseteq Made' /\ FlushesOK(c_tasks', c_worker'.queue, Made')
    BY <1>1, <1>2, <2>1, <2>3
  <2> QED BY <1>0, <1>1, <1>2, <2>1, <2>2, <2>4, TsEnds
<1>8. CASE ~c_worker.closed
  <2>0. TsExec(x) /\ c_answer' = c_answer
    BY <1>8 DEF Issue, x
  <2>1. CASE TsOps[c_op[x]].direct /\ c_worker.queue # <<>>
    <3>1. TsTakeRun(c_tasks, x)
      BY <2>0, <2>1 DEF TsExec
    <3>2. PICK tasks, next, w : tasks = c_tasks /\ next = x /\ w = c_worker.sched
      OBVIOUS
    <3>3. /\ Send(c_worker.conn, TsChunk(c_worker.queue), TsOverlap)
          /\ c_tasks' = Append(tasks, TsListening(TsChunk(c_worker.queue), 1, c_worker.conn, TRUE, next))
          /\ c_worker' = [c_worker EXCEPT !.queue = SubSeq(c_worker.queue, Len(TsChunk(c_worker.queue)) + 1, Len(c_worker.queue)),
                                          !.sched = w]
      BY <3>1, <3>2 DEF TsTakeRun
    <3>4. /\ FlushesOK(tasks, c_worker.queue, Made) /\ Nexts(tasks) \subseteq Nexts(c_tasks)
          /\ next \in Made' \cup {0} /\ next \notin Nexts(tasks) /\ next \notin Range(c_worker.queue)
          /\ c_issued < next /\ next <= c_issued' /\ Made \subseteq Made'
      BY <1>1, <1>2, <1>4, <3>2
    <3> QED BY <1>0, <1>2, <1>6, <3>3, <3>4, TsTakeKeeps
  <2>2. CASE TsOps[c_op[x]].direct /\ c_worker.queue = <<>>
    <3> DEFINE t == TsPaused("loop", <<>>, FALSE, x)
    <3>1. c_tasks' = Append(c_tasks, t) /\ UNCHANGED <<c_worker, n_out>>
      BY <2>0, <2>2 DEF TsExec
    <3>2. Flushing(t, "loop", <<>>, 0, x)
      <4>1. <<>> \in Runs /\ FALSE \in BOOLEAN /\ x \in Calls \cup {0} /\ "loop" \in {"loop", "reconnect"}
        BY <1>0, NoCalls DEF Runs
      <4> QED BY <4>1, PausedFacts, Zenon
    <3> HIDE DEF t
    <3>3. FlushOK(t, c_worker.queue, Made') /\ t.next = x
      BY <1>2, <1>4, <3>2, NoCalls DEF FlushOK, Flushing
    <3>4. FlushesOK(c_tasks, c_worker.queue, Made')
      BY <1>1, <1>2, FlushLess
    <3>5. FlushesOK(Append(c_tasks, t), c_worker.queue, Made') /\ Nexts(Append(c_tasks, t)) = Nexts(c_tasks) \cup {t.next}
      BY <1>4, <3>3, <3>4, FlushAppend
    <3>6. NetTypes'
      BY <1>1, <1>5, <1>6, <3>1 DEF NetTypes
    <3>7. /\ Range(c_worker'.queue) \subseteq Made' /\ FlushesOK(c_tasks', c_worker'.queue, Made')
          /\ Nexts(c_tasks') = Nexts(c_tasks) \cup {x}
      BY <1>1, <1>2, <3>1, <3>3, <3>5
    <3> QED BY <1>0, <1>1, <1>2, <3>1, <3>6, <3>7, TsEnds
  <2>3. CASE ~TsOps[c_op[x]].direct
    <3>1. c_worker' = [c_worker EXCEPT !.queue = Append(c_worker.queue, x), !.sched = TRUE] /\ UNCHANGED <<c_tasks, n_out>>
      BY <2>0, <2>3 DEF TsExec
    <3>2. c_worker'.queue = Append(c_worker.queue, x) /\ IsWorker(c_worker') /\ c_worker'.conn = c_worker.conn
      BY <1>1, <3>1 DEF IsWorker
    <3>3. List(Append(c_worker.queue, x)) /\ Range(Append(c_worker.queue, x)) = Range(c_worker.queue) \cup {x}
      <4>1. x \in 1 .. NCalls /\ NCalls \in Nat /\ Incr(c_worker.queue, NCalls) /\ \A y \in Range(c_worker.queue) : y < x
        BY <1>0, <1>1, <1>2, NoCalls DEF Calls, List
      <4> QED BY <4>1, IncrAppend DEF List
    <3>4. FlushesOK(c_tasks, Append(c_worker.queue, x), Made')
      <4>1. \A i \in 1 .. Len(c_tasks) : c_tasks[i].next # x
        BY <1>4 DEF Nexts
      <4> QED BY <1>1, <1>2, <3>3, <4>1 DEF FlushesOK, FlushOK
    <3>6. NetTypes'
      BY <1>1, <1>5, <1>6, <3>1 DEF NetTypes
    <3>7. /\ Range(c_worker'.queue) \subseteq Made' /\ FlushesOK(c_tasks', c_worker'.queue, Made')
          /\ Range(c_worker'.queue) \cup Nexts(c_tasks') = Unsent \cup {x}
      BY <1>1, <1>2, <3>1, <3>2, <3>3, <3>4
    <3> QED BY <1>0, <1>1, <1>2, <3>1, <3>2, <3>3, <3>6, <3>7, TsEnds
  <2> QED BY <2>1, <2>2, <2>3
<1> QED BY <1>7, <1>8

TsStays == UNCHANGED <<c_lang, c_op, c_issued, s_busy, s_done, s_idem, s_excused>>

LEMMA TsStayed ==
    ASSUME TsTypes, c_lang = "ts", TsStays
    PROVE  /\ IsWorker(c_worker) /\ c_worker.conn \in Conns /\ NetTypes /\ c_issued \in Nat /\ c_issued \in 0 .. NCalls
           /\ Made \subseteq Calls /\ (\A x \in Made : x <= c_issued /\ x # 0) /\ Made' = Made
           /\ FlushesOK(c_tasks, c_worker.queue, Made) /\ List(c_worker.queue) /\ Range(c_worker.queue) \subseteq Made
           /\ 0 \notin Range(c_worker.queue) /\ Unsent = Range(c_worker.queue) \cup Nexts(c_tasks)
           /\ (\A x \in Nexts(c_tasks) : x \notin Range(c_worker.queue))
           /\ c_answer = [x \in Calls |-> c_answer[x]]
           /\ c_lang' = c_lang /\ c_op' = c_op /\ UNCHANGED <<s_busy, s_done, s_idem, s_excused>>
           /\ c_issued' \in Nat /\ c_issued' \in 0 .. NCalls /\ c_issued <= c_issued'
<1>1. /\ UNCHANGED <<c_lang, c_op, c_issued, s_busy, s_done, s_idem, s_excused>> /\ Made' = Made
  BY DEF TsStays, Made
<1>2. /\ IsWorker(c_worker) /\ c_worker.conn \in Conns /\ NetTypes /\ c_issued \in Nat
           /\ Made \subseteq Calls /\ (\A x \in Made : x <= c_issued /\ x # 0)
           /\ FlushesOK(c_tasks, c_worker.queue, Made) /\ List(c_worker.queue) /\ Range(c_worker.queue) \subseteq Made
           /\ 0 \notin Range(c_worker.queue) /\ Unsent = Range(c_worker.queue) \cup Nexts(c_tasks)
           /\ \A x \in Nexts(c_tasks) : x \notin Range(c_worker.queue)
  BY TsFacts
<1>3. c_answer = [x \in Calls |-> c_answer[x]] /\ c_issued \in 0 .. NCalls
  BY <1>2 DEF NetTypes
<1> QED BY <1>1, <1>2, <1>3

LEMMA TsNetTypes ==
    ASSUME NetTypes, TsStays, c_answer' = [x \in Calls |-> c_answer'[x]],
           n_opened' \in Conns, n_up' \in [Conns -> BOOLEAN],
           n_in' \in [Conns -> Seq(ResponsePieces)], n_out' \in [Conns -> Seq(Runs)]
    PROVE  NetTypes'
  BY DEF NetTypes, TsStays

\* A step that only rearranges the flushes and shortens the queue.
LEMMA TsQuiet ==
    ASSUME TsTypes, c_lang = "ts", TsStays, n_out' = n_out, c_answer' = [x \in Calls |-> c_answer'[x]],
           n_opened' \in Conns, n_up' \in [Conns -> BOOLEAN], n_in' \in [Conns -> Seq(ResponsePieces)],
           IsWorker(c_worker'), c_worker'.conn \in Conns,
           List(c_worker'.queue), Range(c_worker'.queue) \subseteq Range(c_worker.queue),
           FlushesOK(c_tasks', c_worker.queue, Made), Nexts(c_tasks') \subseteq Nexts(c_tasks)
    PROVE  TsKept
<1>1. /\ NetTypes /\ Made' = Made /\ Range(c_worker.queue) \subseteq Made /\ Unsent = Range(c_worker.queue) \cup Nexts(c_tasks)
      /\ c_lang' = c_lang /\ c_op' = c_op /\ UNCHANGED <<s_busy, s_done, s_idem, s_excused>>
      /\ c_issued' \in Nat /\ c_issued <= c_issued'
  BY TsStayed
<1>2. NetTypes'
  BY <1>1, TsNetTypes DEF NetTypes
<1>3. FlushesOK(c_tasks', c_worker'.queue, Made')
  BY <1>1, FlushLess
<1> QED BY <1>1, <1>2, <1>3, TsEnds

LEMMA TsTimerKeeps ==
    ASSUME TsTypes, c_lang = "ts", NEW x \in Calls, TsTimer(x) PROVE TsKept
<1>1. /\ TsStays /\ UNCHANGED <<c_tasks, n_out, n_opened, n_up, n_in>>
      /\ c_worker' = [c_worker EXCEPT !.queue = Without(c_worker.queue, {x})]
      /\ c_answer' = [y \in Calls |-> c_answer'[y]]
  BY DEF TsTimer, TsStays, net_vars, server_vars, Refused
<1>2. /\ IsWorker(c_worker) /\ c_worker.conn \in Conns /\ NetTypes /\ List(c_worker.queue)
      /\ FlushesOK(c_tasks, c_worker.queue, Made)
  BY <1>1, TsStayed
<1>3. /\ c_worker'.queue = Without(c_worker.queue, {x}) /\ IsWorker(c_worker') /\ c_worker'.conn = c_worker.conn
  BY <1>1, <1>2 DEF IsWorker
<1>4. List(Without(c_worker.queue, {x})) /\ Range(Without(c_worker.queue, {x})) \subseteq Range(c_worker.queue)
  BY <1>2, NoCalls, WithoutFacts DEF List
<1>5. n_opened' \in Conns /\ n_up' \in [Conns -> BOOLEAN] /\ n_in' \in [Conns -> Seq(ResponsePieces)]
  BY <1>1, <1>2 DEF NetTypes
<1> QED BY <1>1, <1>2, <1>3, <1>4, <1>5, TsQuiet

LEMMA TsCloseKeeps ==
    ASSUME TsTypes, c_lang = "ts", TsClose PROVE TsKept
<1>1. /\ TsStays /\ UNCHANGED <<c_tasks, n_out, n_opened>>
      /\ c_worker' = [c_worker EXCEPT !.closed = TRUE, !.queue = <<>>]
      /\ n_up' = [n_up EXCEPT ![c_worker.conn] = FALSE]
      /\ n_in' = [n_in EXCEPT ![c_worker.conn] = <<>>]
      /\ c_answer' = [y \in Calls |-> c_answer'[y]]
  BY DEF TsClose, TsStays, server_vars, Refused
<1>2. /\ IsWorker(c_worker) /\ c_worker.conn \in Conns /\ NetTypes
      /\ FlushesOK(c_tasks, c_worker.queue, Made)
  BY <1>1, TsStayed
<1>3. /\ c_worker'.queue = <<>> /\ IsWorker(c_worker') /\ c_worker'.conn = c_worker.conn
  BY <1>1, <1>2 DEF IsWorker
<1>4. List(<<>>) /\ Range(<<>>) \subseteq Range(c_worker.queue)
  BY NoCalls
<1>5. n_opened' \in Conns /\ n_up' \in [Conns -> BOOLEAN] /\ n_in' \in [Conns -> Seq(ResponsePieces)]
  BY <1>1, <1>2 DEF NetTypes
<1> QED BY <1>1, <1>2, <1>3, <1>4, <1>5, TsQuiet

LEMMA TsClosedKeeps ==
    ASSUME TsTypes, c_lang = "ts", NEW i \in DOMAIN c_tasks, TsClosed(i) PROVE TsKept
<1>1. /\ TsStays /\ UNCHANGED <<c_worker, n_out, n_opened, n_up, n_in>>
  BY DEF TsClosed, TsStays, net_vars, server_vars
<1>2. /\ IsWorker(c_worker) /\ c_worker.conn \in Conns /\ NetTypes /\ List(c_worker.queue) /\ Made \subseteq Calls
      /\ FlushesOK(c_tasks, c_worker.queue, Made) /\ c_answer = [x \in Calls |-> c_answer[x]]
  BY <1>1, TsStayed
<1>3. c_answer' = [y \in Calls |-> c_answer'[y]]
  BY <1>2 DEF TsClosed, Refused
<1>4. i \in 1 .. Len(c_tasks) /\ FlushOK(c_tasks[i], c_worker.queue, Made)
  BY <1>2 DEF FlushesOK
<1>5. PICK u : u = c_tasks[i]
  OBVIOUS
<1>6. PICK t : /\ c_tasks' = [c_tasks EXCEPT ![i] = t] /\ FlushOK(t, c_worker.queue, Made) /\ t.next = c_tasks[i].next
  <2>1. CASE u.try = 1 /\ TsRetrySafe(u.run)
    <3>1. c_tasks' = [c_tasks EXCEPT ![i] = TsPaused("reconnect", u.run, u.loop, u.next)]
      BY <1>5, <2>1 DEF TsClosed
    <3>2. \A x \in Range(u.run) : ~Unrepeated(x)
      <4> SUFFICES ASSUME NEW x \in Range(u.run) PROVE ~Unrepeated(x)
        OBVIOUS
      <4>1. x \in Made
        BY <1>4, <1>5 DEF FlushOK
      <4>2. c_op[x] \in DOMAIN TsOps
        BY <1>2, <4>1, LangsAssumption DEF NetTypes, Methods, Made
      <4>3. TsOps[c_op[x]].safe
        BY <2>1 DEF TsRetrySafe
      <4> QED BY <4>2, <4>3, TsMethods DEF Unrepeated
    <3>3. FlushOK(TsPaused("reconnect", u.run, u.loop, u.next), c_worker.queue, Made) /\ TsPaused("reconnect", u.run, u.loop, u.next).next = u.next
      BY <1>4, <1>5, <3>2, FlushPaused
    <3> QED BY <1>5, <3>1, <3>3
  <2>2. CASE ~(u.try = 1 /\ TsRetrySafe(u.run))
    <3>1. c_tasks' = [c_tasks EXCEPT ![i] = TsPaused("loop", <<>>, u.loop, u.next)]
      BY <1>5, <2>2 DEF TsClosed
    <3>3. FlushOK(TsPaused("loop", <<>>, u.loop, u.next), c_worker.queue, Made) /\ TsPaused("loop", <<>>, u.loop, u.next).next = u.next
      BY <1>4, <1>5, FlushPaused
    <3> QED BY <1>5, <3>1, <3>3
  <2> QED BY <2>1, <2>2
<1>7. FlushesOK(c_tasks', c_worker.queue, Made) /\ Nexts(c_tasks') = Nexts(c_tasks)
  <2>1. PICK s, q, M : s = c_tasks /\ q = c_worker.queue /\ M = Made
    OBVIOUS
  <2>2. FlushesOK(s, q, M) /\ i \in 1 .. Len(s) /\ FlushOK(t, q, M) /\ t.next = s[i].next
    BY <1>2, <1>4, <1>6, <2>1
  <2>3. FlushesOK([s EXCEPT ![i] = t], q, M) /\ Nexts([s EXCEPT ![i] = t]) = Nexts(s)
    BY <2>2, FlushPut
  <2> QED BY <1>6, <2>1, <2>3
<1>8. n_opened' \in Conns /\ n_up' \in [Conns -> BOOLEAN] /\ n_in' \in [Conns -> Seq(ResponsePieces)]
  BY <1>1, <1>2 DEF NetTypes
<1> QED BY <1>1, <1>2, <1>3, <1>7, <1>8, TsQuiet

\* The i-th flush begins to listen again: it moves to the end.
LEMMA FlushAgain ==
    \A s, q, M, i, t :
      FlushesOK(s, q, M) /\ i \in 1 .. Len(s) /\ FlushOK(t, q, M) /\ (t.next = 0 \/ t.next = s[i].next)
      => /\ FlushesOK(Append(RemoveAt(s, i), t), q, M)
         /\ Nexts(Append(RemoveAt(s, i), t)) \subseteq Nexts(s) \cup {0}
         /\ t.next = 0 /\ s[i].next # 0 => s[i].next \notin Nexts(Append(RemoveAt(s, i), t))
<1> TAKE s, q, M, i, t
<1> HAVE FlushesOK(s, q, M) /\ i \in 1 .. Len(s) /\ FlushOK(t, q, M) /\ (t.next = 0 \/ t.next = s[i].next)
<1> DEFINE r == RemoveAt(s, i)
<1>1. FlushesOK(r, q, M) /\ Nexts(r) \subseteq Nexts(s) /\ (s[i].next = 0 \/ s[i].next \notin Nexts(r))
  BY FlushRemove
<1> HIDE DEF r
<1>2. FlushesOK(Append(r, t), q, M) /\ Nexts(Append(r, t)) = Nexts(r) \cup {t.next}
  BY <1>1, FlushAppend
<1>3. s[i].next \in Nexts(s)
  BY DEF Nexts
<1> QED BY <1>1, <1>2, <1>3 DEF r

LEMMA TsContinueKeeps ==
    ASSUME TsTypes, c_lang = "ts", NEW i \in DOMAIN c_tasks, TsContinue(i) PROVE TsKept
<1>1. TsStays /\ UNCHANGED <<n_opened, n_up, n_in>>
  BY DEF TsContinue, TsStays, server_vars
<1>2. /\ IsWorker(c_worker) /\ c_worker.conn \in Conns /\ NetTypes /\ List(c_worker.queue) /\ Made \subseteq Calls
      /\ FlushesOK(c_tasks, c_worker.queue, Made) /\ c_answer = [x \in Calls |-> c_answer[x]]
      /\ Range(c_worker.queue) \subseteq Made /\ (\A x \in Made : x <= c_issued /\ x # 0) /\ Made' = Made
      /\ 0 \notin Range(c_worker.queue) /\ Unsent = Range(c_worker.queue) \cup Nexts(c_tasks)
      /\ (\A x \in Nexts(c_tasks) : x \notin Range(c_worker.queue))
      /\ c_lang' = c_lang /\ c_op' = c_op /\ UNCHANGED <<s_busy, s_done, s_idem, s_excused>>
      /\ c_issued' \in Nat /\ c_issued' \in 0 .. NCalls /\ c_issued <= c_issued'
  BY <1>1, TsStayed
<1>3. c_answer' = [y \in Calls |-> c_answer'[y]]
  BY <1>2 DEF TsContinue, Refused
<1>4. i \in 1 .. Len(c_tasks) /\ FlushOK(c_tasks[i], c_worker.queue, Made) /\ c_tasks[i].next \in Nexts(c_tasks)
  BY <1>2 DEF FlushesOK, Nexts
<1>5. PICK r, n, w : r = RemoveAt(c_tasks, i) /\ n = c_tasks[i].next /\ w = c_worker.sched
  OBVIOUS
<1>6. FlushesOK(r, c_worker.queue, Made) /\ Nexts(r) \subseteq Nexts(c_tasks) /\ (n = 0 \/ n \notin Nexts(r))
  BY <1>2, <1>4, <1>5, FlushRemove
<1>7. n \in Made \cup {0} /\ n \notin Range(c_worker.queue) /\ n \in Nexts(c_tasks) /\ (n = 0 \/ n \in Unsent)
  BY <1>2, <1>4, <1>5 DEF FlushOK
<1>8. CASE c_tasks[i].loop /\ c_worker.queue # <<>> /\ ~c_worker.closed
  <2>1. /\ Send(c_worker.conn, TsChunk(c_worker.queue), TsOverlap)
        /\ c_tasks' = Append(r, TsListening(TsChunk(c_worker.queue), 1, c_worker.conn, TRUE, n))
        /\ c_worker' = [c_worker EXCEPT !.queue = SubSeq(c_worker.queue, Len(TsChunk(c_worker.queue)) + 1, Len(c_worker.queue)),
                                        !.sched = w]
    BY <1>5, <1>8 DEF TsContinue, TsTakeRun
  <2> QED BY <1>1, <1>2, <1>3, <1>6, <1>7, <2>1, TsTakeKeeps
<1>9. CASE ~(c_tasks[i].loop /\ c_worker.queue # <<>> /\ ~c_worker.closed) /\ n # 0 /\ ~c_worker.closed
  <2> DEFINE t == TsListening(<<n>>, 1, c_worker.conn, FALSE, 0)
  <2>1. Send(c_worker.conn, <<n>>, TsOverlap) /\ c_tasks' = Append(r, t) /\ UNCHANGED c_worker
    BY <1>5, <1>9 DEF TsContinue
  <2>2. n \in Calls /\ <<n>> \in Runs /\ Range(<<n>>) = {n}
    BY <1>2, <1>7, <1>9, NoCalls, IncrOne DEF Runs, List, Calls
  <2>3. Flushing(t, "read", <<n>>, c_worker.conn, 0)
    <3>1. 1 \in {1, 2} /\ FALSE \in BOOLEAN /\ 0 \in Calls \cup {0} /\ c_worker.conn \in Conns
      BY <1>2
    <3> QED BY <2>2, <3>1, ListeningFacts, Zenon
  <2> HIDE DEF t
  <2>4. FlushOK(t, c_worker.queue, Made) /\ t.next = 0
    BY <1>2, <1>7, <1>9, <2>2, <2>3 DEF FlushOK, Flushing
  <2>5. FlushesOK(Append(r, t), c_worker.queue, Made) /\ Nexts(Append(r, t)) = Nexts(r) \cup {t.next}
    BY <1>6, <2>4, FlushAppend
  <2>6. /\ n_out' = n_out \/ n_out' = [n_out EXCEPT ![c_worker.conn] = Append(n_out[c_worker.conn], <<n>>)]
        /\ n_out' \in [Conns -> Seq(Runs)]
    <3>1. PICK run : run = <<n>>
      OBVIOUS
    <3>2. run \in Runs /\ Send(c_worker.conn, run, TsOverlap)
      BY <2>1, <2>2, <3>1
    <3>3. /\ n_out' = n_out \/ n_out' = [n_out EXCEPT ![c_worker.conn] = Append(n_out[c_worker.conn], run)]
          /\ n_out' \in [Conns -> Seq(Runs)]
      BY <1>2, <3>2, SendTypes
    <3> QED BY <3>1, <3>3
  <2>7. NetTypes'
    BY <1>1, <1>2, <1>3, <2>6, TsNetTypes DEF NetTypes
  <2>8. FlushesOK(c_tasks', c_worker'.queue, Made') /\ Nexts(c_tasks') = Nexts(r) \cup {0} /\ c_worker' = c_worker
    BY <1>2, <2>1, <2>4, <2>5
  <2>9. \A x \in Range(<<n>>) : x \in Unsent /\ x \notin Range(c_worker'.queue) \cup Nexts(c_tasks') /\ x <= c_issued
    BY <1>2, <1>6, <1>7, <1>9, <2>2, <2>8
  <2>10. \A x \in Range(c_worker'.queue) \cup Nexts(c_tasks') : x \in Unsent \/ x = 0
    BY <1>2, <1>6, <2>8
  <2>11. /\ IsWorker(c_worker') /\ c_worker'.conn \in Conns /\ List(c_worker'.queue) /\ Range(c_worker'.queue) \subseteq Made'
    BY <1>2, <2>8
  <2>12. \/ n_out' = n_out
         \/ \E c \in Conns, run \in Runs :
              /\ n_out' = [n_out EXCEPT ![c] = Append(n_out[c], run)]
              /\ \A x \in Range(run) : Unrepeated(x) => x \in Unsent /\ x \notin Range(c_worker'.queue) \cup Nexts(c_tasks') /\ x <= c_issued
    BY <1>2, <2>2, <2>6, <2>9
  <2> QED BY <1>2, <2>7, <2>8, <2>10, <2>11, <2>12, TsEnds
<1>10. CASE ~(c_tasks[i].loop /\ c_worker.queue # <<>> /\ ~c_worker.closed) /\ ~(n # 0 /\ ~c_worker.closed)
  <2>1. c_tasks' = r /\ UNCHANGED <<c_worker, n_out>>
    BY <1>5, <1>10 DEF TsContinue
  <2>2. n_opened' \in Conns /\ n_up' \in [Conns -> BOOLEAN] /\ n_in' \in [Conns -> Seq(ResponsePieces)]
    BY <1>1, <1>2 DEF NetTypes
  <2>3. FlushesOK(c_tasks', c_worker.queue, Made) /\ Nexts(c_tasks') \subseteq Nexts(c_tasks)
    BY <1>6, <2>1
  <2> QED BY <1>1, <1>2, <1>3, <2>1, <2>2, <2>3, TsQuiet
<1> QED BY <1>8, <1>9, <1>10

LEMMA TsReconnectKeeps ==
    ASSUME TsTypes, c_lang = "ts", NEW i \in DOMAIN c_tasks, TsReconnect(i) PROVE TsKept
<1>1. TsStays
  BY DEF TsReconnect, TsStays, server_vars
<1>2. /\ IsWorker(c_worker) /\ c_worker.conn \in Conns /\ NetTypes /\ List(c_worker.queue) /\ Made \subseteq Calls
      /\ FlushesOK(c_tasks, c_worker.queue, Made) /\ c_answer = [x \in Calls |-> c_answer[x]]
      /\ Range(c_worker.queue) \subseteq Made /\ (\A x \in Made : x <= c_issued /\ x # 0) /\ Made' = Made
      /\ Unsent = Range(c_worker.queue) \cup Nexts(c_tasks)
      /\ c_lang' = c_lang /\ c_op' = c_op /\ UNCHANGED <<s_busy, s_done, s_idem, s_excused>>
      /\ c_issued' \in Nat /\ c_issued' \in 0 .. NCalls /\ c_issued <= c_issued'
  BY <1>1, TsStayed
<1>3. c_answer' = [y \in Calls |-> c_answer'[y]]
  BY <1>2 DEF TsReconnect, Refused
<1>4. i \in 1 .. Len(c_tasks) /\ FlushOK(c_tasks[i], c_worker.queue, Made)
  BY <1>2 DEF FlushesOK
<1>5. PICK s, q, M, u : s = c_tasks /\ q = c_worker.queue /\ M = Made /\ u = c_tasks[i]
  OBVIOUS
<1>6. FlushesOK(s, q, M) /\ i \in 1 .. Len(s) /\ FlushOK(u, q, M) /\ u = s[i] /\ u.pc = "reconnect"
  BY <1>2, <1>4, <1>5 DEF TsReconnect
<1>7. CASE /\ Reconnected(c_worker.conn)
           /\ c_worker' = [c_worker EXCEPT !.conn = n_opened + 1]
           /\ c_tasks' = Append(RemoveAt(c_tasks, i), TsListening(u.run, 2, n_opened + 1, u.loop, u.next))
           /\ n_out' = [n_out EXCEPT ![n_opened + 1] = Append(n_out[n_opened + 1], u.run)]
  <2>1. /\ n_opened' = n_opened + 1 /\ n_opened + 1 \in Conns
        /\ n_up' \in [Conns -> BOOLEAN] /\ n_in' \in [Conns -> Seq(ResponsePieces)]
    BY <1>2, <1>7, ReconnectTypes
  <2>2. PICK c : c = n_opened + 1
    OBVIOUS
  <2>3. PICK t : t = TsListening(u.run, 2, c, u.loop, u.next)
    OBVIOUS
  <2>4. u.run \in Runs /\ u.loop \in BOOLEAN /\ u.next \in Calls \cup {0} /\ 2 \in {1, 2} /\ c \in Conns
    BY <1>6, <2>1, <2>2 DEF FlushOK, TsTasks
  <2>5. Flushing(t, "read", u.run, c, u.next)
    BY <2>3, <2>4, ListeningFacts, Zenon
  <2>6. FlushOK(t, q, M) /\ t.next = s[i].next
    BY <1>6, <2>4, <2>5 DEF FlushOK, Flushing
  <2>7. FlushesOK(Append(RemoveAt(s, i), t), q, M) /\ Nexts(Append(RemoveAt(s, i), t)) \subseteq Nexts(s) \cup {0}
    BY <1>6, <2>6, FlushAgain
  <2>8. c_worker'.queue = c_worker.queue /\ IsWorker(c_worker') /\ c_worker'.conn = c
    BY <1>2, <1>7, <2>2 DEF IsWorker
  <2>9. n_out' = [n_out EXCEPT ![c] = Append(n_out[c], u.run)] /\ n_out' \in [Conns -> Seq(Runs)]
    <3>1. n_out \in [Conns -> Seq(Runs)] /\ Append(n_out[c], u.run) \in Seq(Runs)
      BY <1>2, <2>4 DEF NetTypes
    <3> QED BY <1>7, <2>2, <3>1
  <2>10. NetTypes'
    BY <1>1, <1>2, <1>3, <2>1, <2>9, TsNetTypes
  <2>11. FlushesOK(c_tasks', c_worker'.queue, Made') /\ Nexts(c_tasks') \subseteq Nexts(c_tasks) \cup {0}
    BY <1>2, <1>5, <1>7, <2>2, <2>3, <2>7, <2>8
  <2>12. \A x \in Range(c_worker'.queue) \cup Nexts(c_tasks') : x \in Unsent \/ x = 0
    BY <1>2, <2>8, <2>11
  <2>13. \A x \in Range(u.run) : ~Unrepeated(x)
    BY <1>6 DEF FlushOK
  <2> QED BY <1>2, <2>4, <2>8, <2>9, <2>10, <2>11, <2>12, <2>13, TsEnds
<1>8. CASE /\ c_tasks' = [c_tasks EXCEPT ![i] = TsPaused("loop", <<>>, u.loop, u.next)]
           /\ UNCHANGED <<c_worker, n_opened, n_up, n_in, n_out>>
  <2>1. PICK t : t = TsPaused("loop", <<>>, u.loop, u.next)
    OBVIOUS
  <2>2. FlushOK(t, q, M) /\ t.next = s[i].next
    BY <1>6, <2>1, FlushPaused
  <2>3. FlushesOK([s EXCEPT ![i] = t], q, M) /\ Nexts([s EXCEPT ![i] = t]) = Nexts(s)
    BY <1>6, <2>2, FlushPut
  <2>4. FlushesOK(c_tasks', c_worker.queue, Made) /\ Nexts(c_tasks') \subseteq Nexts(c_tasks)
    BY <1>5, <1>8, <2>1, <2>3
  <2>5. n_opened' \in Conns /\ n_up' \in [Conns -> BOOLEAN] /\ n_in' \in [Conns -> Seq(ResponsePieces)]
    BY <1>2, <1>8 DEF NetTypes
  <2> QED BY <1>1, <1>2, <1>3, <1>8, <2>4, <2>5, TsQuiet
<1> QED BY <1>5, <1>7, <1>8 DEF TsReconnect

LEMMA TsDataKeeps ==
    ASSUME TsTypes, c_lang = "ts", NEW c \in Conns, TsData(c) PROVE TsKept
<1>1. TsStays /\ UNCHANGED <<n_opened, n_up, n_out>> /\ c_answer' = [y \in Calls |-> c_answer'[y]]
  BY DEF TsData, TsStays, server_vars
<1>2. /\ IsWorker(c_worker) /\ c_worker.conn \in Conns /\ NetTypes /\ List(c_worker.queue)
      /\ FlushesOK(c_tasks, c_worker.queue, Made)
  BY <1>1, TsStayed
<1>p. PICK k \in 1 .. Len(n_in[c]) : \E fed :
        /\ n_in' = Taken(c, k)
        /\ c_tasks' = [i \in 1 .. Len(c_tasks) |-> IF fed[i].out = "wait" THEN c_tasks[i] ELSE TsPaused("loop", <<>>, c_tasks[i].loop, c_tasks[i].next)]
        /\ c_worker' = [c_worker EXCEPT !.stash = fed[Len(c_tasks)].stash]
  BY Zenon DEF TsData
<1>3. PICK fed :
        /\ n_in' = Taken(c, k)
        /\ c_tasks' = [i \in 1 .. Len(c_tasks) |-> IF fed[i].out = "wait" THEN c_tasks[i] ELSE TsPaused("loop", <<>>, c_tasks[i].loop, c_tasks[i].next)]
        /\ c_worker' = [c_worker EXCEPT !.stash = fed[Len(c_tasks)].stash]
  BY <1>p, Zenon
<1>4. n_in' \in [Conns -> Seq(ResponsePieces)]
  <2>1. n_in \in [Conns -> Seq(ResponsePieces)] /\ n_in[c] \in Seq(ResponsePieces) /\ Len(n_in[c]) \in Nat
    BY <1>2 DEF NetTypes
  <2>2. SubSeq(n_in[c], k + 1, Len(n_in[c])) \in Seq(ResponsePieces)
    BY <2>1
  <2> QED BY <1>3, <2>1, <2>2 DEF Taken
<1>5. c_worker'.queue = c_worker.queue /\ IsWorker(c_worker') /\ c_worker'.conn = c_worker.conn
  BY <1>2, <1>3 DEF IsWorker
<1>6. FlushesOK(c_tasks', c_worker.queue, Made) /\ Nexts(c_tasks') = Nexts(c_tasks)
  <2>1. PICK s, q, M, r : s = c_tasks /\ q = c_worker.queue /\ M = Made /\ r = c_tasks'
    OBVIOUS
  <2>2. FlushesOK(s, q, M) /\ s \in Seq(TsTasks) /\ Len(s) \in Nat
    BY <1>2, <2>1 DEF FlushesOK
  <2>3. r = [i \in 1 .. Len(s) |-> IF fed[i].out = "wait" THEN s[i] ELSE TsPaused("loop", <<>>, s[i].loop, s[i].next)]
    BY <1>3, <2>1, Zenon
  <2>4. \A i \in 1 .. Len(s) : FlushOK(r[i], q, M) /\ r[i].next = s[i].next
    BY <2>2, <2>3, FlushPaused DEF FlushesOK
  <2>5. r \in Seq(TsTasks) /\ Len(r) = Len(s)
    <3>1. \A i \in 1 .. Len(s) : r[i] \in TsTasks
      BY <2>4 DEF FlushOK
    <3>2. DOMAIN r = 1 .. Len(s) /\ r = [i \in 1 .. Len(s) |-> r[i]]
      BY <2>3, Zenon
    <3> QED BY <2>2, <3>1, <3>2
  <2>6. FlushesOK(r, q, M) /\ Nexts(r) = Nexts(s)
    BY <2>2, <2>4, <2>5, FlushMap
  <2> QED BY <2>1, <2>6
<1>7. n_opened' \in Conns /\ n_up' \in [Conns -> BOOLEAN]
  BY <1>1, <1>2 DEF NetTypes
<1> QED BY <1>1, <1>2, <1>4, <1>5, <1>6, <1>7, TsQuiet

(* Any library.                                                            *)

(* What holds of the client in use.                                        *)
ClientOK == NetTypes /\ (c_lang = "ts" => TsTypes) /\ (c_lang # "ts" => WorkerTypes /\ Resending)

\* What a step outside the server does to the calls not yet written.
ClientKept ==
    /\ ClientOK'
    /\ UNCHANGED <<c_lang, c_op, s_busy, s_done, s_idem, s_excused>>
    /\ c_issued' \in Nat /\ c_issued <= c_issued'
    /\ \A x \in Unsent' : x \in Unsent \/ x = 0 \/ (c_issued < x /\ x <= c_issued')
    /\ \/ n_out' = n_out
       \/ \E c \in Conns, run \in Runs :
            /\ n_out' = [n_out EXCEPT ![c] = Append(n_out[c], run)]
            /\ \A x \in Range(run) : Unrepeated(x) => x \in Unsent /\ x \notin Unsent' /\ x <= c_issued

LEMMA ClientSame ==
    ASSUME ClientOK, UNCHANGED <<c_lang, c_op, c_issued, c_worker, c_tasks>>, NetTypes'
    PROVE  ClientOK' /\ Unsent' = Unsent
<1>1. Unsent' = Unsent /\ Made' = Made
  BY DEF Unsent, Held, Made
<1>2. CASE c_lang = "ts"
  <2>1. FlushesOK(c_tasks, c_worker.queue, Made)'
    <3>1. FlushesOK(c_tasks, c_worker.queue, Made)
      BY <1>2 DEF ClientOK, TsTypes
    <3> QED BY <1>1, <3>1 DEF FlushesOK, FlushOK, Unrepeated
  <2> QED BY <1>1, <1>2, <2>1 DEF ClientOK, TsTypes
<1>3. CASE c_lang # "ts"
  <2>1. WorkerOK(c_worker)' /\ Resending'
    BY <1>3 DEF ClientOK, WorkerTypes, WorkerOK, Batched, Resending, Unrepeated, Held, RunSet, Running
  <2>2. (Held(c_worker) \cup RunSet(c_worker))' \subseteq Made'
    BY <1>1, <1>3 DEF ClientOK, WorkerTypes, Held, RunSet, Running
  <2> QED BY <1>1, <1>3, <2>1, <2>2 DEF ClientOK, WorkerTypes
<1> QED BY <1>2, <1>3

LEMMA WorkerKeptClient ==
    ASSUME ClientOK, c_lang # "ts", WorkerKept, Resending'
    PROVE  ClientKept
<1>1. /\ WorkerTypes /\ c_issued \in Nat /\ UNCHANGED <<c_lang, c_op, c_issued, s_busy, s_done, s_idem, s_excused>> /\ WorkerTypes'
      /\ Unsent' \subseteq Unsent
  BY NoCalls DEF ClientOK, NetTypes, WorkerKept
<1>2. ClientOK' /\ c_issued <= c_issued' /\ c_issued' \in Nat
  BY <1>1 DEF ClientOK, WorkerTypes
<1>3. \A x \in Unsent : x <= c_issued
  <2>1. Unsent \subseteq Held(c_worker) \cup RunSet(c_worker)
    BY DEF Unsent, RunSet, Running
  <2> QED BY <1>1, <2>1 DEF WorkerTypes, Made
<1> QED BY <1>1, <1>2, <1>3 DEF ClientKept, WorkerKept

(* No step of a client writes a call again that may not be repeated.       *)
LEMMA ClientKeeps ==
    ASSUME ClientOK, Issue \/ ClientStep \/ (\E x \in Calls : Deadline(x)) \/ Close \/ UNCHANGED rpc_vars
    PROVE  ClientKept
<1>0. NetTypes /\ c_issued \in Nat /\ c_lang \in {"rust", "py", "go", "ts"}
  BY NoCalls, LangsAssumption DEF ClientOK, NetTypes
<1>1. CASE UNCHANGED rpc_vars
  <2>1. UNCHANGED <<c_lang, c_op, c_issued, c_answer, c_worker, c_tasks, n_opened, n_lost, n_up, n_out, n_in, s_busy, s_done, s_idem, s_excused>>
    BY <1>1 DEF rpc_vars, client_vars, net_vars, server_vars
  <2>2. NetTypes'
    BY <1>0, <2>1 DEF NetTypes
  <2>3. ClientOK' /\ Unsent' = Unsent
    BY <2>1, <2>2, ClientSame
  <2> QED BY <1>0, <2>1, <2>3 DEF ClientKept
<1>2. CASE c_lang = "ts" /\ ~UNCHANGED rpc_vars
  <2>1. TsTypes
    BY <1>2 DEF ClientOK
  <2>2. TsKept
    <3>1. CASE Issue
      BY <1>2, <2>1, <3>1, TsIssue
    <3>2. CASE ClientStep
      BY <1>2, <2>1, <3>2, TsImmediateKeeps, TsDataKeeps, TsContinueKeeps, TsClosedKeeps, TsReconnectKeeps DEF ClientStep, TsStep
    <3>3. CASE \E x \in Calls : Deadline(x)
      BY <1>2, <2>1, <3>3, TsTimerKeeps DEF Deadline
    <3>4. CASE Close
      BY <1>2, <2>1, <3>4, TsCloseKeeps DEF Close
    <3> QED BY <1>2, <3>1, <3>2, <3>3, <3>4
  <2>3. ClientOK'
    BY <1>2, <2>2 DEF TsKept, ClientOK, TsTypes
  <2> QED BY <2>2, <2>3 DEF TsKept, ClientKept
<1>3. CASE c_lang # "ts" /\ ~UNCHANGED rpc_vars
  <2>1. WorkerTypes /\ Resending
    BY <1>3 DEF ClientOK
  <2>2. CASE ClientStep
    <3>1. WorkerStep
      BY <1>0, <1>3, <2>1, <2>2, RustRefines, PyRefines, GoRefines DEF ClientStep
    <3> QED BY <1>3, <2>1, <3>1, WorkerKeeps, WorkerKeptClient
  <2>3. CASE Issue
    <3>1. /\ WorkerTypes' /\ UNCHANGED <<c_lang, c_op, n_out, s_busy, s_done, s_idem, s_excused>>
          /\ c_issued' = c_issued + 1 /\ Unsent' \subseteq Unsent \cup {c_issued + 1}
          /\ c_worker'.pc = c_worker.pc /\ c_worker'.try = c_worker.try /\ c_worker'.run = c_worker.run
      BY <1>3, <2>1, <2>3, WorkerIssue
    <3>2. Resending'
      BY <2>1, <3>1 DEF Resending, Unrepeated
    <3>3. c_issued' \in Nat /\ c_issued <= c_issued' /\ c_issued < c_issued + 1
      BY <1>0, <3>1
    <3> QED BY <1>3, <3>1, <3>2, <3>3 DEF ClientKept, ClientOK, WorkerTypes
  <2>4. CASE (\E x \in Calls : Deadline(x)) \/ Close
    <3>1. /\ WorkerTypes' /\ UNCHANGED <<c_lang, c_op, c_issued, n_out, s_busy, s_done, s_idem, s_excused>> /\ Unsent' = Unsent
          /\ c_worker'.pc = c_worker.pc /\ c_worker'.try = c_worker.try /\ c_worker'.run = c_worker.run
      BY <1>3, <2>1, <2>4, WorkerOther
    <3>2. Resending'
      BY <2>1, <3>1 DEF Resending, Unrepeated
    <3>3. c_issued' \in Nat /\ c_issued <= c_issued'
      BY <1>0, <3>1
    <3> QED BY <1>3, <3>1, <3>2, <3>3 DEF ClientKept, ClientOK, WorkerTypes
  <2> QED BY <1>3, <2>2, <2>3, <2>4
<1> QED BY <1>1, <1>2, <1>3

(* The inductive invariant.                                                *)
RpcInv == ClientOK /\ TasksOK /\ \A x \in Calls : Once(x) /\ KeyOnce(x)

(* The invariant holds at the start.                                       *)
LEMMA RpcInvInit == RpcInit => RpcInv
<1> SUFFICES ASSUME RpcInit PROVE RpcInv
  OBVIOUS
<1>0. 0 \in 0 .. NCalls /\ 1 \in Conns /\ NCalls \in Nat /\ List(<<>>) /\ Range(<<>>) = {}
  BY NoCalls, NetAssumption DEF Conns
<1>1. NetTypes
  <2>1. c_lang \in Langs /\ c_op \in Programs(c_lang) /\ c_issued \in 0 .. NCalls /\ n_opened \in Conns
    BY <1>0 DEF RpcInit
  <2>2. c_answer = [x \in Calls |-> c_answer[x]]
    BY DEF RpcInit
  <2>3. n_up \in [Conns -> BOOLEAN]
    BY DEF RpcInit
  <2>4. n_out \in [Conns -> Seq(Runs)] /\ n_in \in [Conns -> Seq(ResponsePieces)]
    BY DEF RpcInit
  <2>5. Idle \in Tasks
    BY NoCalls DEF Idle, Tasks, Runs
  <2>6. s_busy \in [Conns -> Tasks]
    BY <2>5 DEF RpcInit
  <2>7. s_done \in Seq(Calls) /\ s_idem \subseteq Calls /\ s_excused \subseteq Calls
    BY DEF RpcInit
  <2> QED BY <2>1, <2>2, <2>3, <2>4, <2>6, <2>7 DEF NetTypes
<1>2. /\ IsWorker(c_worker) /\ c_worker.conn = 1 /\ c_worker.queue = <<>> /\ c_worker.direct = <<>> /\ c_worker.cmds = <<>>
      /\ c_worker.run = <<>> /\ c_worker.try = 1 /\ c_worker.back = "idle" /\ c_worker.stash = <<>> /\ c_worker.dead = FALSE
      /\ c_worker.pc = "idle" /\ c_tasks = <<>>
  BY DEF RpcInit, IsWorker
<1>3. TsTypes
  <2>1. FlushesOK(c_tasks, c_worker.queue, Made)
    <3>1. <<>> \in Seq(TsTasks) /\ Len(<<>>) = 0 /\ 1 .. 0 = {}
      OBVIOUS
    <3> QED BY <1>2, <3>1 DEF FlushesOK
  <2> QED BY <1>0, <1>1, <1>2, <2>1 DEF TsTypes
<1>4. WorkerTypes /\ Resending
  <2>1. Held(c_worker) = {} /\ RunSet(c_worker) = {} /\ ~Running(c_worker)
    BY <1>0, <1>2 DEF Held, RunSet, Running
  <2>2. WorkerOK(c_worker)
    <3>1. <<>> \in Seq(ResponsePieces) /\ c_worker.dead \in BOOLEAN /\ ~c_worker.dead
      <4>1. <<>> \in Seq(ResponsePieces)
        OBVIOUS
      <4>2. c_worker.dead = FALSE
        BY <1>2, Zenon
      <4>3. c_worker.dead \in BOOLEAN /\ ~c_worker.dead
        BY <4>2, Zenon
      <4> QED BY <4>1, <4>3, Zenon
    <3>2. c_worker.conn \in Conns /\ c_worker.try \in {1, 2} /\ List(c_worker.queue) /\ List(c_worker.direct) /\ List(c_worker.cmds) /\ List(c_worker.run)
      BY <1>0, <1>2
    <3>3. Range(c_worker.queue) = {} /\ Range(c_worker.direct) = {} /\ Range(c_worker.cmds) = {}
      BY <1>0, <1>2
    <3> QED BY <1>2, <2>1, <3>1, <3>2, <3>3 DEF WorkerOK
  <2> QED BY <1>1, <1>2, <2>1, <2>2 DEF WorkerTypes, Resending
<1>5. \A c \in Conns : s_busy[c] = Idle /\ n_out[c] = <<>>
  BY DEF RpcInit
<1>6. Idle.run = <<>> /\ Idle.stage = "idle" /\ s_done = <<>> /\ Len(<<>>) = 0 /\ 1 .. 0 = {}
  BY DEF Idle, RpcInit
<1>7. TasksOK
  BY <1>5, <1>6 DEF TasksOK
<1>8. ASSUME NEW x \in Calls PROVE Once(x) /\ KeyOnce(x)
  <2>1. /\ \A c \in Conns, j \in Nat : ~OutAt(x, c, j)
        /\ \A c \in Conns : ~BusyAt(x, c) /\ ~InKey(c, x)
        /\ \A j \in Nat : ~DoneAt(x, j)
    BY <1>5, <1>6 DEF OutAt, BusyAt, InKey, DoneAt
  <2> QED BY <2>1 DEF Once, KeyOnce, OnePlace, Sent
<1> QED BY <1>1, <1>3, <1>4, <1>7, <1>8 DEF RpcInv, ClientOK

(* Every step keeps the invariant: of the server, of the net, of the       *)
(* clients.                                                                *)
LEMMA RpcInvNext == RpcInv /\ [RpcNext]_rpc_vars => RpcInv'
<1> SUFFICES ASSUME RpcInv, [RpcNext]_rpc_vars PROVE RpcInv'
  OBVIOUS
<1>0. ClientOK /\ NetTypes /\ TasksOK /\ \A x \in Calls : Once(x) /\ KeyOnce(x)
  BY DEF RpcInv, ClientOK
<1>1. ASSUME NEW c \in Conns, SrvStep(c) PROVE RpcInv'
  <2>1. NetTypes' /\ TasksOK' /\ \A x \in Calls : Once(x)' /\ KeyOnce(x)'
    BY <1>0, <1>1, TypesServer, OnceServer, KeyServer
  <2>2. UNCHANGED <<c_lang, c_op, c_issued, c_worker, c_tasks>>
    BY <1>1 DEF SrvStep, SrvTake, idem_lookup, SrvApply, idem_record, SrvReply, client_vars
  <2>3. ClientOK'
    BY <1>0, <2>1, <2>2, ClientSame
  <2> QED BY <2>1, <2>3 DEF RpcInv
<1>2. ASSUME NEW c \in Conns, ConnLost(c) PROVE RpcInv'
  <2>1. NetTypes' /\ TasksOK' /\ \A x \in Calls : Once(x)'
    BY <1>0, <1>2, LostNet
  <2>2. UNCHANGED <<c_lang, c_op, c_issued, c_worker, c_tasks, s_busy, s_done, s_idem, s_excused>>
    BY <1>2 DEF ConnLost, client_vars, server_vars
  <2>3. ClientOK'
    BY <1>0, <2>1, <2>2, ClientSame
  <2>4. \A x \in Calls : KeyOnce(x)'
    BY <1>0, <2>2 DEF KeyOnce, InKey, DoneAt, Current, Keyed
  <2> QED BY <2>1, <2>3, <2>4 DEF RpcInv
<1>3. ASSUME Issue \/ ClientStep \/ (\E x \in Calls : Deadline(x)) \/ Close \/ UNCHANGED rpc_vars PROVE RpcInv'
  <2>1. ClientKept
    BY <1>0, <1>3, ClientKeeps
  <2>2. /\ ClientOK' /\ UNCHANGED <<c_lang, c_op, s_busy, s_done, s_idem, s_excused>>
        /\ c_issued' \in Nat /\ c_issued <= c_issued'
        /\ \A x \in Unsent' : x \in Unsent \/ x = 0 \/ (c_issued < x /\ x <= c_issued')
    BY <2>1 DEF ClientKept
  <2>3. TasksOK'
    BY <1>0, <2>2 DEF TasksOK, AtOp, Keyed, Current
  <2>4. \A x \in Calls : KeyOnce(x)'
    BY <1>0, <2>2 DEF KeyOnce, InKey, DoneAt, Current, Keyed
  <2>5. ASSUME NEW x \in Calls PROVE Once(x)'
    <3>0. x # 0 /\ <<>> \in Runs /\ 1 \in Conns
      BY NoCalls, NetAssumption DEF Calls, Runs, Conns
    <3>1. PICK c \in Conns, run \in Runs :
             /\ n_out' = n_out \/ n_out' = [n_out EXCEPT ![c] = Append(n_out[c], run)]
             /\ n_out' = n_out \/ \A y \in Range(run) : Unrepeated(y) => y \in Unsent /\ y \notin Unsent' /\ y <= c_issued
      BY <2>1, <3>0 DEF ClientKept
    <3> QED BY <1>0, <2>2, <3>0, <3>1, OnceClient
  <2> QED BY <2>2, <2>3, <2>4, <2>5 DEF RpcInv
<1> QED BY <1>1, <1>2, <1>3 DEF RpcNext

(* The invariant gives what is to be shown.                                *)
LEMMA RpcInvOnce == RpcInv => AppliedAtMostOnce
<1> SUFFICES ASSUME RpcInv, NEW x \in Calls, c_op[x] \notin ReadOps, x \notin s_excused PROVE ~(CountOf(x) > 1)
  BY DEF AppliedAtMostOnce
<1>1. s_done \in Seq(Calls) /\ Len(s_done) \in Nat /\ DOMAIN s_done = 1 .. Len(s_done)
  BY DEF RpcInv, ClientOK, NetTypes
<1>2. \A j, k \in Nat : DoneAt(x, j) /\ DoneAt(x, k) => j = k
  BY DEF RpcInv, Once, KeyOnce, Keyed, Unrepeated, OnePlace
<1>3. \A j, k \in DOMAIN s_done : s_done[j] = x /\ s_done[k] = x => j = k
  BY <1>1, <1>2 DEF DoneAt
<1> DEFINE S == {i \in DOMAIN s_done : s_done[i] = x}
<1>4. S = {} \/ \E i : S = {i}
  BY <1>3
<1> HIDE DEF S
<1>5. Cardinality(S) = 0 \/ Cardinality(S) = 1
  BY <1>4, FS_EmptySet, FS_Singleton
<1> QED BY <1>5 DEF S, CountOf

(* Resending never repeats an effect, whatever connections break, however  *)
(* late the answers come and whichever calls run out of time: an operation *)
(* that is not a read is executed at most once.  The libraries send again  *)
(* only what is a read or carries a key (flush_pending and its             *)
(* counterparts), and the server looks the key up before it executes       *)
(* (IdemCache); the exceptions are the keyed inserts whose two executions  *)
(* overlapped between lookup and record, and those whose key the full      *)
(* cache had dropped.  For every library, program, number of calls and     *)
(* connections, size of the cache and limit of a frame.                    *)
THEOREM RpcAppliedAtMostOnce == RpcSpec => []AppliedAtMostOnce
<1>1. RpcSpec => []RpcInv
  BY RpcInvInit, RpcInvNext, PTL DEF RpcSpec
<1> QED BY <1>1, RpcInvOnce, PTL

-----------------------------------------------------------------------------
(* Whose response arrives.  A response is cut into two pieces; a run that   *)
(* was written while none was due meets only its own.                      *)

\* One of the two pieces in which the response to the run R arrives.
Half(R, h) == [run |-> R, half |-> h]

\* What is on its way for the run R, read with st in the codec, when the
\* connection is up, has the frames out and the pieces in on it, its task is
\* busy, and done has been executed.
Flows(up, out, busy, in, done, R, st) ==
    /\ \/ up /\ out = <<R>> /\ busy = Idle /\ in = <<>>
       \/ up /\ out = <<>> /\ busy # Idle /\ busy.run = R /\ in = <<>>
       \/ up => out = <<>> /\ busy = Idle /\ (in = Pieces(R) \/ in = <<Half(R, 2)>>)
    /\ \/ in \in {<<>>, <<Half(R, 1)>>, Pieces(R)}
       \/ in = <<Half(R, 2)>> /\ st = <<Half(R, 1)>>
    /\ in # <<>> => Range(R) \subseteq done

\* The same of the connection c as it is now.
Flow(c, R, st) == Flows(n_up[c], n_out[c], s_busy[c], n_in[c], Range(s_done), R, st)

(* A whole response lies in the codec exactly when its two pieces lie      *)
(* there, one after the other.                                             *)
LEMMA WholeMeans ==
    ASSUME NEW s \in Seq(ResponsePieces)
    PROVE  Whole(s) <=> Len(s) >= 2 /\ s[1].half = 1 /\ s[2].half = 2 /\ s[2].run = s[1].run
<1>1. CASE Len(s) >= 2
  <2>1. SubSeq(s, 1, 2) = <<s[1], s[2]>>
    <3> DEFINE t == SubSeq(s, 1, 2)
               u == <<s[1], s[2]>>
    <3>1. t \in Seq(ResponsePieces) /\ Len(t) = 2 /\ t[1] = s[1] /\ t[2] = s[2]
      BY <1>1
    <3>2. u \in Seq(ResponsePieces) /\ Len(u) = 2 /\ u[1] = s[1] /\ u[2] = s[2]
      BY <1>1
    <3> HIDE DEF t, u
    <3>3. \A i \in 1 .. Len(t) : t[i] = u[i]
      BY <3>1, <3>2
    <3>4. t = u
      BY <3>1, <3>2, <3>3, SeqEqual
    <3> QED BY <3>4 DEF t, u
  <2>2. s[1] \in ResponsePieces /\ s[2] \in ResponsePieces
    BY <1>1
  <2>3. <<s[1], s[2]>> = Pieces(s[1].run) <=> s[1] = [run |-> s[1].run, half |-> 1] /\ s[2] = [run |-> s[1].run, half |-> 2]
    BY DEF Pieces
  <2>4. s[1] = [run |-> s[1].run, half |-> 1] <=> s[1].half = 1
    BY <2>2 DEF ResponsePieces
  <2>5. s[2] = [run |-> s[1].run, half |-> 2] <=> s[2].half = 2 /\ s[2].run = s[1].run
    BY <2>2 DEF ResponsePieces
  <2> QED BY <1>1, <2>1, <2>3, <2>4, <2>5 DEF Whole
<1>2. CASE ~(Len(s) >= 2)
  BY <1>2 DEF Whole
<1> QED BY <1>1, <1>2

(* Less than two pieces, or pieces that do not belong together, are no     *)
(* response.                                                               *)
LEMMA NotWhole ==
    ASSUME NEW s \in Seq(ResponsePieces), s = <<>> \/ Len(s) < 2 \/ Garbled(s)
    PROVE  ~Whole(s)
<1>1. CASE Garbled(s)
  BY <1>1, WholeMeans DEF Garbled
<1>2. CASE s = <<>> \/ Len(s) < 2
  BY <1>2, WholeMeans
<1> QED BY <1>1, <1>2

(* What the codec holds once k more pieces have been read.                 *)
LEMMA FedParts ==
    ASSUME NEW st \in Seq(ResponsePieces), NEW in \in Seq(ResponsePieces), NEW k \in 1 .. Len(in)
    PROVE  LET F == st \o SubSeq(in, 1, k) IN
           /\ F \in Seq(ResponsePieces) /\ Len(F) = Len(st) + k /\ Len(st) \in Nat /\ Len(in) \in Nat
           /\ \A j \in 1 .. Len(st) : F[j] = st[j]
           /\ \A j \in 1 .. k : F[Len(st) + j] = in[j]
<1>1. Len(st) \in Nat /\ Len(in) \in Nat /\ SubSeq(in, 1, k) \in Seq(ResponsePieces) /\ Len(SubSeq(in, 1, k)) = k
      /\ \A j \in 1 .. k : SubSeq(in, 1, k)[j] = in[j]
  OBVIOUS
<1> DEFINE t == SubSeq(in, 1, k)
<1> HIDE DEF t
<1>2. t \in Seq(ResponsePieces) /\ Len(t) = k /\ \A j \in 1 .. k : t[j] = in[j]
  BY <1>1 DEF t
<1>3. st \o t \in Seq(ResponsePieces) /\ Len(st \o t) = Len(st) + k
  BY <1>1, <1>2
<1>4. \A j \in 1 .. Len(st) : (st \o t)[j] = st[j]
  BY <1>1, <1>2
<1>5. ASSUME NEW j \in 1 .. k PROVE (st \o t)[Len(st) + j] = in[j]
  <2>1. Len(st) + j \in 1 .. Len(st) + Len(t) /\ ~(Len(st) + j <= Len(st)) /\ (Len(st) + j) - Len(st) = j
    BY <1>1, <1>2
  <2>2. (st \o t)[Len(st) + j] = t[j]
    BY <1>1, <1>2, <2>1
  <2> QED BY <1>2, <2>2
<1> QED BY <1>1, <1>3, <1>4, <1>5 DEF t

(* What the pieces of a run are.                                           *)
LEMMA HalfFacts ==
    ASSUME NEW R \in Runs
    PROVE  /\ \A h \in {1, 2} : Half(R, h) \in ResponsePieces /\ Half(R, h).run = R /\ Half(R, h).half = h
           /\ Pieces(R) = <<Half(R, 1), Half(R, 2)>>
  BY DEF Half, ResponsePieces, Pieces

\* A whole response that a run meets is its own, and there is nothing behind it.
LEMMA FlowWhole ==
    ASSUME NEW st \in Seq(ResponsePieces), NEW in \in Seq(ResponsePieces), NEW k \in 1 .. Len(in), NEW R \in Runs,
           ~Whole(st), \/ in \in {<<>>, <<Half(R, 1)>>, Pieces(R)}
                       \/ in = <<Half(R, 2)>> /\ st = <<Half(R, 1)>>,
           Whole(st \o SubSeq(in, 1, k))
    PROVE  (st \o SubSeq(in, 1, k))[1].run = R /\ Len(st \o SubSeq(in, 1, k)) = 2 /\ k = Len(in)
<1> DEFINE F == st \o SubSeq(in, 1, k)
<1>1. /\ F \in Seq(ResponsePieces) /\ Len(F) = Len(st) + k /\ Len(st) \in Nat /\ Len(in) \in Nat
      /\ \A j \in 1 .. Len(st) : F[j] = st[j]
      /\ \A j \in 1 .. k : F[Len(st) + j] = in[j]
  BY FedParts
<1>2. Whole(F)
  OBVIOUS
<1> HIDE DEF F
<1>3. Len(F) >= 2 /\ F[1].half = 1 /\ F[2].half = 2 /\ F[2].run = F[1].run
  BY <1>1, <1>2, WholeMeans
<1>4. /\ Half(R, 1).half = 1 /\ Half(R, 2).half = 2 /\ Half(R, 1).run = R /\ Pieces(R) = <<Half(R, 1), Half(R, 2)>>
  BY HalfFacts
<1>5. CASE Len(st) >= 2
  <2>1. F[1] = st[1] /\ F[2] = st[2]
    BY <1>1, <1>5
  <2> QED BY <1>3, <1>5, <2>1, WholeMeans
<1>6. CASE Len(st) = 1
  <2>1. F[1] = st[1] /\ F[2] = in[1]
    BY <1>1, <1>6
  <2>2. in = <<Half(R, 2)>> /\ st = <<Half(R, 1)>>
    <3>1. SUFFICES ASSUME in \in {<<>>, <<Half(R, 1)>>, Pieces(R)} PROVE FALSE
      OBVIOUS
    <3>2. in # <<>> /\ in[1] = Half(R, 1)
      BY <1>1, <1>4, <3>1
    <3> QED BY <1>3, <1>4, <2>1, <3>2
  <2>3. Len(in) = 1 /\ k = 1 /\ st[1] = Half(R, 1)
    BY <2>2
  <2> QED BY <1>1, <1>4, <1>6, <2>1, <2>3 DEF F
<1>7. CASE Len(st) = 0
  <2>1. Len(in) >= 2 /\ st = <<>>
    BY <1>1, <1>3, <1>7
  <2>2. in = Pieces(R) /\ Len(in) = 2 /\ k = 2 /\ in[1] = Half(R, 1)
    <3>1. Len(<<Half(R, 1)>>) = 1 /\ Len(<<Half(R, 2)>>) = 1 /\ Len(<<>>) = 0
      OBVIOUS
    <3>2. in = Pieces(R)
      <4>1. in \in {<<>>, <<Half(R, 1)>>, Pieces(R)} \/ in = <<Half(R, 2)>>
        OBVIOUS
      <4>2. in # <<>> /\ in # <<Half(R, 1)>> /\ in # <<Half(R, 2)>>
        BY <1>1, <2>1, <3>1
      <4> QED BY <4>1, <4>2, Zenon
    <3>3. Len(in) = 2 /\ in[1] = Half(R, 1)
      BY <1>4, <3>2
    <3> QED BY <1>1, <1>3, <1>7, <3>2, <3>3
  <2>3. F[1] = in[1]
    BY <1>1, <1>7, <2>2
  <2> QED BY <1>1, <1>4, <1>7, <2>2, <2>3 DEF F
<1>8. Len(st) = 0 \/ Len(st) = 1 \/ Len(st) >= 2
  <2>1. Len(st) \in Nat
    BY <1>1
  <2>2. \A n \in Nat : n = 0 \/ n = 1 \/ n >= 2
    OBVIOUS
  <2> QED BY <2>1, <2>2
<1> QED BY <1>5, <1>6, <1>7, <1>8

\* The first piece of a response was read, and nothing was in front of it.
LEMMA FlowMore ==
    ASSUME NEW st \in Seq(ResponsePieces), NEW in \in Seq(ResponsePieces), NEW k \in 1 .. Len(in), NEW R \in Runs,
           \/ in \in {<<>>, <<Half(R, 1)>>, Pieces(R)}
           \/ in = <<Half(R, 2)>> /\ st = <<Half(R, 1)>>,
           Len(st \o SubSeq(in, 1, k)) = 1
    PROVE  /\ st \o SubSeq(in, 1, k) = <<Half(R, 1)>> /\ in # <<>>
           /\ in # Pieces(R) => SubSeq(in, k + 1, Len(in)) = <<>>
           /\ in = Pieces(R) => SubSeq(in, k + 1, Len(in)) = <<Half(R, 2)>>
<1> DEFINE F == st \o SubSeq(in, 1, k)
<1>1. /\ F \in Seq(ResponsePieces) /\ Len(F) = Len(st) + k /\ Len(st) \in Nat /\ Len(in) \in Nat
      /\ \A j \in 1 .. Len(st) : F[j] = st[j]
      /\ \A j \in 1 .. k : F[Len(st) + j] = in[j]
  BY FedParts
<1>2. Len(F) = 1
  OBVIOUS
<1> HIDE DEF F
<1>3. Len(st) = 0 /\ k = 1 /\ F[1] = in[1] /\ in # <<>>
  BY <1>1, <1>2
<1>4. Pieces(R) = <<Half(R, 1), Half(R, 2)>>
  BY HalfFacts
<1>5. in = <<Half(R, 1)>> \/ in = Pieces(R)
  BY <1>3
<1>6. in[1] = Half(R, 1)
  BY <1>4, <1>5
<1>7. F = <<Half(R, 1)>>
  BY <1>1, <1>2, <1>3, <1>6
<1>8. in # Pieces(R) => SubSeq(in, k + 1, Len(in)) = <<>>
  <2> SUFFICES ASSUME in # Pieces(R) PROVE SubSeq(in, k + 1, Len(in)) = <<>>
    OBVIOUS
  <2>1. in = <<Half(R, 1)>> /\ Len(in) = 1
    BY <1>5
  <2>2. SubSeq(in, 2, 1) \in Seq(ResponsePieces) /\ Len(SubSeq(in, 2, 1)) = 0
    BY <2>1
  <2> QED BY <1>3, <2>1, <2>2
<1>9. in = Pieces(R) => SubSeq(in, k + 1, Len(in)) = <<Half(R, 2)>>
  <2> SUFFICES ASSUME in = Pieces(R) PROVE SubSeq(in, k + 1, Len(in)) = <<Half(R, 2)>>
    OBVIOUS
  <2>1. Len(in) = 2 /\ in[2] = Half(R, 2) /\ Half(R, 2) \in ResponsePieces
    BY <1>4, HalfFacts
  <2> DEFINE t == SubSeq(in, 2, 2)
             u == <<Half(R, 2)>>
  <2>2. t \in Seq(ResponsePieces) /\ Len(t) = 1 /\ t[1] = in[2]
    BY <2>1
  <2>3. u \in Seq(ResponsePieces) /\ Len(u) = 1 /\ u[1] = Half(R, 2)
    BY <2>1
  <2> HIDE DEF t, u
  <2>4. \A i \in 1 .. Len(t) : t[i] = u[i]
    BY <2>1, <2>2, <2>3
  <2>5. t = u
    BY <2>2, <2>3, <2>4, SeqEqual
  <2> QED BY <1>3, <2>1, <2>5 DEF t, u
<1> QED BY <1>3, <1>7, <1>8, <1>9 DEF F

\* What the server has gone through has been executed.
Served ==
    /\ \A c \in Conns : \A i \in DOMAIN s_busy[c].run :
          i < s_busy[c].at \/ (i = s_busy[c].at /\ s_busy[c].stage = "record")
          => s_busy[c].run[i] \in Range(s_done)
    /\ s_idem \subseteq Range(s_done)

\* Connections not opened yet.
Virgin ==
    \A d \in Conns : d > n_opened => n_out[d] = <<>> /\ n_in[d] = <<>> /\ s_busy[d] = Idle /\ ~n_up[d]

(* The server only adds to what it has executed.                           *)
LEMMA DoneGrows ==
    ASSUME NetTypes, NEW c \in Conns, SrvStep(c)
    PROVE  /\ Range(s_done) \subseteq Range(s_done')
           /\ s_done' = s_done \/ (s_done' = Append(s_done, Current(c)) /\ AtOp(c) /\ Current(c) \in Calls)
<1>1. s_done \in Seq(Calls) /\ s_busy[c] \in Tasks
  BY DEF NetTypes
<1>2. CASE s_done' = s_done
  BY <1>2
<1>3. CASE s_done' = Append(s_done, Current(c)) /\ AtOp(c)
  <2>1. Current(c) \in Calls
    BY <1>1, <1>3 DEF AtOp, Current, Tasks, Runs
  <2>2. Len(s_done') = Len(s_done) + 1 /\ Len(s_done) \in Nat /\ \A i \in 1 .. Len(s_done) : s_done'[i] = s_done[i]
    BY <1>1, <1>3, <2>1
  <2>3. DOMAIN s_done' = 1 .. Len(s_done) + 1 /\ DOMAIN s_done = 1 .. Len(s_done)
    BY <1>1, <1>3, <2>1
  <2>4. ASSUME NEW y \in Range(s_done) PROVE y \in Range(s_done')
    <3>1. PICK i \in 1 .. Len(s_done) : y = s_done[i]
      BY <2>3 DEF Range
    <3>2. i \in 1 .. Len(s_done) + 1 /\ s_done'[i] = y
      BY <2>2, <3>1
    <3> QED BY <2>3, <3>2 DEF Range
  <2> QED BY <1>3, <2>1, <2>4
<1> QED BY <1>2, <1>3 DEF SrvStep, SrvTake, idem_lookup, SrvApply, idem_record, SrvReply

(* What has just been executed is among what has been executed.            *)
LEMMA DoneLast ==
    ASSUME NEW x, NEW s \in Seq(Calls), x \in Calls
    PROVE  x \in Range(Append(s, x))
<1>1. Len(Append(s, x)) = Len(s) + 1 /\ Append(s, x)[Len(s) + 1] = x /\ Len(s) \in Nat /\ DOMAIN Append(s, x) = 1 .. Len(s) + 1
  OBVIOUS
<1> QED BY <1>1 DEF Range

(* No step of the server breaks Served.                                    *)
LEMMA ServedKept ==
    ASSUME NetTypes, TasksOK, NEW c \in Conns, SrvStep(c), Served
    PROVE  Served'
<1>0. /\ s_busy \in [Conns -> Tasks] /\ s_busy[c] \in Tasks /\ s_done \in Seq(Calls)
      /\ s_busy[c].run \in Seq(Calls) /\ s_busy[c].at \in Nat /\ DOMAIN s_busy[c].run = 1 .. Len(s_busy[c].run)
  BY DEF NetTypes, Tasks, Runs
<1>1. Range(s_done) \subseteq Range(s_done')
  BY DoneGrows
<1>2. \A d \in Conns : d # c => s_busy'[d] = s_busy[d]
  BY <1>0 DEF SrvStep, SrvTake, idem_lookup, SrvApply, idem_record, SrvReply
<1> DEFINE P(t, done) == \A i \in DOMAIN t.run : i < t.at \/ (i = t.at /\ t.stage = "record") => t.run[i] \in done
           t == s_busy[c]
<1>3. ASSUME s_idem' \subseteq Range(s_done'), P(s_busy'[c], Range(s_done')) PROVE Served'
  BY <1>1, <1>2, <1>3 DEF Served
<1>4. P(t, Range(s_done)) /\ s_idem \subseteq Range(s_done)
  BY DEF Served
<1>5. CASE SrvTake(c)
  <2>1. s_busy'[c] = [run |-> Head(n_out[c]), at |-> 1, stage |-> "op"] /\ s_idem' = s_idem /\ s_done' = s_done
    BY <1>0, <1>5 DEF SrvTake
  <2>2. Head(n_out[c]) \in Runs
    BY <1>5 DEF SrvTake, NetTypes
  <2>3. DOMAIN s_busy'[c].run = 1 .. Len(Head(n_out[c]))
    BY <2>1, <2>2 DEF Runs
  <2>4. P(s_busy'[c], Range(s_done'))
    BY <2>1, <2>2, <2>3 DEF Runs
  <2> QED BY <1>3, <1>4, <2>1, <2>4
<1>6. CASE idem_lookup(c)
  <2>1. s_idem' = s_idem /\ s_done' = s_done
    BY <1>6 DEF idem_lookup
  <2>2. CASE Current(c) \in s_idem
    <3>1. s_busy'[c] = [run |-> t.run, at |-> t.at + 1, stage |-> t.stage] /\ t.stage = "op"
      BY <1>0, <1>6, <2>2 DEF idem_lookup, Tasks
    <3>2. \A i \in DOMAIN t.run : i < t.at + 1 => i < t.at \/ i = t.at
      BY <1>0
    <3>3. t.run[t.at] \in Range(s_done)
      BY <1>4, <2>2 DEF Current
    <3>4. P(s_busy'[c], Range(s_done'))
      BY <1>4, <2>1, <3>1, <3>2, <3>3
    <3> QED BY <1>3, <1>4, <2>1, <3>4
  <2>3. CASE Current(c) \notin s_idem
    <3>1. s_busy'[c] = [run |-> t.run, at |-> t.at, stage |-> "apply"]
      BY <1>0, <1>6, <2>3 DEF idem_lookup, Tasks
    <3>4. P(s_busy'[c], Range(s_done'))
      BY <1>4, <2>1, <3>1
    <3> QED BY <1>3, <1>4, <2>1, <3>4
  <2> QED BY <2>2, <2>3
<1>7. CASE SrvApply(c)
  <2>1. s_idem' = s_idem /\ s_done' = Append(s_done, Current(c)) /\ AtOp(c)
    BY <1>7 DEF SrvApply
  <2>2. Current(c) \in Range(s_done') /\ Current(c) = t.run[t.at]
    <3>1. Current(c) \in Calls
      BY <1>0, <2>1 DEF AtOp, Current
    <3> QED BY <1>0, <2>1, <3>1, DoneLast DEF Current
  <2>3. s_idem' \subseteq Range(s_done')
    BY <1>1, <1>4, <2>1
  <2>4. CASE Keyed(Current(c))
    <3>1. s_busy'[c] = [run |-> t.run, at |-> t.at, stage |-> "record"]
      BY <1>0, <1>7, <2>4 DEF SrvApply, Tasks
    <3>4. P(s_busy'[c], Range(s_done'))
      BY <1>1, <1>4, <2>2, <3>1
    <3> QED BY <1>3, <2>3, <3>4
  <2>5. CASE ~Keyed(Current(c))
    <3>1. s_busy'[c] = [run |-> t.run, at |-> t.at + 1, stage |-> "op"]
      BY <1>0, <1>7, <2>5 DEF SrvApply, Tasks
    <3>2. \A i \in DOMAIN t.run : i < t.at + 1 => i < t.at \/ i = t.at
      BY <1>0
    <3>4. P(s_busy'[c], Range(s_done'))
      BY <1>1, <1>4, <2>2, <3>1, <3>2
    <3> QED BY <1>3, <2>3, <3>4
  <2> QED BY <2>4, <2>5
<1>8. CASE idem_record(c)
  <2>1. s_done' = s_done /\ s_busy'[c] = [run |-> t.run, at |-> t.at + 1, stage |-> "op"] /\ t.stage = "record"
    BY <1>0, <1>8 DEF idem_record, Tasks
  <2>2. AtOp(c) /\ t.run[t.at] \in Range(s_done)
    BY <1>4, <2>1 DEF TasksOK, AtOp
  <2>3. s_idem' \subseteq Range(s_done')
    BY <1>4, <1>8, <2>1, <2>2 DEF idem_record, Current
  <2>4. \A i \in DOMAIN t.run : i < t.at + 1 => i < t.at \/ i = t.at
    BY <1>0
  <2>5. P(s_busy'[c], Range(s_done'))
    BY <1>4, <2>1, <2>2, <2>4
  <2> QED BY <1>3, <2>3, <2>5
<1>9. CASE SrvReply(c)
  <2>1. s_busy'[c] = Idle /\ s_done' = s_done /\ s_idem' = s_idem
    BY <1>0, <1>9 DEF SrvReply
  <2>2. DOMAIN Idle.run = {}
    BY DEF Idle
  <2>3. P(s_busy'[c], Range(s_done'))
    BY <2>1, <2>2
  <2> QED BY <1>3, <1>4, <2>1, <2>3
<1> QED BY <1>5, <1>6, <1>7, <1>8, <1>9 DEF SrvStep

\* The server hands a run its response, and no other.
LEMMA FlowServer ==
    ASSUME NetTypes, TasksOK, Served, NEW c \in Conns, SrvStep(c), NEW d \in Conns, NEW R \in Runs, NEW st, Flow(d, R, st)
    PROVE  Flows(n_up'[d], n_out'[d], s_busy'[d], n_in'[d], Range(s_done'), R, st)
<1>0. /\ s_busy \in [Conns -> Tasks] /\ s_busy[c] \in Tasks /\ n_out \in [Conns -> Seq(Runs)] /\ n_up' = n_up
      /\ n_in \in [Conns -> Seq(ResponsePieces)]
      /\ s_busy[c].run \in Seq(Calls) /\ s_busy[c].at \in Nat /\ DOMAIN s_busy[c].run = 1 .. Len(s_busy[c].run)
  BY DEF NetTypes, Tasks, Runs, SrvStep, SrvTake, idem_lookup, SrvApply, idem_record, SrvReply, net_vars
<1>1. Range(s_done) \subseteq Range(s_done')
  BY DoneGrows
<1>2. Flows(n_up[d], n_out[d], s_busy[d], n_in[d], Range(s_done), R, st)
  BY DEF Flow
<1>3. CASE d # c
  <2>1. n_out'[d] = n_out[d] /\ s_busy'[d] = s_busy[d] /\ n_in'[d] = n_in[d]
    BY <1>0, <1>3 DEF SrvStep, SrvTake, idem_lookup, SrvApply, idem_record, SrvReply, net_vars
  <2> QED BY <1>0, <1>1, <1>2, <2>1 DEF Flows
<1>4. CASE d = c /\ SrvTake(c)
  <2>1. /\ s_busy[c] = Idle /\ n_out[c] # <<>> /\ s_busy'[c].run = Head(n_out[c]) /\ s_busy'[c].stage = "op"
        /\ n_out'[c] = Tail(n_out[c]) /\ n_in' = n_in
    BY <1>0, <1>4 DEF SrvTake
  <2>2. CASE ~n_up[c]
    BY <1>0, <1>1, <1>2, <1>4, <2>1, <2>2 DEF Flows
  <2>3. CASE n_up[c]
    <3>1. n_out[c] = <<R>> /\ n_in[c] = <<>>
      BY <1>2, <1>4, <2>1, <2>3 DEF Flows
    <3>2. Tail(n_out[c]) = <<>> /\ Head(n_out[c]) = R
      BY <3>1
    <3>3. s_busy'[c] # Idle
      BY <2>1 DEF Idle
    <3> QED BY <1>0, <1>4, <2>1, <2>3, <3>1, <3>2, <3>3 DEF Flows
  <2> QED BY <2>2, <2>3
<1>5. CASE d = c /\ (idem_lookup(c) \/ SrvApply(c) \/ idem_record(c))
  <2>1. n_out' = n_out /\ n_in' = n_in
    BY <1>5 DEF idem_lookup, SrvApply, idem_record, net_vars
  <2>2. s_busy'[c].run = s_busy[c].run
    BY <1>0, <1>5 DEF idem_lookup, SrvApply, idem_record, Tasks
  <2>3. s_busy[c].run # <<>>
    <3>1. CASE idem_lookup(c) \/ SrvApply(c)
      BY <3>1, <1>0 DEF idem_lookup, SrvApply, AtOp
    <3>2. CASE idem_record(c)
      <4>1. AtOp(c)
        BY <3>2 DEF idem_record, TasksOK
      <4> QED BY <1>0, <4>1 DEF AtOp
    <3> QED BY <1>5, <3>1, <3>2
  <2> QED BY <1>0, <1>1, <1>2, <1>5, <2>1, <2>2, <2>3 DEF Flows, Idle
<1>6. CASE d = c /\ SrvReply(c)
  <2>1. /\ s_busy[c] # Idle /\ s_busy[c].at > Len(s_busy[c].run) /\ s_busy'[c] = Idle /\ n_out' = n_out /\ s_done' = s_done
        /\ n_in'[c] = IF n_up[c] THEN n_in[c] \o Pieces(s_busy[c].run) ELSE n_in[c]
    BY <1>0, <1>6 DEF SrvReply
  <2>2. CASE ~n_up[c]
    BY <1>0, <1>2, <1>6, <2>1, <2>2 DEF Flows
  <2>3. CASE n_up[c]
    <3>1. n_out[c] = <<>> /\ s_busy[c].run = R /\ n_in[c] = <<>>
      BY <1>2, <1>6, <2>1, <2>3 DEF Flows
    <3>2. Pieces(R) = <<Half(R, 1), Half(R, 2)>> /\ Half(R, 1) \in ResponsePieces /\ Half(R, 2) \in ResponsePieces
      BY HalfFacts
    <3>3. n_in'[c] = Pieces(R)
      BY <2>1, <2>3, <3>1, <3>2
    <3>4. Range(R) \subseteq Range(s_done)
      <4>1. \A i \in DOMAIN R : i < s_busy[c].at
        BY <1>0, <2>1, <3>1
      <4> QED BY <3>1, <4>1 DEF Served, Range
    <3> QED BY <1>0, <1>6, <2>1, <2>3, <3>1, <3>3, <3>4 DEF Flows
  <2> QED BY <2>2, <2>3
<1> QED BY <1>3, <1>4, <1>5, <1>6 DEF SrvStep

\* Losing a connection takes away the end of what is on its way.
LEMMA FlowLost ==
    ASSUME NetTypes, NEW c \in Conns, ConnLost(c), NEW d \in Conns, NEW R \in Runs, NEW st, Flow(d, R, st)
    PROVE  Flows(n_up'[d], n_out'[d], s_busy'[d], n_in'[d], Range(s_done'), R, st)
<1>0. /\ n_out \in [Conns -> Seq(Runs)] /\ n_up \in [Conns -> BOOLEAN] /\ n_in \in [Conns -> Seq(ResponsePieces)]
      /\ s_busy' = s_busy /\ s_done' = s_done
  BY DEF NetTypes, ConnLost, server_vars
<1>2. Flows(n_up[d], n_out[d], s_busy[d], n_in[d], Range(s_done), R, st)
  BY DEF Flow
<1>3. CASE d # c
  <2>1. n_up'[d] = n_up[d] /\ n_out'[d] = n_out[d] /\ n_in'[d] = n_in[d]
    BY <1>0, <1>3 DEF ConnLost
  <2> QED BY <1>0, <1>2, <2>1 DEF Flows
<1>4. CASE d = c
  <2>1. PICK k \in 0 .. Len(n_in[c]) : n_in'[c] = SubSeq(n_in[c], 1, k)
    BY <1>0 DEF ConnLost
  <2>2. ~n_up'[c]
    BY <1>0 DEF ConnLost
  <2>3. n_in'[c] = <<>> \/ n_in'[c] = n_in[c] \/ (n_in[c] = Pieces(R) /\ n_in'[c] = <<Half(R, 1)>>)
    <3>0. n_in[c] \in Seq(ResponsePieces) /\ Len(n_in[c]) \in Nat
      BY <1>0
    <3>1. CASE k = 0
      BY <2>1, <3>0, <3>1
    <3>2. CASE k = Len(n_in[c])
      BY <2>1, <3>0, <3>2
    <3>3. CASE k # 0 /\ k # Len(n_in[c])
      <4>1. Len(<<>>) = 0 /\ Len(<<Half(R, 1)>>) = 1 /\ Len(<<Half(R, 2)>>) = 1
        OBVIOUS
      <4>2. Len(n_in[c]) >= 2
        BY <3>0, <3>3
      <4>3. n_in[c] \in {<<>>, <<Half(R, 1)>>, Pieces(R)} \/ n_in[c] = <<Half(R, 2)>>
        BY <1>2, <1>4 DEF Flows
      <4>4. n_in[c] # <<>> /\ n_in[c] # <<Half(R, 1)>> /\ n_in[c] # <<Half(R, 2)>>
        <5>1. \A n \in Nat : n >= 2 => n # 0 /\ n # 1
          OBVIOUS
        <5>2. Len(n_in[c]) # 0 /\ Len(n_in[c]) # 1
          BY <3>0, <4>2, <5>1
        <5> QED BY <4>1, <5>2, Zenon
      <4>5. n_in[c] = Pieces(R)
        BY <4>3, <4>4, Zenon
      <4>6. Pieces(R) = <<Half(R, 1), Half(R, 2)>> /\ Half(R, 1) \in ResponsePieces /\ Half(R, 2) \in ResponsePieces
        BY HalfFacts
      <4>7. Len(n_in[c]) = 2 /\ n_in[c][1] = Half(R, 1)
        BY <4>5, <4>6
      <4>8. k = 1
        BY <3>0, <3>3, <4>7
      <4> DEFINE t == SubSeq(n_in[c], 1, 1)
                 u == <<Half(R, 1)>>
      <4>9. t \in Seq(ResponsePieces) /\ Len(t) = 1 /\ t[1] = Half(R, 1)
        BY <3>0, <4>7
      <4>10. u \in Seq(ResponsePieces) /\ Len(u) = 1 /\ u[1] = Half(R, 1)
        BY <4>6
      <4> HIDE DEF t, u
      <4>11. \A i \in 1 .. Len(t) : t[i] = u[i]
        BY <4>9, <4>10
      <4>12. t = u
        BY <4>9, <4>10, <4>11, SeqEqual
      <4> QED BY <2>1, <4>5, <4>8, <4>12 DEF t, u
    <3> QED BY <3>1, <3>2, <3>3
  <2>4. Pieces(R) # <<>>
    BY DEF Pieces
  <2> QED BY <1>0, <1>2, <1>4, <2>2, <2>3, <2>4 DEF Flows
<1> QED BY <1>3, <1>4

(* An answer that is a result is the call's own.                           *)
Own == \A x \in Calls : c_answer[x].tag = "ok" => c_answer[x].of = x /\ x \in Range(s_done)

\* A worker that reads meets its own response.
WorkerFlow ==
    /\ ~Whole(c_worker.stash)
    /\ c_worker.pc = "read" => Flow(c_worker.conn, c_worker.run, c_worker.stash)

\* The Rust worker writes only when nothing is due.
RustClean ==
    c_lang = "rust" => /\ c_mixed = {}
                       /\ c_worker.pc # "read" /\ Fit(c_worker) => ~Due(c_worker.conn)

\* The client has not yet opened the connection after the last one, and uses
\* one it has opened.
Reached == Virgin /\ c_worker.conn <= n_opened

(* An empty codec holds no response.                                       *)
LEMMA EmptyNotWhole == ~Whole(<<>>)
<1>1. <<>> \in Seq(ResponsePieces)
  OBVIOUS
<1> QED BY <1>1, NotWhole

\* FlowWhole and FlowMore, for a worker that reads.
LEMMA WorkerMeets ==
    ASSUME WorkerTypes, WorkerFlow, c_worker.pc = "read", NEW k \in Arrived
    PROVE  /\ Whole(Fed(k)) => Fed(k)[1].run = c_worker.run /\ Len(Fed(k)) = 2 /\ k = Len(n_in[c_worker.conn])
           /\ Len(Fed(k)) = 1 =>
                LET in == n_in[c_worker.conn]
                    R == c_worker.run IN
                /\ Fed(k) = <<Half(R, 1)>> /\ in # <<>>
                /\ in # Pieces(R) => SubSeq(in, k + 1, Len(in)) = <<>>
                /\ in = Pieces(R) => SubSeq(in, k + 1, Len(in)) = <<Half(R, 2)>>
<1>0. /\ c_worker.stash \in Seq(ResponsePieces) /\ n_in[c_worker.conn] \in Seq(ResponsePieces)
      /\ c_worker.run \in Runs
  BY DEF WorkerTypes, WorkerOK, NetTypes, Runs, List, Incr, Calls
<1>1. k \in 1 .. Len(n_in[c_worker.conn]) /\ Fed(k) = c_worker.stash \o SubSeq(n_in[c_worker.conn], 1, k)
  BY DEF Arrived, Fed
<1>2. /\ ~Whole(c_worker.stash)
      /\ \/ n_in[c_worker.conn] \in {<<>>, <<Half(c_worker.run, 1)>>, Pieces(c_worker.run)}
         \/ n_in[c_worker.conn] = <<Half(c_worker.run, 2)>> /\ c_worker.stash = <<Half(c_worker.run, 1)>>
  BY DEF WorkerFlow, Flow, Flows
<1>3. PICK st, in, R : st = c_worker.stash /\ in = n_in[c_worker.conn] /\ R = c_worker.run
  OBVIOUS
<1>4. /\ st \in Seq(ResponsePieces) /\ in \in Seq(ResponsePieces) /\ R \in Runs /\ ~Whole(st)
      /\ \/ in \in {<<>>, <<Half(R, 1)>>, Pieces(R)}
         \/ in = <<Half(R, 2)>> /\ st = <<Half(R, 1)>>
      /\ k \in 1 .. Len(in) /\ Fed(k) = st \o SubSeq(in, 1, k)
  BY <1>0, <1>1, <1>2, <1>3
<1>5. Whole(st \o SubSeq(in, 1, k)) =>
        (st \o SubSeq(in, 1, k))[1].run = R /\ Len(st \o SubSeq(in, 1, k)) = 2 /\ k = Len(in)
  BY <1>4, FlowWhole
<1>6. Len(st \o SubSeq(in, 1, k)) = 1 =>
           /\ st \o SubSeq(in, 1, k) = <<Half(R, 1)>> /\ in # <<>>
           /\ in # Pieces(R) => SubSeq(in, k + 1, Len(in)) = <<>>
           /\ in = Pieces(R) => SubSeq(in, k + 1, Len(in)) = <<Half(R, 2)>>
  BY <1>4, FlowMore
<1> HIDE DEF Fed
<1>7. Whole(Fed(k)) => Fed(k)[1].run = c_worker.run /\ Len(Fed(k)) = 2 /\ k = Len(n_in[c_worker.conn])
  BY <1>3, <1>4, <1>5, Zenon
<1>8. Len(Fed(k)) = 1 =>
           /\ Fed(k) = <<Half(R, 1)>> /\ in # <<>>
           /\ in # Pieces(R) => SubSeq(in, k + 1, Len(in)) = <<>>
           /\ in = Pieces(R) => SubSeq(in, k + 1, Len(in)) = <<Half(R, 2)>>
  BY <1>4, <1>6, Zenon
<1> QED BY <1>3, <1>7, <1>8, Zenon

(* What spoils the codec of a worker is no response.                       *)
LEMMA SpoilsNotWhole ==
    ASSUME WorkerTypes, WorkerFlow, c_worker.pc = "read", NEW stash \in Seq(ResponsePieces), Spoils(stash)
    PROVE  ~Whole(stash)
<1>0. /\ c_worker.stash \in Seq(ResponsePieces) /\ c_worker.conn \in Conns /\ n_in[c_worker.conn] \in Seq(ResponsePieces)
      /\ c_worker.run \in Runs
  BY DEF WorkerTypes, WorkerOK, NetTypes, Runs, List, Incr, Calls
<1>1. CASE stash \in {<<>>, c_worker.stash}
  BY <1>1, EmptyNotWhole DEF WorkerFlow
<1>2. ASSUME NEW k \in Arrived, Garbled(Fed(k)), stash = Fed(k) PROVE ~Whole(stash)
  BY <1>2, NotWhole
<1>3. ASSUME NEW k \in Arrived, Whole(Fed(k)), ~(SameShape(c_worker.run, Fed(k)[1].run) /\ Len(Fed(k)[1].run) = Len(c_worker.run))
      PROVE  FALSE
  <2>2. Fed(k)[1].run = c_worker.run
    BY <1>3, WorkerMeets
  <2> QED BY <1>3, <2>2 DEF SameShape
<1> QED BY <1>1, <1>2, <1>3 DEF Spoils

(* Refusing calls breaks no answer.                                        *)
LEMMA OwnRefused ==
    ASSUME NetTypes, Own, NEW S \in SUBSET Calls, Refuses(S), s_done' = s_done
    PROVE  Own'
  BY RefusesFacts DEF Own

\* The response of the run is read.
LEMMA SettleFlows ==
    ASSUME WorkerTypes, WorkerFlow, Own, Settle
    PROVE  /\ Own' /\ WorkerFlow' /\ n_in'[c_worker.conn] = <<>> /\ n_in[c_worker.conn] # <<>>
           /\ c_worker'.pc # "read" /\ c_worker'.conn = c_worker.conn
<1>0. /\ c_worker.stash \in Seq(ResponsePieces) /\ c_worker.conn \in Conns /\ n_in[c_worker.conn] \in Seq(ResponsePieces)
      /\ c_worker.run \in Runs /\ IsWorker(c_worker) /\ n_in \in [Conns -> Seq(ResponsePieces)] /\ c_worker.pc = "read"
      /\ c_worker.run \in Seq(Calls) /\ DOMAIN c_worker.run = 1 .. Len(c_worker.run)
  BY SMTT(25) DEF WorkerTypes, WorkerOK, NetTypes, Runs, List, Incr, Calls, Settle
<1>1. PICK k \in Arrived, pc \in {"idle", "segment", "direct", "queue", "gone"}, stash \in Seq(ResponsePieces) :
         /\ Whole(Fed(k)) /\ Len(Fed(k)) = 2 => stash = <<>>
         /\ Whole(Fed(k))
         /\ c_answer' = Answered(c_worker.run, Fed(k)[1].run)
         /\ c_worker' = [c_worker EXCEPT !.pc = pc, !.run = <<>>, !.stash = stash]
         /\ n_in' = Taken(c_worker.conn, k)
  BY Zenon DEF Settle
<1>2. k \in 1 .. Len(n_in[c_worker.conn]) /\ Fed(k) = c_worker.stash \o SubSeq(n_in[c_worker.conn], 1, k)
  BY DEF Arrived, Fed
<1>3. Fed(k)[1].run = c_worker.run /\ Len(Fed(k)) = 2 /\ k = Len(n_in[c_worker.conn])
  BY <1>0, <1>1, WorkerMeets
<1>4. stash = <<>>
  BY <1>1, <1>3
<1>5. c_worker'.pc = pc /\ c_worker'.stash = <<>> /\ c_worker'.conn = c_worker.conn
  BY <1>0, <1>1, <1>4 DEF IsWorker
<1>6. n_in[c_worker.conn] # <<>> /\ n_in'[c_worker.conn] = <<>>
  <2>1. n_in'[c_worker.conn] = SubSeq(n_in[c_worker.conn], k + 1, Len(n_in[c_worker.conn]))
    BY <1>0, <1>1 DEF Taken
  <2>2. \A s \in Seq(ResponsePieces) : SubSeq(s, Len(s) + 1, Len(s)) = <<>>
    OBVIOUS
  <2>3. n_in'[c_worker.conn] = <<>>
    BY <1>0, <1>3, <2>1, <2>2
  <2> QED BY <1>0, <1>2, <2>3
<1>7. Range(c_worker.run) \subseteq Range(s_done) /\ s_done' = s_done
  BY <1>0, <1>6 DEF WorkerFlow, Flow, Flows, Settle, Stays, server_vars
<1>8. Own'
  <2> SUFFICES ASSUME NEW x \in Calls, c_answer'[x].tag = "ok" PROVE c_answer'[x].of = x /\ x \in Range(s_done')
    BY DEF Own
  <2>1. CASE ~(x \in Range(c_worker.run) /\ c_answer[x] = Unanswered)
    <3>1. c_answer'[x] = c_answer[x]
      BY <1>1, <2>1 DEF Answered
    <3> QED BY <1>7, <3>1 DEF Own
  <2>2. CASE x \in Range(c_worker.run) /\ c_answer[x] = Unanswered
    <3>1. c_answer'[x].of = c_worker.run[CHOOSE i \in DOMAIN c_worker.run : c_worker.run[i] = x]
      BY <1>1, <1>3, <2>2 DEF Answered
    <3>2. \E i \in DOMAIN c_worker.run : c_worker.run[i] = x
      BY <2>2 DEF Range
    <3> QED BY <1>7, <2>2, <3>1, <3>2
  <2> QED BY <2>1, <2>2
<1>9. ~Whole(<<>>)
  BY EmptyNotWhole
<1> QED BY <1>5, <1>6, <1>8, <1>9 DEF WorkerFlow

\* Half of the response is read.
LEMMA MoreFlows ==
    ASSUME WorkerTypes, WorkerFlow, Own, More
    PROVE  Own' /\ WorkerFlow' /\ c_worker'.pc = "read"
<1>0. /\ c_worker.stash \in Seq(ResponsePieces) /\ c_worker.conn \in Conns /\ n_in[c_worker.conn] \in Seq(ResponsePieces)
      /\ c_worker.run \in Runs /\ IsWorker(c_worker) /\ n_in \in [Conns -> Seq(ResponsePieces)] /\ c_worker.pc = "read"
      /\ UNCHANGED <<c_answer, n_opened, n_up, n_out, s_done, s_busy>>
  BY DEF WorkerTypes, WorkerOK, NetTypes, Runs, List, Incr, Calls, More, Stays, server_vars
<1>1. PICK k \in Arrived :
         /\ Len(Fed(k)) = 1
         /\ c_worker' = [c_worker EXCEPT !.stash = Fed(k)]
         /\ n_in' = Taken(c_worker.conn, k)
  BY Zenon DEF More
<1>2. k \in 1 .. Len(n_in[c_worker.conn]) /\ Fed(k) = c_worker.stash \o SubSeq(n_in[c_worker.conn], 1, k)
  BY DEF Arrived, Fed
<1> DEFINE c == c_worker.conn
           R == c_worker.run
<1>3. Flows(n_up[c], n_out[c], s_busy[c], n_in[c], Range(s_done), R, c_worker.stash)
  BY <1>0 DEF WorkerFlow, Flow
<1>4. /\ Fed(k) = <<Half(R, 1)>> /\ n_in[c] # <<>>
      /\ n_in[c] # Pieces(R) => SubSeq(n_in[c], k + 1, Len(n_in[c])) = <<>>
      /\ n_in[c] = Pieces(R) => SubSeq(n_in[c], k + 1, Len(n_in[c])) = <<Half(R, 2)>>
  BY <1>0, <1>1, WorkerMeets
<1>5. c_worker'.stash = <<Half(R, 1)>> /\ c_worker'.conn = c /\ c_worker'.run = R /\ c_worker'.pc = "read"
  BY <1>0, <1>1, <1>4 DEF IsWorker
<1>6. n_in'[c] = SubSeq(n_in[c], k + 1, Len(n_in[c]))
  BY <1>0, <1>1 DEF Taken
<1>7. Len(<<Half(R, 1)>>) = 1 /\ <<Half(R, 1)>> \in Seq(ResponsePieces) /\ <<Half(R, 1)>> # <<Half(R, 2)>>
  BY <1>0, HalfFacts
<1>8. Flows(n_up[c], n_out[c], s_busy[c], n_in'[c], Range(s_done), R, <<Half(R, 1)>>)
  <2>1. CASE n_in[c] = Pieces(R)
    <3>1. n_in'[c] = <<Half(R, 2)>>
      BY <1>4, <1>6, <2>1
    <3> QED BY <1>3, <1>4, <2>1, <3>1 DEF Flows
  <2>2. CASE n_in[c] # Pieces(R)
    <3>1. n_in'[c] = <<>>
      BY <1>4, <1>6, <2>2
    <3>2. ~n_up[c]
      <4>1. n_in[c] # <<Half(R, 2)>>
        <5>1. ASSUME n_in[c] = <<Half(R, 2)>> PROVE FALSE
          <6>1. c_worker.stash = <<Half(R, 1)>>
            <7>1. <<Half(R, 2)>> # <<>> /\ <<Half(R, 2)>> # <<Half(R, 1)>>
              BY <1>7
            <7> QED BY <1>3, <2>2, <5>1, <7>1 DEF Flows
          <6>2. Len(c_worker.stash) = 1 /\ Len(Fed(k)) = Len(c_worker.stash) + k
            BY <1>0, <1>2, <6>1, FedParts
          <6> QED BY <1>1, <1>2, <6>2
        <5> QED BY <5>1
      <4> QED BY <1>3, <1>4, <2>2, <4>1 DEF Flows
    <3> QED BY <1>3, <3>1, <3>2 DEF Flows
  <2> QED BY <2>1, <2>2
<1>9. ~Whole(c_worker'.stash)
  <2>1. PICK t : t = <<Half(R, 1)>>
    OBVIOUS
  <2>2. t \in Seq(ResponsePieces) /\ Len(t) < 2
    BY <1>7, <2>1
  <2>3. ~Whole(t)
    BY <2>2, NotWhole
  <2> QED BY <1>5, <2>1, <2>3
<1> QED BY <1>0, <1>5, <1>8, <1>9 DEF WorkerFlow, Flow, Own

\* The run is written, with nothing due.
LEMMA WriteFlows ==
    ASSUME WorkerTypes, ~Whole(c_worker.stash), Own, Write, "due" \notin c_mixed'
    PROVE  Own' /\ WorkerFlow'
<1>0. /\ c_worker.conn \in Conns /\ n_out \in [Conns -> Seq(Runs)] /\ c_worker.run \in Runs /\ IsWorker(c_worker)
      /\ UNCHANGED <<c_answer, n_opened, n_up, n_in, s_done, s_busy>>
      /\ c_worker' = [c_worker EXCEPT !.pc = "read"] /\ Send(c_worker.conn, c_worker.run, {})
  BY DEF WorkerTypes, WorkerOK, NetTypes, Runs, List, Incr, Calls, Write, Stays, server_vars
<1> DEFINE c == c_worker.conn
           R == c_worker.run
<1>1. ~Due(c)
  BY <1>0 DEF Send
<1>2. c_worker'.stash = c_worker.stash /\ c_worker'.conn = c /\ c_worker'.run = R /\ c_worker'.pc = "read"
  BY <1>0 DEF IsWorker
<1>3. n_in[c] = <<>> /\ (n_up[c] => n_out[c] = <<>> /\ s_busy[c] = Idle)
  BY <1>1 DEF Due
<1>4. n_out'[c] = IF n_up[c] THEN Append(n_out[c], R) ELSE n_out[c]
  BY <1>0 DEF Send
<1>5. Append(<<>>, R) = <<R>>
  OBVIOUS
<1>6. Flows(n_up[c], n_out'[c], s_busy[c], n_in[c], Range(s_done), R, c_worker.stash)
  BY <1>3, <1>4, <1>5 DEF Flows
<1> QED BY <1>0, <1>2, <1>6 DEF WorkerFlow, Flow, Own

(* No step of a worker of Rust, Python or Go breaks the two, unless it     *)
(* writes while a response is due.                                         *)
LEMMA WorkerFlows ==
    ASSUME WorkerTypes, WorkerFlow, Own, WorkerStep, "due" \notin c_mixed'
    PROVE  Own' /\ WorkerFlow'
<1>0. NetTypes /\ s_done' = s_done /\ IsWorker(c_worker) /\ ~Whole(<<>>) /\ ~Whole(c_worker.stash)
  <2>1. ~Whole(<<>>)
    BY EmptyNotWhole
  <2> QED BY <2>1 DEF WorkerTypes, WorkerOK, WorkerFlow, WorkerStep, Regroup, Write, Retry, Fail, Settle, More, Stays, server_vars
<1>1. CASE Regroup
  <2>1. PICK S \in SUBSET Calls : Refuses(S)
    BY <1>1 DEF Regroup
  <2>2. Own'
    BY <1>0, <2>1, OwnRefused
  <2>3. c_worker'.pc # "read" /\ c_worker'.stash \in {<<>>, c_worker.stash}
    BY <1>1 DEF Regroup
  <2> QED BY <1>0, <2>2, <2>3 DEF WorkerFlow
<1>2. CASE Write
  BY <1>0, <1>2, WriteFlows
<1>3. CASE Retry
  <2>1. PICK stash \in Seq(ResponsePieces) :
           /\ Spoils(stash)
           /\ c_worker' = [c_worker EXCEPT !.pc = "write", !.try = 2, !.stash = stash, !.conn = n_opened + 1]
    BY <1>3 DEF Retry
  <2>2. c_worker'.pc = "write" /\ c_worker'.stash = stash
    BY <1>0, <2>1 DEF IsWorker
  <2>3. c_worker.pc = "read" /\ c_answer' = c_answer
    BY <1>3 DEF Retry
  <2>4. ~Whole(stash)
    BY <2>1, <2>3, SpoilsNotWhole
  <2> QED BY <1>0, <2>2, <2>3, <2>4 DEF WorkerFlow, Own
<1>4. CASE Fail
  <2>1. PICK pc \in {"idle", "segment", "direct", "queue", "gone"}, run \in {c_worker.run, <<>>},
             cmds \in {c_worker.cmds, <<>>}, stash \in Seq(ResponsePieces), dead \in {c_worker.dead, TRUE},
             S \in SUBSET Calls : Ends(pc, run, cmds, stash, dead, S)
    BY <1>4 DEF Fail
  <2>2. c_worker' = [c_worker EXCEPT !.pc = pc, !.run = run, !.cmds = cmds, !.stash = stash, !.dead = dead]
        /\ Spoils(stash) /\ Refuses(S)
    BY <2>1 DEF Ends
  <2>3. c_worker'.pc = pc /\ c_worker'.stash = stash
    BY <1>0, <2>2 DEF IsWorker
  <2>4. ~Whole(stash)
    BY <1>4, <2>2, SpoilsNotWhole DEF Fail
  <2>5. Own'
    BY <1>0, <2>2, OwnRefused
  <2> QED BY <2>3, <2>4, <2>5 DEF WorkerFlow
<1>5. CASE Settle
  BY <1>5, SettleFlows
<1>6. CASE More
  BY <1>6, MoreFlows
<1> QED BY <1>1, <1>2, <1>3, <1>4, <1>5, <1>6 DEF WorkerStep

\* A new connection, and those behind it, are unused.
LEMMA Opening ==
    ASSUME NetTypes, Virgin, NEW old \in Conns, old <= n_opened, Reconnected(old), s_busy' = s_busy,
           \A d \in Conns : d > n_opened + 1 => n_out'[d] = n_out[d]
    PROVE  /\ Virgin' /\ n_opened' = n_opened + 1 /\ n_opened + 1 \in Conns
           /\ n_in'[n_opened + 1] = <<>> /\ n_out[n_opened + 1] = <<>> /\ s_busy[n_opened + 1] = Idle
<1>0. \A d \in Conns : d \in Nat /\ d # 0
  BY NetAssumption DEF Conns
<1>1. n_opened' = n_opened + 1 /\ n_opened + 1 \in Conns /\ n_opened \in Nat /\ old \in Nat /\ \A d \in Conns : d \in Nat
  <2>1. n_opened \in Conns /\ old \in Conns \cup {0}
    BY DEF NetTypes
  <2>2. n_opened' = n_opened + 1 /\ n_opened + 1 \in Conns
    BY <2>1, ReconnectTypes
  <2> QED BY <1>0, <2>1, <2>2
<1>2. n_in \in [Conns -> Seq(ResponsePieces)] /\ n_up \in [Conns -> BOOLEAN] /\ old # 0
  BY <1>0 DEF NetTypes
<1>3. /\ n_up' = [c \in Conns |-> IF c = n_opened + 1 THEN TRUE ELSE IF c = old THEN FALSE ELSE n_up[c]]
      /\ n_in' = [n_in EXCEPT ![old] = <<>>]
  BY <1>2 DEF Reconnected
<1>4. ASSUME NEW d \in Conns, d > n_opened + 1 PROVE n_out'[d] = <<>> /\ n_in'[d] = <<>> /\ s_busy'[d] = Idle /\ ~n_up'[d]
  <2>1. d > n_opened /\ d # n_opened + 1
    BY <1>1, <1>4
  <2>2. n_out[d] = <<>> /\ n_in[d] = <<>> /\ s_busy[d] = Idle /\ ~n_up[d]
    BY <2>1 DEF Virgin
  <2> QED BY <1>2, <1>3, <1>4, <2>1, <2>2
<1>5. n_opened + 1 > n_opened /\ n_opened + 1 # old
  BY <1>1
<1>6. n_out[n_opened + 1] = <<>> /\ n_in[n_opened + 1] = <<>> /\ s_busy[n_opened + 1] = Idle
  BY <1>1, <1>5 DEF Virgin
<1>7. n_in'[n_opened + 1] = <<>>
  BY <1>1, <1>2, <1>3, <1>5, <1>6
<1> QED BY <1>1, <1>4, <1>6, <1>7 DEF Virgin

(* A worker opens connections in order, and a mix-up is never forgotten.   *)
LEMMA WorkerReaches ==
    ASSUME WorkerTypes, Reached, WorkerStep
    PROVE  Reached' /\ c_mixed \subseteq c_mixed'
<1>0. /\ NetTypes /\ IsWorker(c_worker) /\ c_worker.conn \in Conns /\ s_busy' = s_busy /\ n_opened \in Nat
      /\ c_worker.conn <= n_opened /\ Virgin /\ c_worker.conn \in Nat /\ \A d \in Conns : d \in Nat
      /\ n_in \in [Conns -> Seq(ResponsePieces)] /\ n_up \in [Conns -> BOOLEAN] /\ n_out \in [Conns -> Seq(Runs)]
  <2>1. \A d \in Conns : d \in Nat
    BY NetAssumption DEF Conns
  <2>2. s_busy' = s_busy
    BY DEF WorkerStep, Regroup, Write, Retry, Fail, Settle, More, Stays, server_vars
  <2>3. NetTypes /\ IsWorker(c_worker) /\ c_worker.conn \in Conns /\ c_worker.conn <= n_opened /\ Virgin
    BY DEF WorkerTypes, WorkerOK, Reached
  <2>4. /\ n_opened \in Conns
        /\ n_in \in [Conns -> Seq(ResponsePieces)] /\ n_up \in [Conns -> BOOLEAN] /\ n_out \in [Conns -> Seq(Runs)]
    BY <2>3 DEF NetTypes
  <2> QED BY <2>1, <2>2, <2>3, <2>4
<1>1. ASSUME Opens, n_out' = n_out PROVE Reached'
  <2>1. Virgin' /\ n_opened' = n_opened + 1
    BY <1>0, <1>1, Opening DEF Opens
  <2> QED BY <1>0, <1>1, <2>1 DEF Opens, Reached
<1>2. ASSUME n_opened' = n_opened, c_worker'.conn = c_worker.conn,
             \A d \in Conns : d # c_worker.conn => n_out'[d] = n_out[d] /\ n_in'[d] = n_in[d] /\ n_up'[d] = n_up[d]
      PROVE  Reached'
  <2>1. \A d \in Conns : d > n_opened => d # c_worker.conn
    BY <1>0
  <2> QED BY <1>0, <1>2, <2>1 DEF Reached, Virgin
<1>3. CASE Regroup
  <2>1. n_out' = n_out /\ c_mixed' = c_mixed
    BY <1>3 DEF Regroup
  <2> QED BY <1>1, <1>2, <1>3, <2>1 DEF Regroup
<1>4. CASE Write
  <2>1. c_worker'.conn = c_worker.conn /\ UNCHANGED <<n_opened, n_up, n_in>> /\ c_mixed \subseteq c_mixed'
    BY <1>0, <1>4 DEF Write, IsWorker, Send
  <2>2. \A d \in Conns : d # c_worker.conn => n_out'[d] = n_out[d]
    BY <1>0, <1>4 DEF Write, Send
  <2> QED BY <1>2, <2>1, <2>2
<1>5. CASE Retry
  BY <1>1, <1>5 DEF Retry
<1>6. CASE Fail
  <2>1. c_worker'.conn = c_worker.conn /\ UNCHANGED <<n_opened, n_out, c_mixed>>
    BY <1>0, <1>6 DEF Fail, Ends, IsWorker
  <2>2. \A d \in Conns : d # c_worker.conn => n_in'[d] = n_in[d] /\ n_up'[d] = n_up[d]
    BY <1>0, <1>6 DEF Fail, Taken
  <2> QED BY <1>2, <2>1, <2>2
<1>7. CASE Settle
  <2>1. c_worker'.conn = c_worker.conn /\ UNCHANGED <<n_opened, n_out, n_up, c_mixed>>
    BY <1>0, <1>7 DEF Settle, IsWorker
  <2>2. \A d \in Conns : d # c_worker.conn => n_in'[d] = n_in[d]
    BY <1>0, <1>7 DEF Settle, Taken
  <2> QED BY <1>2, <2>1, <2>2
<1>8. CASE More
  <2>1. c_worker'.conn = c_worker.conn /\ UNCHANGED <<n_opened, n_out, n_up, c_mixed>>
    BY <1>0, <1>8 DEF More, IsWorker
  <2>2. \A d \in Conns : d # c_worker.conn => n_in'[d] = n_in[d]
    BY <1>0, <1>8 DEF More, Taken
  <2> QED BY <1>2, <2>1, <2>2
<1> QED BY <1>3, <1>4, <1>5, <1>6, <1>7, <1>8 DEF WorkerStep

(* After every exchange that failed, the Rust worker starts afresh on a    *)
(* new connection.                                                         *)
LEMMA RustCleans ==
    ASSUME WorkerTypes, Reached, c_lang = "rust", RustClean, WorkerFlow, Own, WorkerStep
    PROVE  RustClean'
<1>0. /\ NetTypes /\ IsWorker(c_worker) /\ c_worker.conn \in Conns /\ s_busy' = s_busy /\ c_lang' = c_lang
      /\ c_worker.conn <= n_opened /\ Virgin
      /\ c_mixed = {} /\ (c_worker.pc # "read" /\ Fit(c_worker) => ~Due(c_worker.conn))
  BY DEF WorkerTypes, WorkerOK, Reached, RustClean, WorkerStep, Regroup, Write, Retry, Fail, Settle, More, Stays, server_vars
<1>1. ASSUME Opens, n_out' = n_out PROVE ~Due(c_worker.conn)'
  <2>1. n_in'[n_opened + 1] = <<>> /\ n_out[n_opened + 1] = <<>> /\ s_busy[n_opened + 1] = Idle
    BY <1>0, <1>1, Opening DEF Opens
  <2>2. c_worker'.conn = n_opened + 1
    BY <1>1 DEF Opens
  <2> QED BY <1>0, <1>1, <2>1, <2>2 DEF Due
<1>3. CASE Regroup
  <2>1. n_out' = n_out /\ c_mixed' = c_mixed /\ c_worker.pc # "read"
    BY <1>3 DEF Regroup
  <2>2. CASE Opens
    BY <1>0, <1>1, <2>1, <2>2 DEF RustClean
  <2>3. CASE UNCHANGED <<n_opened, n_up, n_in>> /\ c_worker'.conn = c_worker.conn /\ (Fit(c_worker') => Fit(c_worker))
    <3>1. Due(c_worker.conn)' <=> Due(c_worker.conn)
      BY <1>0, <2>1, <2>3 DEF Due
    <3>2. Fit(c_worker)' <=> Fit(c_worker')
      BY DEF Fit
    <3> QED BY <1>0, <2>1, <2>3, <3>1, <3>2 DEF RustClean
  <2> QED BY <1>3, <2>2, <2>3 DEF Regroup
<1>4. CASE Write
  <2>1. ~Due(c_worker.conn)
    BY <1>0, <1>4 DEF Write, Fit
  <2>2. c_mixed' = {}
    BY <1>0, <1>4, <2>1 DEF Write, Send
  <2>3. c_worker'.pc = "read"
    BY <1>0, <1>4 DEF Write, IsWorker
  <2> QED BY <2>2, <2>3 DEF RustClean
<1>5. CASE Retry
  BY <1>0, <1>1, <1>5 DEF Retry, RustClean
<1>6. CASE Fail
  <2>1. PICK pc \in {"idle", "segment", "direct", "queue", "gone"}, run \in {c_worker.run, <<>>},
             cmds \in {c_worker.cmds, <<>>}, stash \in Seq(ResponsePieces), dead \in {c_worker.dead, TRUE},
             S \in SUBSET Calls : Ends(pc, run, cmds, stash, dead, S)
    BY <1>6 DEF Fail
  <2>2. c_worker' = [c_worker EXCEPT !.pc = pc, !.run = run, !.cmds = cmds, !.stash = stash, !.dead = dead]
        /\ dead /\ pc = "idle"
    BY <2>1 DEF Ends
  <2>3. c_worker'.pc = pc /\ c_worker'.dead = dead
    BY <1>0, <2>2 DEF IsWorker
  <2>4. ~Fit(c_worker)'
    BY <2>2, <2>3 DEF Fit
  <2>5. c_mixed' = c_mixed
    BY <1>6 DEF Fail
  <2> QED BY <1>0, <2>4, <2>5 DEF RustClean
<1>7. CASE Settle
  <2>1. n_in'[c_worker.conn] = <<>> /\ n_in[c_worker.conn] # <<>> /\ c_worker'.conn = c_worker.conn
    BY <1>7, SettleFlows
  <2>2. n_up' = n_up /\ n_out' = n_out /\ c_mixed' = c_mixed /\ c_worker.pc = "read"
    BY <1>7 DEF Settle
  <2>3. n_up[c_worker.conn] => n_out[c_worker.conn] = <<>> /\ s_busy[c_worker.conn] = Idle
    BY <2>1, <2>2 DEF WorkerFlow, Flow, Flows
  <2>4. ~Due(c_worker.conn)'
    BY <1>0, <2>1, <2>2, <2>3 DEF Due
  <2> QED BY <1>0, <2>2, <2>4 DEF RustClean
<1>8. CASE More
  <2>1. c_worker'.pc = "read" /\ c_mixed' = c_mixed
    BY <1>8, MoreFlows DEF More
  <2> QED BY <1>0, <2>1 DEF RustClean
<1> QED BY <1>3, <1>4, <1>5, <1>6, <1>7, <1>8 DEF WorkerStep

\* Calls that are made, deadlines of callers and the end of the client.
WorkerEvent ==
    /\ \E S \in SUBSET Calls : Refuses(S)
    /\ c_worker'.pc = c_worker.pc /\ c_worker'.run = c_worker.run /\ c_worker'.stash = c_worker.stash
    /\ c_worker'.conn = c_worker.conn /\ c_worker'.dead = c_worker.dead
    /\ UNCHANGED <<c_lang, c_mixed, n_opened, n_out, s_busy, s_done>>
    /\ \/ UNCHANGED <<n_up, n_in>>
       \/ /\ c_lang # "rust"
          /\ n_up' = [n_up EXCEPT ![c_worker.conn] = FALSE] /\ n_in' = [n_in EXCEPT ![c_worker.conn] = <<>>]

(* Issuing, giving up and closing leave the wire and the worker's reading  *)
(* alone.                                                                  *)
LEMMA WorkerEvents ==
    ASSUME WorkerTypes, c_lang # "ts", Issue \/ (\E x \in Calls : Deadline(x)) \/ Close
    PROVE  WorkerEvent
<1>0. NetTypes /\ IsWorker(c_worker) /\ c_lang \in {"rust", "py", "go"}
  BY LangsAssumption DEF WorkerTypes, WorkerOK, NetTypes
<1>n. UNCHANGED c_answer => \E S \in SUBSET Calls : Refuses(S)
  BY <1>0, RefusesNone
<1>1. CASE Issue
  <2>1. UNCHANGED <<c_lang, n_opened, n_up, n_in, n_out, s_busy, s_done>>
    BY <1>0, <1>1 DEF Issue, server_vars
  <2>2. CASE c_worker.closed
    <3>1. UNCHANGED <<c_worker, c_mixed>> /\ c_answer' = Refused({c_issued + 1}, "closed") /\ c_issued + 1 \in Calls
      BY <1>1, <2>2 DEF Issue
    <3>2. Refuses({c_issued + 1})
      BY <3>1 DEF Refuses
    <3> QED BY <2>1, <3>1, <3>2 DEF WorkerEvent
  <2>3. CASE ~c_worker.closed
    <3>1. c_answer' = c_answer /\ c_mixed' = c_mixed
      BY <1>0, <1>1, <2>3 DEF Issue
    <3>2. \/ c_worker' = [c_worker EXCEPT !.queue = Append(c_worker.queue, c_issued + 1)]
          \/ c_worker' = [c_worker EXCEPT !.direct = Append(c_worker.direct, c_issued + 1)]
      BY <1>0, <1>1, <2>3 DEF Issue, RustExec, PyExec, GoExec
    <3>3. /\ c_worker'.pc = c_worker.pc /\ c_worker'.run = c_worker.run /\ c_worker'.stash = c_worker.stash
          /\ c_worker'.conn = c_worker.conn /\ c_worker'.dead = c_worker.dead
      BY <1>0, <3>2 DEF IsWorker
    <3> QED BY <1>n, <2>1, <3>1, <3>3 DEF WorkerEvent
  <2> QED BY <2>2, <2>3
<1>2. CASE \E x \in Calls : Deadline(x)
  <2>1. PICK x \in Calls : PyGiveUp(x)
    BY <1>0, <1>2 DEF Deadline
  <2>2. c_answer' = Refused({x}, "timeout") /\ UNCHANGED <<c_lang, c_worker, c_mixed, net_vars, server_vars>>
    BY <2>1 DEF PyGiveUp
  <2>3. Refuses({x})
    BY <2>2 DEF Refuses
  <2> QED BY <2>2, <2>3 DEF WorkerEvent, net_vars, server_vars
<1>3. CASE Close
  <2>1. CASE PyClose /\ c_lang = "py"
    <3>1. /\ UNCHANGED <<c_lang, c_answer, c_mixed, n_opened, n_out, s_busy, s_done>>
          /\ c_worker' = [c_worker EXCEPT !.closed = TRUE]
          /\ n_up' = [n_up EXCEPT ![c_worker.conn] = FALSE] /\ n_in' = [n_in EXCEPT ![c_worker.conn] = <<>>]
      BY <2>1 DEF PyClose, server_vars
    <3>2. /\ c_worker'.pc = c_worker.pc /\ c_worker'.run = c_worker.run /\ c_worker'.stash = c_worker.stash
          /\ c_worker'.conn = c_worker.conn /\ c_worker'.dead = c_worker.dead
      BY <1>0, <3>1 DEF IsWorker
    <3> QED BY <1>n, <2>1, <3>1, <3>2 DEF WorkerEvent
  <2>2. CASE GoClose /\ c_lang = "go"
    <3>1. /\ UNCHANGED <<c_lang, c_answer, c_mixed, n_opened, n_out, s_busy, s_done>>
          /\ c_worker' = [c_worker EXCEPT !.closed = TRUE]
          /\ \/ UNCHANGED <<n_up, n_in>>
             \/ n_up' = [n_up EXCEPT ![c_worker.conn] = FALSE] /\ n_in' = [n_in EXCEPT ![c_worker.conn] = <<>>]
      BY <2>2 DEF GoClose, net_vars, server_vars
    <3>2. /\ c_worker'.pc = c_worker.pc /\ c_worker'.run = c_worker.run /\ c_worker'.stash = c_worker.stash
          /\ c_worker'.conn = c_worker.conn /\ c_worker'.dead = c_worker.dead
      BY <1>0, <3>1 DEF IsWorker
    <3> QED BY <1>n, <2>2, <3>1, <3>2 DEF WorkerEvent
  <2> QED BY <1>0, <1>3, <2>1, <2>2 DEF Close
<1> QED BY <1>1, <1>2, <1>3

(* Such a step breaks nothing.                                             *)
LEMMA EventFlows ==
    ASSUME WorkerTypes, WorkerEvent
    PROVE  /\ Reached => Reached' /\ (RustClean => RustClean')
           /\ Own /\ WorkerFlow => Own' /\ WorkerFlow'
<1>0. /\ NetTypes /\ c_worker.conn \in Conns /\ n_opened \in Nat /\ c_worker.conn \in Nat /\ \A d \in Conns : d \in Nat
      /\ n_in \in [Conns -> Seq(ResponsePieces)] /\ n_up \in [Conns -> BOOLEAN]
  BY DEF WorkerTypes, WorkerOK, NetTypes, Conns
<1>1. /\ c_worker'.pc = c_worker.pc /\ c_worker'.run = c_worker.run /\ c_worker'.stash = c_worker.stash
      /\ c_worker'.conn = c_worker.conn /\ c_worker'.dead = c_worker.dead
      /\ UNCHANGED <<c_lang, c_mixed, n_opened, n_out, s_busy, s_done>>
  BY DEF WorkerEvent
<1>2. \/ UNCHANGED <<n_up, n_in>>
      \/ /\ c_lang # "rust" /\ n_up' = [n_up EXCEPT ![c_worker.conn] = FALSE] /\ n_in' = [n_in EXCEPT ![c_worker.conn] = <<>>]
  BY DEF WorkerEvent
<1>3. ASSUME Reached PROVE Reached'
  <2>1. \A d \in Conns : d > n_opened => n_up'[d] = n_up[d] /\ n_in'[d] = n_in[d]
    BY <1>0, <1>2, <1>3 DEF Reached
  <2> QED BY <1>1, <1>3, <2>1 DEF Reached, Virgin
<1>4. RustClean => RustClean'
  BY <1>1, <1>2 DEF RustClean, Fit, Due
<1>5. ASSUME Own PROVE Own'
  <2>1. PICK S \in SUBSET Calls : Refuses(S)
    BY DEF WorkerEvent
  <2> QED BY <1>0, <1>1, <1>5, <2>1, OwnRefused
<1>6. ASSUME WorkerFlow PROVE WorkerFlow'
  <2>1. ~Whole(c_worker'.stash)
    BY <1>1, <1>6 DEF WorkerFlow
  <2>2. ASSUME c_worker.pc = "read"
        PROVE  Flows(n_up'[c_worker.conn], n_out[c_worker.conn], s_busy[c_worker.conn], n_in'[c_worker.conn],
                     Range(s_done), c_worker.run, c_worker.stash)
    <3>1. Flows(n_up[c_worker.conn], n_out[c_worker.conn], s_busy[c_worker.conn], n_in[c_worker.conn],
                     Range(s_done), c_worker.run, c_worker.stash)
      BY <1>6, <2>2 DEF WorkerFlow, Flow
    <3>2. CASE UNCHANGED <<n_up, n_in>>
      BY <3>1, <3>2
    <3>3. CASE n_up' = [n_up EXCEPT ![c_worker.conn] = FALSE] /\ n_in' = [n_in EXCEPT ![c_worker.conn] = <<>>]
      <4>1. n_up'[c_worker.conn] = FALSE /\ n_in'[c_worker.conn] = <<>>
        BY <1>0, <3>3
      <4> QED BY <4>1 DEF Flows
    <3> QED BY <1>2, <3>2, <3>3
  <2> QED BY <1>1, <2>1, <2>2 DEF WorkerFlow, Flow
<1> QED BY <1>3, <1>4, <1>5, <1>6

(* The flushes that listen.                                                *)

\* The task t reads from the connection c.
Hears(t, c) == t.pc = "read" /\ t.conn = c

\* Whoever listens to connection c is alone, and meets its own response.
Listeners(s, c, st) ==
    /\ \A i, j \in 1 .. Len(s) : Hears(s[i], c) /\ Hears(s[j], c) => i = j
    /\ \A i \in 1 .. Len(s) : Hears(s[i], c) => Flow(c, s[i].run, st)

\* The TypeScript client: every task that reads from the present connection
\* waits for its own response alone, and the earlier connections are silent.
TsFlow ==
    /\ c_worker.stash \in Seq(ResponsePieces) /\ ~Whole(c_worker.stash)
    /\ \A d \in Conns : d # c_worker.conn => ~n_up[d] /\ n_in[d] = <<>>
    /\ \A i \in 1 .. Len(c_tasks) : c_tasks[i].pc = "read" => c_tasks[i].conn <= n_opened
    /\ n_up[c_worker.conn] \/ n_in[c_worker.conn] # <<>> => Listeners(c_tasks, c_worker.conn, c_worker.stash)

\* Each flush of r that listens is one of s.
Among(f, r, s) ==
    /\ \A j \in 1 .. Len(r) : r[j].pc = "read" => f[j] \in 1 .. Len(s) /\ r[j] = s[f[j]]
    /\ \A j, k \in 1 .. Len(r) : r[j].pc = "read" /\ r[k].pc = "read" /\ f[j] = f[k] => j = k
\* Every task of r that reads is a task of s.
Fewer(r, s) == \E f : Among(f, r, s)

(* As many tasks read when nothing changes.                                *)
LEMMA FewerSame == \A s : Fewer(s, s)
<1> TAKE s
<1> DEFINE f == [j \in 1 .. Len(s) |-> j]
<1>1. Among(f, s, s)
  BY DEF Among
<1> QED BY <1>1 DEF Fewer

(* Fewer tasks read when one ends.                                         *)
LEMMA FewerRemoved ==
    ASSUME NEW s \in Seq(TsTasks), NEW i \in 1 .. Len(s)
    PROVE  Fewer(RemoveAt(s, i), s) /\ RemoveAt(s, i) \in Seq(TsTasks)
<1> DEFINE r == RemoveAt(s, i)
           f == [j \in 1 .. Len(s) - 1 |-> IF j < i THEN j ELSE j + 1]
<1>1. Len(s) \in Nat
  OBVIOUS
<1>2. r \in Seq(TsTasks) /\ Len(r) = Len(s) - 1 /\ \A j \in 1 .. Len(s) - 1 : r[j] = s[f[j]]
  <2> DEFINE a == SubSeq(s, 1, i - 1)
             b == SubSeq(s, i + 1, Len(s))
  <2>1. /\ a \in Seq(TsTasks) /\ Len(a) = i - 1 /\ \A j \in 1 .. i - 1 : a[j] = s[j]
    BY <1>1
  <2>2. /\ b \in Seq(TsTasks) /\ Len(b) = Len(s) - i /\ \A j \in 1 .. Len(s) - i : b[j] = s[i + j]
    BY <1>1
  <2>3. r = a \o b
    BY DEF RemoveAt
  <2> HIDE DEF a, b, r
  <2>4. r \in Seq(TsTasks) /\ Len(r) = Len(s) - 1 /\ \A j \in 1 .. Len(s) - 1 : r[j] = IF j <= i - 1 THEN a[j] ELSE b[j - (i - 1)]
    BY <1>1, <2>1, <2>2, <2>3, SMTT(25)
  <2>5. ASSUME NEW j \in 1 .. Len(s) - 1 PROVE r[j] = s[f[j]]
    <3>1. CASE j < i
      BY <1>1, <2>1, <2>4, <3>1
    <3>2. CASE ~(j < i)
      <4>1. j - (i - 1) \in 1 .. Len(s) - i /\ i + (j - (i - 1)) = j + 1 /\ ~(j <= i - 1)
        BY <1>1, <3>2
      <4> QED BY <2>2, <2>4, <3>2, <4>1
    <3> QED BY <3>1, <3>2
  <2> QED BY <2>4, <2>5
<1>3. \A j \in 1 .. Len(s) - 1 : f[j] \in 1 .. Len(s) /\ \A k \in 1 .. Len(s) - 1 : f[j] = f[k] => j = k
  BY <1>1
<1> HIDE DEF r, f
<1>4. Among(f, r, s)
  BY <1>2, <1>3 DEF Among
<1> QED BY <1>2, <1>4 DEF r, Fewer

\* One flush no longer listens.
LEMMA FewerPaused ==
    ASSUME NEW s \in Seq(TsTasks), NEW i \in 1 .. Len(s), NEW t, t.pc # "read"
    PROVE  Fewer([s EXCEPT ![i] = t], s)
<1> DEFINE r == [s EXCEPT ![i] = t]
           f == [j \in 1 .. Len(s) |-> j]
<1>1. Len(s) \in Nat /\ DOMAIN s = 1 .. Len(s)
  OBVIOUS
<1>2. DOMAIN r = 1 .. Len(s) /\ r[i] = t /\ \A j \in 1 .. Len(s) : j # i => r[j] = s[j]
  BY <1>1
<1>3. Len(r) = Len(s)
  BY <1>1, <1>2
<1>4. \A j \in 1 .. Len(s) : f[j] = j
  OBVIOUS
<1> HIDE DEF r, f
<1>5. Among(f, r, s)
  BY <1>2, <1>3, <1>4 DEF Among
<1> QED BY <1>5 DEF r, Fewer

(* The places of a sequence with one more element.                         *)
LEMMA AppendAt ==
    ASSUME NEW X, NEW s \in Seq(X), NEW t \in X
    PROVE  /\ Len(s) \in Nat /\ Len(Append(s, t)) = Len(s) + 1 /\ Append(s, t)[Len(s) + 1] = t
           /\ \A j \in 1 .. Len(s) : Append(s, t)[j] = s[j] /\ j \in 1 .. Len(s) + 1
           /\ \A j \in 1 .. Len(s) + 1 : j \in 1 .. Len(s) \/ j = Len(s) + 1
  OBVIOUS

\* A flush that does not listen is added.
LEMMA FewerAdded ==
    ASSUME NEW s \in Seq(TsTasks), NEW t \in TsTasks, t.pc # "read"
    PROVE  Fewer(Append(s, t), s)
<1> DEFINE r == Append(s, t)
           f == [j \in 1 .. Len(s) |-> j]
<1>1. /\ Len(s) \in Nat /\ Len(r) = Len(s) + 1 /\ r[Len(s) + 1] = t
      /\ \A j \in 1 .. Len(s) : r[j] = s[j] /\ j \in 1 .. Len(s) + 1
      /\ \A j \in 1 .. Len(s) + 1 : j \in 1 .. Len(s) \/ j = Len(s) + 1
  BY AppendAt
<1>2. \A j \in 1 .. Len(s) : f[j] = j
  OBVIOUS
<1> HIDE DEF r, f
<1>3. \A j \in 1 .. Len(r) : r[j].pc = "read" => j \in 1 .. Len(s)
  BY <1>1
<1>4. Among(f, r, s)
  BY <1>1, <1>2, <1>3 DEF Among
<1> QED BY <1>4 DEF r, Fewer

(* What all readers of s meet, all readers of r meet.                      *)
LEMMA FewerListen ==
    \A r, s, c, st : Fewer(r, s) /\ Listeners(s, c, st) => Listeners(r, c, st)
<1> TAKE r, s, c, st
<1> HAVE Fewer(r, s) /\ Listeners(s, c, st)
<1>1. PICK f : Among(f, r, s)
  BY DEF Fewer
<1>2. \A j \in 1 .. Len(r) : Hears(r[j], c) => f[j] \in 1 .. Len(s) /\ r[j] = s[f[j]] /\ Hears(s[f[j]], c)
  BY <1>1 DEF Among, Hears
<1>3. ASSUME NEW i \in 1 .. Len(r), NEW j \in 1 .. Len(r), Hears(r[i], c), Hears(r[j], c) PROVE i = j
  <2>1. f[i] = f[j]
    BY <1>2, <1>3 DEF Listeners
  <2> QED BY <1>1, <1>3, <2>1 DEF Among, Hears
<1>4. ASSUME NEW i \in 1 .. Len(r), Hears(r[i], c) PROVE Flow(c, r[i].run, st)
  BY <1>2, <1>4 DEF Listeners
<1> QED BY <1>3, <1>4 DEF Listeners

(* Answering calls with an error breaks no answer.                         *)
LEMMA OwnTag ==
    ASSUME Own, NEW S, NEW tag, tag # "ok", c_answer' = Refused(S, tag), s_done' = s_done
    PROVE  Own'
<1> SUFFICES ASSUME NEW x \in Calls, c_answer'[x].tag = "ok" PROVE c_answer'[x].of = x /\ x \in Range(s_done')
  BY DEF Own
<1>1. c_answer'[x] = IF x \in S /\ c_answer[x] = Unanswered THEN [tag |-> tag, of |-> x] ELSE c_answer[x]
  BY DEF Refused
<1>2. c_answer'[x] = c_answer[x]
  BY <1>1
<1> QED BY <1>2 DEF Own

\* Nothing is written and nothing arrives.
LEMMA TsStill ==
    ASSUME TsFlow, Fewer(c_tasks', c_tasks), c_worker'.stash = c_worker.stash, c_worker'.conn = c_worker.conn,
           UNCHANGED <<n_opened, n_up, n_out, n_in, s_busy, s_done>>
    PROVE  TsFlow'
<1>1. PICK f : Among(f, c_tasks', c_tasks)
  BY DEF Fewer
<1>2. \A i \in 1 .. Len(c_tasks') : c_tasks'[i].pc = "read" => c_tasks'[i].conn <= n_opened
  BY <1>1 DEF Among, TsFlow
<1>3. Listeners(c_tasks, c_worker.conn, c_worker.stash) => Listeners(c_tasks', c_worker.conn, c_worker.stash)
  BY FewerListen
<1>4. Listeners(c_tasks', c_worker.conn, c_worker.stash) => Listeners(c_tasks, c_worker.conn, c_worker.stash)'
  BY DEF Listeners, Flow
<1> QED BY <1>2, <1>3, <1>4 DEF TsFlow

\* A run is written, with nothing due, by a flush that begins to listen.
LEMMA TsWrites ==
    ASSUME TsFlow, NetTypes, n_opened >= c_worker.conn, c_worker.conn \in Conns,
           NEW r \in Seq(TsTasks), Fewer(r, c_tasks), NEW t \in TsTasks, c_tasks' = Append(r, t),
           t.pc = "read", t.conn = c_worker.conn, NEW lap, Send(c_worker.conn, t.run, lap), "due" \notin c_mixed',
           c_worker'.stash = c_worker.stash, c_worker'.conn = c_worker.conn,
           UNCHANGED <<n_opened, n_up, n_in, s_busy, s_done>>
    PROVE  TsFlow'
<1> DEFINE c == c_worker.conn
<1>0. n_out \in [Conns -> Seq(Runs)] /\ t.run \in Runs
  BY DEF NetTypes, TsTasks
<1>1. n_in[c] = <<>> /\ (n_up[c] => n_out[c] = <<>> /\ s_busy[c] = Idle)
  BY DEF Send, Due
<1>2. /\ Len(r) \in Nat /\ Len(c_tasks') = Len(r) + 1 /\ c_tasks'[Len(r) + 1] = t
      /\ \A j \in 1 .. Len(r) : c_tasks'[j] = r[j]
      /\ \A j \in 1 .. Len(r) + 1 : j \in 1 .. Len(r) \/ j = Len(r) + 1
  BY AppendAt
<1>3. PICK f : Among(f, r, c_tasks)
  BY DEF Fewer
<1>4. \A i \in 1 .. Len(c_tasks') : c_tasks'[i].pc = "read" => c_tasks'[i].conn <= n_opened
  BY <1>2, <1>3 DEF Among, TsFlow
<1>5. ASSUME n_up[c], NEW i \in 1 .. Len(r), Hears(r[i], c) PROVE FALSE
  <2>1. Listeners(r, c, c_worker.stash)
    BY <1>5, FewerListen DEF TsFlow
  <2>2. Flow(c, r[i].run, c_worker.stash)
    BY <1>5, <2>1 DEF Listeners
  <2>3. <<r[i].run>> # <<>> /\ Pieces(r[i].run) # <<>> /\ <<Half(r[i].run, 2)>> # <<>>
    BY DEF Pieces
  <2> QED BY <1>1, <1>5, <2>2, <2>3 DEF Flow, Flows
<1>6. ASSUME n_up[c]
      PROVE  Flows(n_up[c], n_out'[c], s_busy[c], n_in[c], Range(s_done), t.run, c_worker.stash)
  <2>1. n_out'[c] = Append(n_out[c], t.run)
    BY <1>0, <1>6 DEF Send
  <2>2. Append(<<>>, t.run) = <<t.run>>
    OBVIOUS
  <2> QED BY <1>1, <1>6, <2>1, <2>2 DEF Flows
<1>7. ASSUME n_up[c] PROVE Listeners(c_tasks, c_worker.conn, c_worker.stash)'
  <2>1. \A i \in 1 .. Len(c_tasks') : Hears(c_tasks'[i], c) => i = Len(r) + 1 /\ c_tasks'[i] = t
    BY <1>2, <1>5, <1>7
  <2>2. Flow(c_worker.conn, t.run, c_worker.stash)'
    BY <1>6, <1>7 DEF Flow
  <2>3. t' = t
    OBVIOUS
  <2> QED BY <2>1, <2>2 DEF Listeners, Hears
<1> QED BY <1>1, <1>4, <1>7 DEF TsFlow

\* A chunk of the queue is written by a flush that begins to listen.
LEMMA TsTakeFlows ==
    ASSUME TsTypes, c_lang = "ts", Reached, TsFlow, NEW r \in Seq(TsTasks), Fewer(r, c_tasks),
           NEW next \in Calls \cup {0}, NEW w, NEW try \in {1, 2},
           Send(c_worker.conn, TsChunk(c_worker.queue), TsOverlap),
           c_tasks' = Append(r, TsListening(TsChunk(c_worker.queue), 1, c_worker.conn, TRUE, next)),
           c_worker' = [c_worker EXCEPT !.queue = SubSeq(c_worker.queue, Len(TsChunk(c_worker.queue)) + 1, Len(c_worker.queue)),
                                        !.sched = w],
           "due" \notin c_mixed', UNCHANGED <<n_opened, n_up, n_in, s_busy, s_done>>
    PROVE  TsFlow'
<1>1. NetTypes /\ IsWorker(c_worker) /\ c_worker.conn \in Conns /\ n_opened >= c_worker.conn /\ List(c_worker.queue)
  <2>1. NetTypes /\ c_worker.conn \in Conns /\ n_opened \in Conns /\ c_worker.conn <= n_opened
    BY DEF TsTypes, NetTypes, Reached
  <2>2. \A d \in Conns : d \in Nat
    BY NetAssumption DEF Conns
  <2> QED BY <2>1, <2>2 DEF TsTypes
<1>2. TsChunk(c_worker.queue) \in Runs
  BY <1>1, ChunkFacts
<1>3. PICK t, c, run : t = TsListening(run, 1, c, TRUE, next) /\ c = c_worker.conn /\ run = TsChunk(c_worker.queue)
  OBVIOUS
<1>4. Flushing(t, "read", run, c, next)
  <2>1. run \in Runs /\ 1 \in {1, 2} /\ c \in Conns /\ TRUE \in BOOLEAN
    BY <1>1, <1>2, <1>3
  <2> QED BY <1>3, <2>1, ListeningFacts, Zenon
<1>5. t \in TsTasks /\ t.pc = "read" /\ t.conn = c_worker.conn /\ c_tasks' = Append(r, t) /\ t.run = run
  BY <1>3, <1>4 DEF Flushing
<1>6. c_worker'.stash = c_worker.stash /\ c_worker'.conn = c_worker.conn
  BY <1>1 DEF IsWorker
<1>7. PICK lap : lap = TsOverlap
  OBVIOUS
<1>8. Send(c_worker.conn, t.run, lap)
  BY <1>3, <1>5, <1>7
<1> QED BY <1>1, <1>5, <1>6, <1>8, TsWrites

(* The tasks of the TypeScript client are a sequence.                      *)
LEMMA TsTasksSeq ==
    ASSUME TsTypes PROVE c_tasks \in Seq(TsTasks) /\ Len(c_tasks) \in Nat /\ DOMAIN c_tasks = 1 .. Len(c_tasks)
                         /\ \A i \in 1 .. Len(c_tasks) : c_tasks[i] \in TsTasks
  BY DEF TsTypes, FlushesOK

(* A call that starts a flush of its own writes only when no response is   *)
(* due.                                                                    *)
LEMMA TsIssueFlows ==
    ASSUME TsTypes, c_lang = "ts", Reached, TsFlow, Own, Issue, "due" \notin c_mixed'
    PROVE  Own' /\ TsFlow'
<1>0. /\ c_tasks \in Seq(TsTasks) /\ IsWorker(c_worker) /\ Fewer(c_tasks, c_tasks)
      /\ UNCHANGED <<c_lang, n_opened, n_up, n_in, s_busy, s_done>>
  BY TsTasksSeq, FewerSame DEF TsTypes, Issue, server_vars
<1>1. CASE c_worker.closed
  <2>1. c_answer' = Refused({c_issued + 1}, "closed") /\ UNCHANGED <<c_worker, c_tasks, n_out>>
    BY <1>1 DEF Issue
  <2>2. Own'
    BY <1>0, <2>1, OwnTag
  <2> QED BY <1>0, <2>1, <2>2, TsStill
<1>2. CASE ~c_worker.closed
  <2>1. PICK x : x = c_issued + 1
    OBVIOUS
  <2>2. c_answer' = c_answer /\ TsExec(x) /\ x \in Calls
    BY <1>2, <2>1 DEF Issue
  <2>3. Own'
    BY <1>0, <2>2 DEF Own
  <2>4. CASE TsOps[c_op[x]].direct /\ c_worker.queue # <<>>
    <3>1. TsTakeRun(c_tasks, x)
      BY <2>2, <2>4 DEF TsExec
    <3>2. PICK w, next, r : w = c_worker.sched /\ next = x /\ r = c_tasks
      OBVIOUS
    <3>3. /\ Send(c_worker.conn, TsChunk(c_worker.queue), TsOverlap)
          /\ c_tasks' = Append(r, TsListening(TsChunk(c_worker.queue), 1, c_worker.conn, TRUE, next))
          /\ c_worker' = [c_worker EXCEPT !.queue = SubSeq(c_worker.queue, Len(TsChunk(c_worker.queue)) + 1, Len(c_worker.queue)),
                                          !.sched = w]
      BY <3>1, <3>2 DEF TsTakeRun
    <3>4. next \in Calls \cup {0} /\ r \in Seq(TsTasks) /\ Fewer(r, c_tasks) /\ 1 \in {1, 2}
      BY <1>0, <2>2, <3>2
    <3>5. TsFlow'
      BY <1>0, <3>3, <3>4, TsTakeFlows
    <3> QED BY <2>3, <3>5
  <2>5. CASE TsOps[c_op[x]].direct /\ c_worker.queue = <<>>
    <3>1. c_tasks' = Append(c_tasks, TsPaused("loop", <<>>, FALSE, x)) /\ UNCHANGED <<c_worker, n_out>>
      BY <2>2, <2>5 DEF TsExec
    <3>2. Flushing(TsPaused("loop", <<>>, FALSE, x), "loop", <<>>, 0, x)
      <4>1. <<>> \in Runs /\ FALSE \in BOOLEAN /\ x \in Calls \cup {0} /\ "loop" \in {"loop", "reconnect"}
        BY <2>2, NoCalls DEF Runs
      <4> QED BY <4>1, PausedFacts, Zenon
    <3>3. Fewer(c_tasks', c_tasks)
      BY <1>0, <3>1, <3>2, FewerAdded DEF Flushing
    <3> QED BY <1>0, <2>3, <3>1, <3>3, TsStill
  <2>6. CASE ~TsOps[c_op[x]].direct
    <3>1. c_worker' = [c_worker EXCEPT !.queue = Append(c_worker.queue, x), !.sched = TRUE] /\ UNCHANGED <<c_tasks, n_out>>
      BY <2>2, <2>6 DEF TsExec
    <3>2. c_worker'.stash = c_worker.stash /\ c_worker'.conn = c_worker.conn
      BY <1>0, <3>1 DEF IsWorker
    <3> QED BY <1>0, <2>3, <3>1, <3>2, TsStill
  <2> QED BY <2>4, <2>5, <2>6
<1> QED BY <1>1, <1>2

(* So does the flush that setImmediate had put off.                        *)
LEMMA TsImmediateFlows ==
    ASSUME TsTypes, c_lang = "ts", Reached, TsFlow, Own, TsImmediate, "due" \notin c_mixed'
    PROVE  Own' /\ TsFlow'
<1>0. /\ c_tasks \in Seq(TsTasks) /\ IsWorker(c_worker) /\ Fewer(c_tasks, c_tasks)
      /\ UNCHANGED <<c_lang, c_answer, n_opened, n_up, n_in, s_busy, s_done>>
  BY TsTasksSeq, FewerSame DEF TsTypes, TsImmediate, server_vars
<1>1. Own'
  BY <1>0 DEF Own
<1>2. CASE c_worker.queue # <<>> /\ ~c_worker.closed
  <2>1. PICK w, next, r : w = FALSE /\ next = 0 /\ r = c_tasks
    OBVIOUS
  <2>2. /\ Send(c_worker.conn, TsChunk(c_worker.queue), TsOverlap)
        /\ c_tasks' = Append(r, TsListening(TsChunk(c_worker.queue), 1, c_worker.conn, TRUE, next))
        /\ c_worker' = [c_worker EXCEPT !.queue = SubSeq(c_worker.queue, Len(TsChunk(c_worker.queue)) + 1, Len(c_worker.queue)),
                                        !.sched = w]
    <3>1. /\ Send(c_worker.conn, TsChunk(c_worker.queue), TsOverlap)
          /\ c_tasks' = Append(c_tasks, TsListening(TsChunk(c_worker.queue), 1, c_worker.conn, TRUE, 0))
          /\ c_worker' = [c_worker EXCEPT !.sched = FALSE,
                           !.queue = SubSeq(c_worker.queue, Len(TsChunk(c_worker.queue)) + 1, Len(c_worker.queue))]
      BY <1>2 DEF TsImmediate
    <3>2. PICK q : q = SubSeq(c_worker.queue, Len(TsChunk(c_worker.queue)) + 1, Len(c_worker.queue))
      OBVIOUS
    <3>3. [c_worker EXCEPT !.sched = FALSE, !.queue = q] = [c_worker EXCEPT !.queue = q, !.sched = FALSE]
      BY <1>0 DEF IsWorker
    <3> QED BY <2>1, <3>1, <3>2, <3>3
  <2>3. next \in Calls \cup {0} /\ r \in Seq(TsTasks) /\ Fewer(r, c_tasks) /\ 1 \in {1, 2}
    BY <1>0, <2>1
  <2>4. TsFlow'
    BY <1>0, <2>2, <2>3, TsTakeFlows
  <2> QED BY <1>1, <2>4
<1>3. CASE ~(c_worker.queue # <<>> /\ ~c_worker.closed)
  <2>1. c_worker' = [c_worker EXCEPT !.sched = FALSE] /\ UNCHANGED <<c_tasks, n_out>>
    BY <1>3 DEF TsImmediate
  <2>2. c_worker'.stash = c_worker.stash /\ c_worker'.conn = c_worker.conn
    BY <1>0, <2>1 DEF IsWorker
  <2> QED BY <1>0, <1>1, <2>1, <2>2, TsStill
<1> QED BY <1>2, <1>3

(* So does a task that goes on to the next run of the queue, or to the     *)
(* call that waited for its flush.                                         *)
LEMMA TsContinueFlows ==
    ASSUME TsTypes, c_lang = "ts", Reached, TsFlow, Own, NEW i \in DOMAIN c_tasks, TsContinue(i), "due" \notin c_mixed'
    PROVE  Own' /\ TsFlow'
<1>0. /\ c_tasks \in Seq(TsTasks) /\ IsWorker(c_worker) /\ i \in 1 .. Len(c_tasks) /\ c_tasks[i] \in TsTasks
      /\ UNCHANGED <<c_lang, n_opened, n_up, n_in, s_busy, s_done>>
  BY TsTasksSeq DEF TsTypes, TsContinue, server_vars
<1>1. PICK r, next, w : r = RemoveAt(c_tasks, i) /\ next = c_tasks[i].next /\ w = c_worker.sched
  OBVIOUS
<1>2. r \in Seq(TsTasks) /\ Fewer(r, c_tasks) /\ next \in Calls \cup {0}
  BY <1>0, <1>1, FewerRemoved DEF TsTasks
<1>3. CASE c_tasks[i].loop /\ c_worker.queue # <<>> /\ ~c_worker.closed
  <2>1. /\ Send(c_worker.conn, TsChunk(c_worker.queue), TsOverlap)
        /\ c_tasks' = Append(r, TsListening(TsChunk(c_worker.queue), 1, c_worker.conn, TRUE, next))
        /\ c_worker' = [c_worker EXCEPT !.queue = SubSeq(c_worker.queue, Len(TsChunk(c_worker.queue)) + 1, Len(c_worker.queue)),
                                        !.sched = w]
        /\ c_answer' = c_answer
    BY <1>1, <1>3 DEF TsContinue, TsTakeRun
  <2>2. 1 \in {1, 2}
    OBVIOUS
  <2>3. TsFlow'
    BY <1>0, <1>2, <2>1, <2>2, TsTakeFlows
  <2> QED BY <1>0, <2>1, <2>3 DEF Own
<1>4. CASE ~(c_tasks[i].loop /\ c_worker.queue # <<>> /\ ~c_worker.closed) /\ next # 0 /\ ~c_worker.closed
  <2>1. /\ Send(c_worker.conn, <<next>>, TsOverlap)
        /\ c_tasks' = Append(r, TsListening(<<next>>, 1, c_worker.conn, FALSE, 0))
        /\ UNCHANGED <<c_answer, c_worker>>
    BY <1>1, <1>4 DEF TsContinue
  <2>2. PICK t, c, run, lap : /\ t = TsListening(run, 1, c, FALSE, 0) /\ c = c_worker.conn /\ run = <<next>>
                              /\ lap = TsOverlap
    OBVIOUS
  <2>3. NetTypes /\ c_worker.conn \in Conns /\ n_opened \in Conns /\ c_worker.conn <= n_opened /\ \A d \in Conns : d \in Nat
    BY NetAssumption DEF TsTypes, NetTypes, Reached, Conns
  <2>4. Flushing(t, "read", run, c, 0)
    <3>1. next \in Calls
      BY <1>2, <1>4
    <3>2. <<next>> \in Runs
      BY <3>1, NoCalls, IncrOne DEF Runs, List, Calls
    <3>3. run \in Runs /\ 1 \in {1, 2} /\ c \in Conns /\ FALSE \in BOOLEAN /\ 0 \in Calls \cup {0}
      BY <2>2, <2>3, <3>2
    <3> QED BY <2>2, <3>3, ListeningFacts, Zenon
  <2>5. t \in TsTasks /\ t.pc = "read" /\ t.conn = c_worker.conn /\ c_tasks' = Append(r, t) /\ t.run = run
    BY <2>1, <2>2, <2>4 DEF Flushing
  <2>6. Send(c_worker.conn, t.run, lap) /\ n_opened >= c_worker.conn
    BY <2>1, <2>2, <2>3, <2>5
  <2>7. TsFlow'
    BY <1>0, <1>2, <2>1, <2>3, <2>5, <2>6, TsWrites
  <2> QED BY <1>0, <2>1, <2>7 DEF Own
<1>5. CASE ~(c_tasks[i].loop /\ c_worker.queue # <<>> /\ ~c_worker.closed) /\ ~(next # 0 /\ ~c_worker.closed)
  <2>1. c_tasks' = r /\ c_answer' = Refused({next}, "closed") /\ UNCHANGED <<c_worker, n_out>>
    BY <1>1, <1>5 DEF TsContinue
  <2>2. Own'
    BY <1>0, <2>1, OwnTag
  <2> QED BY <1>0, <1>2, <2>1, <2>2, TsStill
<1> QED BY <1>3, <1>4, <1>5

(* A task whose connection has closed reads no more.                       *)
LEMMA TsClosedFlows ==
    ASSUME TsTypes, c_lang = "ts", TsFlow, Own, NEW i \in DOMAIN c_tasks, TsClosed(i)
    PROVE  Own' /\ TsFlow'
<1>0. /\ c_tasks \in Seq(TsTasks) /\ i \in 1 .. Len(c_tasks) /\ c_tasks[i] \in TsTasks
      /\ UNCHANGED <<c_worker, n_opened, n_up, n_in, n_out, s_busy, s_done>>
  BY TsTasksSeq DEF TsTypes, TsClosed, server_vars, net_vars
<1>1. PICK u : u = c_tasks[i]
  OBVIOUS
<1>2. PICK t : c_tasks' = [c_tasks EXCEPT ![i] = t] /\ t.pc # "read"
  <2>1. /\ TsPaused("reconnect", u.run, u.loop, u.next).pc # "read"
        /\ TsPaused("loop", <<>>, u.loop, u.next).pc # "read"
    BY DEF TsPaused
  <2> QED BY <1>1, <2>1 DEF TsClosed
<1>3. Fewer(c_tasks', c_tasks)
  BY <1>0, <1>2, FewerPaused
<1>4. c_answer' = c_answer \/ c_answer' = Refused(Range(u.run), "transport")
  BY <1>1 DEF TsClosed
<1>5. Own'
  BY <1>0, <1>4, OwnTag DEF Own
<1> QED BY <1>0, <1>3, <1>5, TsStill

(* A deadline answers one call and leaves the tasks alone.                 *)
LEMMA TsTimerFlows ==
    ASSUME TsTypes, TsFlow, Own, NEW x, TsTimer(x) PROVE Own' /\ TsFlow'
<1>1. /\ c_answer' = Refused({x}, "timeout") /\ c_worker' = [c_worker EXCEPT !.queue = Without(c_worker.queue, {x})]
      /\ UNCHANGED <<c_tasks, n_opened, n_up, n_in, n_out, s_busy, s_done>> /\ IsWorker(c_worker)
  BY DEF TsTimer, net_vars, server_vars, TsTypes
<1>2. c_worker'.stash = c_worker.stash /\ c_worker'.conn = c_worker.conn
  BY <1>1 DEF IsWorker
<1>3. Own'
  BY <1>1, OwnTag
<1>4. Fewer(c_tasks', c_tasks)
  BY <1>1, FewerSame
<1> QED BY <1>1, <1>2, <1>3, <1>4, TsStill

(* close() answers every call and closes the connection.                   *)
LEMMA TsCloseFlows ==
    ASSUME TsTypes, TsFlow, Own, TsClose PROVE Own' /\ TsFlow'
<1>1. /\ c_answer' = Refused(Range(c_worker.queue), "closed") /\ c_worker' = [c_worker EXCEPT !.closed = TRUE, !.queue = <<>>]
      /\ n_up' = [n_up EXCEPT ![c_worker.conn] = FALSE] /\ n_in' = [n_in EXCEPT ![c_worker.conn] = <<>>]
      /\ UNCHANGED <<c_tasks, n_opened, n_out, s_busy, s_done>> /\ IsWorker(c_worker) /\ c_worker.conn \in Conns
      /\ n_up \in [Conns -> BOOLEAN] /\ n_in \in [Conns -> Seq(ResponsePieces)]
  BY DEF TsClose, server_vars, TsTypes, NetTypes
<1>2. c_worker'.stash = c_worker.stash /\ c_worker'.conn = c_worker.conn
  BY <1>1 DEF IsWorker
<1>3. Own'
  BY <1>1, OwnTag
<1>4. ~n_up'[c_worker.conn] /\ n_in'[c_worker.conn] = <<>> /\ \A d \in Conns : d # c_worker.conn => n_up'[d] = n_up[d] /\ n_in'[d] = n_in[d]
  BY <1>1
<1> QED BY <1>1, <1>2, <1>3, <1>4 DEF TsFlow

(* Connections are numbered from 1.                                        *)
LEMMA ConnNumbers == \A d \in Conns : d \in Nat /\ d # 0
  BY NetAssumption DEF Conns

(* A reconnecting task resends on a new connection, on which nothing is    *)
(* due.                                                                    *)
LEMMA TsReconnectFlows ==
    ASSUME TsTypes, c_lang = "ts", Reached, TsFlow, Own, NEW i \in DOMAIN c_tasks, TsReconnect(i)
    PROVE  Own' /\ TsFlow' /\ Reached'
<1>0. /\ c_tasks \in Seq(TsTasks) /\ IsWorker(c_worker) /\ i \in 1 .. Len(c_tasks) /\ c_tasks[i] \in TsTasks
      /\ UNCHANGED <<c_lang, s_busy, s_done>>
      /\ NetTypes /\ c_worker.conn \in Conns /\ n_opened \in Conns /\ c_worker.conn <= n_opened /\ Virgin
      /\ n_out \in [Conns -> Seq(Runs)] /\ n_in \in [Conns -> Seq(ResponsePieces)] /\ n_up \in [Conns -> BOOLEAN]
  BY TsTasksSeq DEF TsTypes, TsReconnect, server_vars, NetTypes, Reached
<1>1. PICK u, r, c : u = c_tasks[i] /\ r = RemoveAt(c_tasks, i) /\ c = n_opened + 1
  OBVIOUS
<1>2. r \in Seq(TsTasks) /\ Fewer(r, c_tasks) /\ u.run \in Runs /\ u.loop \in BOOLEAN /\ u.next \in Calls \cup {0}
  BY <1>0, <1>1, FewerRemoved DEF TsTasks
<1>3. CASE /\ Reconnected(c_worker.conn)
           /\ c_worker' = [c_worker EXCEPT !.conn = n_opened + 1]
           /\ c_tasks' = Append(RemoveAt(c_tasks, i), TsListening(u.run, 2, n_opened + 1, u.loop, u.next))
           /\ n_out' = [n_out EXCEPT ![n_opened + 1] = Append(n_out[n_opened + 1], u.run)]
           /\ c_answer' = c_answer
  <2>1. n_opened \in Nat /\ c_worker.conn \in Nat /\ \A d \in Conns : d \in Nat
    BY <1>0, ConnNumbers
  <2>2. \A d \in Conns : d > n_opened + 1 => n_out'[d] = n_out[d]
    BY <1>0, <1>3, <2>1
  <2>3. /\ Virgin' /\ n_opened' = c /\ c \in Conns /\ n_in'[c] = <<>> /\ n_out[c] = <<>> /\ s_busy[c] = Idle
    BY <1>0, <1>1, <1>3, <2>2, Opening
  <2>4. c_worker'.stash = c_worker.stash /\ c_worker'.conn = c
    BY <1>0, <1>1, <1>3 DEF IsWorker
  <2>5. c \in Nat /\ c <= c /\ n_opened < c /\ c # c_worker.conn /\ (\A n \in Nat : n <= n_opened => n <= c /\ n # c)
    BY <1>0, <1>1, <2>1, <2>3
  <2>6. Reached'
    BY <2>3, <2>4, <2>5 DEF Reached
  <2>7. Own'
    BY <1>0, <1>3 DEF Own
  <2>8. /\ n_up' = [d \in Conns |-> IF d = c THEN TRUE ELSE IF d = c_worker.conn THEN FALSE ELSE n_up[d]]
        /\ n_in' = [n_in EXCEPT ![c_worker.conn] = <<>>]
    <3>1. c_worker.conn # 0
      BY <1>0, ConnNumbers
    <3> QED BY <1>1, <1>3, <3>1 DEF Reconnected
  <2>9. \A d \in Conns : d # c => ~n_up'[d] /\ n_in'[d] = <<>>
    BY <1>0, <2>8 DEF TsFlow
  <2>10. PICK t : t = TsListening(u.run, 2, c, u.loop, u.next)
    OBVIOUS
  <2>11. Flushing(t, "read", u.run, c, u.next)
    <3>1. 2 \in {1, 2}
      OBVIOUS
    <3> QED BY <1>2, <2>3, <2>10, <3>1, ListeningFacts, Zenon
  <2>12. t \in TsTasks /\ t.pc = "read" /\ t.conn = c /\ t.run = u.run /\ c_tasks' = Append(r, t)
    BY <1>1, <1>3, <2>10, <2>11 DEF Flushing
  <2>13. /\ Len(r) \in Nat /\ Len(c_tasks') = Len(r) + 1 /\ c_tasks'[Len(r) + 1] = t
         /\ \A j \in 1 .. Len(r) : c_tasks'[j] = r[j]
         /\ \A j \in 1 .. Len(r) + 1 : j \in 1 .. Len(r) \/ j = Len(r) + 1
    BY <1>2, <2>12, AppendAt
  <2>14. PICK f : Among(f, r, c_tasks)
    BY <1>2 DEF Fewer
  <2>15. \A j \in 1 .. Len(r) : r[j].pc = "read" => r[j].conn <= n_opened /\ r[j].conn \in Nat
    <3>1. \A j \in 1 .. Len(c_tasks) : c_tasks[j].pc = "read" => c_tasks[j].conn \in Conns
      BY DEF TsTypes, FlushesOK, FlushOK
    <3> QED BY <2>1, <2>14, <3>1 DEF Among, TsFlow
  <2>16. \A j \in 1 .. Len(c_tasks') : c_tasks'[j].pc = "read" => c_tasks'[j].conn <= c
    BY <2>5, <2>12, <2>13, <2>15
  <2>17. \A j \in 1 .. Len(c_tasks') : Hears(c_tasks'[j], c) => j = Len(r) + 1 /\ c_tasks'[j] = t
    BY <2>5, <2>12, <2>13, <2>15 DEF Hears
  <2>18. Flows(n_up'[c], n_out'[c], s_busy'[c], n_in'[c], Range(s_done'), t.run, c_worker.stash)
    <3>1. n_up'[c] = TRUE
      BY <2>3, <2>8
    <3>2. n_out'[c] = Append(<<>>, t.run)
      BY <1>0, <1>1, <1>3, <2>3, <2>12
    <3>3. Append(<<>>, t.run) = <<t.run>>
      OBVIOUS
    <3> QED BY <1>0, <2>3, <3>1, <3>2, <3>3 DEF Flows
  <2>19. Listeners(c_tasks, c_worker.conn, c_worker.stash)'
    <3>2. Flow(c_worker.conn, t.run, c_worker.stash)'
      BY <2>4, <2>18 DEF Flow
    <3> QED BY <2>4, <2>17, <3>2 DEF Listeners
  <2>20. TsFlow'
    BY <2>3, <2>4, <2>9, <2>16, <2>19 DEF TsFlow
  <2> QED BY <2>6, <2>7, <2>20
<1>4. CASE /\ c_tasks' = [c_tasks EXCEPT ![i] = TsPaused("loop", <<>>, u.loop, u.next)]
           /\ c_answer' = Refused(Range(u.run), "transport")
           /\ UNCHANGED <<c_worker, n_opened, n_up, n_in, n_out>>
  <2>1. TsPaused("loop", <<>>, u.loop, u.next).pc # "read"
    BY DEF TsPaused
  <2>2. Fewer(c_tasks', c_tasks)
    BY <1>0, <1>4, <2>1, FewerPaused
  <2>3. Own'
    BY <1>0, <1>4, OwnTag
  <2>4. Reached'
    BY <1>0, <1>4 DEF Reached, Virgin
  <2> QED BY <1>0, <1>4, <2>2, <2>3, <2>4, TsStill
<1> QED BY <1>1, <1>3, <1>4 DEF TsReconnect

\* Connections are still used in the order in which they are opened.
LEMMA TsReaches ==
    ASSUME TsTypes, c_lang = "ts", Reached, Issue \/ TsStep \/ (\E x \in Calls : TsTimer(x)) \/ TsClose
    PROVE  Reached' /\ c_mixed \subseteq c_mixed'
<1>0. /\ IsWorker(c_worker) /\ NetTypes /\ c_worker.conn \in Conns /\ n_opened \in Nat /\ c_worker.conn <= n_opened /\ Virgin
      /\ n_out \in [Conns -> Seq(Runs)] /\ n_in \in [Conns -> Seq(ResponsePieces)] /\ n_up \in [Conns -> BOOLEAN]
      /\ \A d \in Conns : d \in Nat
  BY ConnNumbers DEF TsTypes, NetTypes, Reached
<1>1. \A d \in Conns : d > n_opened => d # c_worker.conn
  BY <1>0
<1>2. ASSUME n_opened' = n_opened, s_busy' = s_busy, c_worker'.conn = c_worker.conn,
             \A d \in Conns : d # c_worker.conn => n_out'[d] = n_out[d] /\ n_up'[d] = n_up[d],
             \A d \in Conns : d # c_worker.conn => n_in'[d] = n_in[d] \/ n_in'[d] = <<>>
      PROVE  Reached'
  BY <1>0, <1>1, <1>2 DEF Reached, Virgin
<1>3. ASSUME NEW run, Send(c_worker.conn, run, TsOverlap)
      PROVE  /\ \A d \in Conns : d # c_worker.conn => n_out'[d] = n_out[d]
             /\ c_mixed \subseteq c_mixed'
  BY <1>0, <1>3 DEF Send
<1>4. ASSUME NEW r, NEW next, TsTakeRun(r, next)
      PROVE  /\ \A d \in Conns : d # c_worker.conn => n_out'[d] = n_out[d]
             /\ c_mixed \subseteq c_mixed' /\ c_worker'.conn = c_worker.conn
  <2>1. c_worker'.conn = c_worker.conn
    BY <1>0, <1>4 DEF TsTakeRun, IsWorker
  <2>2. PICK run : Send(c_worker.conn, run, TsOverlap)
    BY <1>4 DEF TsTakeRun
  <2> QED BY <1>3, <2>1, <2>2
<1>5. CASE Issue
  <2>1. UNCHANGED <<n_opened, n_up, n_in, s_busy>>
    BY <1>5 DEF Issue, server_vars
  <2>2. CASE c_worker.closed
    BY <1>2, <1>5, <2>1, <2>2 DEF Issue
  <2>3. CASE ~c_worker.closed
    <3>1. PICK x : TsExec(x)
      BY <1>5, <2>3 DEF Issue
    <3>2. CASE TsTakeRun(c_tasks, x)
      BY <1>2, <1>4, <2>1, <3>2
    <3>3. CASE UNCHANGED <<n_out, c_mixed>>
      <4>1. c_worker'.conn = c_worker.conn
        BY <1>0, <3>1, <1>4 DEF TsExec, IsWorker
      <4> QED BY <1>2, <2>1, <3>3, <4>1
    <3> QED BY <3>1, <3>2, <3>3 DEF TsExec
  <2> QED BY <2>2, <2>3
<1>6. CASE TsImmediate
  <2>1. UNCHANGED <<n_opened, n_up, n_in, s_busy>>
    BY <1>6 DEF TsImmediate, server_vars
  <2>2. c_worker'.conn = c_worker.conn
    BY <1>0, <1>6 DEF TsImmediate, IsWorker
  <2>3. CASE UNCHANGED <<n_out, c_mixed>>
    BY <1>2, <2>1, <2>2, <2>3
  <2>4. CASE Send(c_worker.conn, TsChunk(c_worker.queue), TsOverlap)
    BY <1>2, <1>3, <2>1, <2>2, <2>4
  <2> QED BY <1>6, <2>3, <2>4 DEF TsImmediate
<1>7. ASSUME NEW c \in Conns, TsData(c) PROVE Reached' /\ c_mixed \subseteq c_mixed'
  <2>1. UNCHANGED <<n_opened, n_up, n_out, s_busy, c_mixed>>
    BY <1>7 DEF TsData, server_vars
  <2>2. PICK k \in 1 .. Len(n_in[c]) : n_in' = Taken(c, k) /\ \E st : c_worker' = [c_worker EXCEPT !.stash = st]
    BY <1>7, Zenon DEF TsData
  <2>3. c_worker'.conn = c_worker.conn
    BY <1>0, <2>2 DEF IsWorker
  <2>4. \A d \in Conns : d # c => n_in'[d] = n_in[d]
    BY <1>0, <2>2 DEF Taken
  <2>5. n_in[c] # <<>>
    BY <1>0, <2>2
  <2>6. \A d \in Conns : d > n_opened => n_in'[d] = <<>>
    BY <1>0, <2>4, <2>5 DEF Virgin
  <2> QED BY <1>0, <2>1, <2>3, <2>6 DEF Reached, Virgin
<1>8. ASSUME NEW i \in DOMAIN c_tasks, TsContinue(i) PROVE Reached' /\ c_mixed \subseteq c_mixed'
  <2>1. UNCHANGED <<n_opened, n_up, n_in, s_busy>>
    BY <1>8 DEF TsContinue, server_vars
  <2>2. CASE TsTakeRun(RemoveAt(c_tasks, i), c_tasks[i].next)
    BY <1>2, <1>4, <2>1, <2>2
  <2>3. CASE c_worker' = c_worker /\ Send(c_worker.conn, <<c_tasks[i].next>>, TsOverlap)
    BY <1>2, <1>3, <2>1, <2>3
  <2>4. CASE UNCHANGED <<n_out, c_mixed, c_worker>>
    BY <1>2, <2>1, <2>4
  <2> QED BY <1>8, <2>2, <2>3, <2>4 DEF TsContinue
<1>9. ASSUME NEW i \in DOMAIN c_tasks, TsClosed(i) PROVE Reached' /\ c_mixed \subseteq c_mixed'
  BY <1>2, <1>9 DEF TsClosed, net_vars, server_vars
<1>10. ASSUME NEW i \in DOMAIN c_tasks, TsReconnect(i) PROVE Reached' /\ c_mixed \subseteq c_mixed'
  <2>1. c_mixed' = c_mixed /\ s_busy' = s_busy
    BY <1>10 DEF TsReconnect, server_vars
  <2>2. CASE UNCHANGED <<c_worker, n_opened, n_up, n_in, n_out>>
    BY <1>2, <2>1, <2>2
  <2>3. CASE /\ Reconnected(c_worker.conn) /\ c_worker' = [c_worker EXCEPT !.conn = n_opened + 1]
             /\ n_out' = [n_out EXCEPT ![n_opened + 1] = Append(n_out[n_opened + 1], c_tasks[i].run)]
    <3>1. \A d \in Conns : d > n_opened + 1 => n_out'[d] = n_out[d]
      BY <1>0, <2>3
    <3>2. Virgin' /\ n_opened' = n_opened + 1
      BY <1>0, <2>1, <2>3, <3>1, Opening
    <3>3. c_worker'.conn = n_opened + 1
      BY <1>0, <2>3 DEF IsWorker
    <3> QED BY <1>0, <2>1, <3>2, <3>3 DEF Reached
  <2> QED BY <1>10, <2>2, <2>3 DEF TsReconnect
<1>11. ASSUME NEW x \in Calls, TsTimer(x) PROVE Reached' /\ c_mixed \subseteq c_mixed'
  <2>1. c_worker'.conn = c_worker.conn
    BY <1>0, <1>11 DEF TsTimer, IsWorker
  <2> QED BY <1>2, <1>11, <2>1 DEF TsTimer, net_vars, server_vars
<1>12. CASE TsClose
  <2>1. c_worker'.conn = c_worker.conn
    BY <1>0, <1>12 DEF TsClose, IsWorker
  <2>2. \A d \in Conns : d # c_worker.conn => n_in'[d] = n_in[d] /\ n_up'[d] = n_up[d]
    BY <1>0, <1>12 DEF TsClose
  <2> QED BY <1>2, <1>12, <2>1, <2>2 DEF TsClose, server_vars
<1> QED BY <1>5, <1>6, <1>7, <1>8, <1>9, <1>10, <1>11, <1>12 DEF TsStep

(* A chunk arrives: what the listeners' feeds leave behind.                *)

\* One data listener handles the chunk: it reads what the listeners before it
\* have left in the shared codec.
FeedStep(prev, t, c, chunk) ==
    IF Hears(t, c) THEN TsFeed(prev.stash, chunk, t.run) ELSE [prev EXCEPT !.out = "wait"]

\* What the first listener finds.
FirstFeed(st) == [stash |-> st, out |-> "wait", got |-> <<>>]

\* g is what the codec holds and what was read after each of the N listeners.
IsFeed(g, st, s, c, chunk, N) ==
    g = [i \in 0 .. N |-> IF i = 0 THEN FirstFeed(st) ELSE FeedStep(g[i - 1], s[i], c, chunk)]

(* Such a function exists, so that the CHOOSE of TsData names one.         *)
LEMMA FeedExists ==
    ASSUME NEW st, NEW s, NEW c, NEW chunk, NEW N \in Nat
    PROVE  \E g : IsFeed(g, st, s, c, chunk, N)
<1> DEFINE T == {n \in Nat : \E g : IsFeed(g, st, s, c, chunk, n)}
<1>1. 0 \in T
  <2>1. IsFeed([k \in 0 .. 0 |-> FirstFeed(st)], st, s, c, chunk, 0)
    BY DEF IsFeed
  <2> QED BY <2>1
<1>2. ASSUME NEW n \in 0 .. N - 1, n \in T
      PROVE  n + 1 \in T
  <2>1. PICK g : IsFeed(g, st, s, c, chunk, n)
    BY <1>2
  <2> DEFINE h == [k \in 0 .. n + 1 |-> IF k = n + 1 THEN FeedStep(g[n], s[n + 1], c, chunk) ELSE g[k]]
  <2>2. \A k \in 0 .. n + 1 : h[k] = IF k = 0 THEN FirstFeed(st) ELSE FeedStep(h[k - 1], s[k], c, chunk)
    <3> TAKE k \in 0 .. n + 1
    <3>1. CASE k = n + 1
      BY <3>1
    <3>2. CASE k # n + 1 /\ k # 0
      <4>1. k \in 0 .. n /\ k - 1 \in 0 .. n + 1 /\ k - 1 # n + 1
        BY <3>2
      <4>2. g[k] = FeedStep(g[k - 1], s[k], c, chunk)
        BY <2>1, <3>2, <4>1 DEF IsFeed
      <4> QED BY <3>2, <4>1, <4>2
    <3>3. CASE k = 0
      <4>1. 0 \in 0 .. n /\ 0 # n + 1
        OBVIOUS
      <4>2. g[0] = FirstFeed(st)
        BY <2>1, <4>1 DEF IsFeed
      <4> QED BY <3>3, <4>1, <4>2
    <3> QED BY <3>1, <3>2, <3>3
  <2>3. h = [k \in 0 .. n + 1 |-> h[k]]
    OBVIOUS
  <2> HIDE DEF h
  <2>4. IsFeed(h, st, s, c, chunk, n + 1)
    BY <2>2, <2>3 DEF IsFeed
  <2> QED BY <2>4
<1>3. 0 .. N \subseteq T
  <2> HIDE DEF T
  <2> QED BY <1>1, <1>2, UpTo
<1> QED BY <1>3

\* Only the flush l listens: before it the codec is as it was, after it as
\* that flush left it.
FedTo(g, st, l, F, j) ==
    g[j] = IF j < l THEN FirstFeed(st)
           ELSE [stash |-> F.stash, out |-> IF j = l THEN F.out ELSE "wait", got |-> F.got]

(* If just one task listens, the codec is fed once: to that task.          *)
LEMMA FeedOne ==
    ASSUME NEW st, NEW s, NEW c, NEW chunk, NEW N \in Nat, NEW g, IsFeed(g, st, s, c, chunk, N),
           NEW l \in 1 .. N + 1, \A i \in 1 .. N : Hears(s[i], c) <=> i = l,
           NEW F, F = TsFeed(st, chunk, s[l].run)
    PROVE  \A j \in 0 .. N : FedTo(g, st, l, F, j)
<1>0. F = [stash |-> F.stash, out |-> F.out, got |-> F.got]
  BY DEF TsFeed
<1> DEFINE T == {j \in 0 .. N : FedTo(g, st, l, F, j)}
<1>1. 0 \in T
  <2>1. g[0] = FirstFeed(st) /\ 0 < l
    BY DEF IsFeed
  <2> QED BY <2>1 DEF FedTo
<1>2. ASSUME NEW j \in 0 .. N - 1, j \in T PROVE j + 1 \in T
  <2>1. j + 1 \in 0 .. N /\ j + 1 \in 1 .. N /\ j + 1 # 0 /\ (j + 1) - 1 = j
    BY <1>2
  <2>2. g[j + 1] = FeedStep(g[j], s[j + 1], c, chunk)
    BY <2>1 DEF IsFeed
  <2>3. FedTo(g, st, l, F, j)
    BY <1>2
  <2>4. CASE j + 1 = l
    <3>1. g[j] = FirstFeed(st) /\ Hears(s[j + 1], c)
      BY <2>1, <2>3, <2>4 DEF FedTo
    <3>2. g[j].stash = st
      BY <3>1 DEF FirstFeed
    <3>3. g[j + 1] = F
      BY <2>2, <2>4, <3>1, <3>2 DEF FeedStep
    <3> QED BY <1>0, <2>1, <2>4, <3>3 DEF FedTo
  <2>5. CASE j + 1 < l
    <3>1. g[j] = FirstFeed(st) /\ ~Hears(s[j + 1], c)
      BY <2>1, <2>3, <2>5 DEF FedTo
    <3>2. g[j + 1] = FirstFeed(st)
      BY <2>2, <3>1 DEF FeedStep, FirstFeed
    <3> QED BY <2>1, <2>5, <3>2 DEF FedTo
  <2>6. CASE j + 1 > l
    <3>1. ~Hears(s[j + 1], c) /\ ~(j < l) /\ ~(j + 1 < l) /\ j + 1 # l
      BY <2>1, <2>6
    <3>2. g[j] = [stash |-> F.stash, out |-> IF j = l THEN F.out ELSE "wait", got |-> F.got]
      BY <2>3, <3>1 DEF FedTo
    <3>3. g[j + 1] = [stash |-> F.stash, out |-> "wait", got |-> F.got]
      BY <2>2, <3>1, <3>2 DEF FeedStep
    <3> QED BY <2>1, <3>1, <3>3 DEF FedTo
  <2> QED BY <2>1, <2>4, <2>5, <2>6
<1>3. 0 .. N \subseteq T
  <2> HIDE DEF T
  <2> QED BY <1>1, <1>2, UpTo
<1> QED BY <1>3

\* What a flush makes of its own response.
LEMMA FeedMeets ==
    ASSUME NEW st \in Seq(ResponsePieces), ~Whole(st), NEW in \in Seq(ResponsePieces), NEW k \in 1 .. Len(in), NEW R \in Runs,
           \/ in \in {<<>>, <<Half(R, 1)>>, Pieces(R)}
           \/ in = <<Half(R, 2)>> /\ st = <<Half(R, 1)>>,
           NEW F, F = TsFeed(st, SubSeq(in, 1, k), R)
    PROVE  /\ F.stash \in Seq(ResponsePieces) /\ ~Whole(F.stash)
           /\ F.out \in {"take", "reject", "wait"}
           /\ F.out = "take" => F.got = R
           /\ F.out = "wait" =>
                 /\ Len(st \o SubSeq(in, 1, k)) = 1 /\ F.stash = <<Half(R, 1)>> /\ in # <<>>
                 /\ in # Pieces(R) => SubSeq(in, k + 1, Len(in)) = <<>>
                 /\ in = Pieces(R) => SubSeq(in, k + 1, Len(in)) = <<Half(R, 2)>>
<1> DEFINE s == st \o SubSeq(in, 1, k)
<1>1. s \in Seq(ResponsePieces) /\ Len(s) = Len(st) + k /\ Len(st) \in Nat
  BY FedParts
<1>2. CASE Whole(s)
  <2>1. s[1].run = R /\ Len(s) = 2
    BY <1>2, FlowWhole
  <2>2. AfterWhole(s) = <<>>
    BY <1>1, <1>2, <2>1, AfterWholeFacts
  <2>3. F.stash = AfterWhole(s) /\ F.got = s[1].run /\ F.out \in {"take", "reject"}
    BY <1>2 DEF TsFeed
  <2>4. F.stash = <<>> /\ F.got = R
    BY <2>1, <2>2, <2>3
  <2>5. <<>> \in Seq(ResponsePieces) /\ ~Whole(<<>>)
    BY EmptyNotWhole
  <2>6. F.out # "wait" /\ F.out \in {"take", "reject", "wait"}
    BY <2>3
  <2> QED BY <2>4, <2>5, <2>6, Zenon
<1>3. CASE ~Whole(s)
  <2>1. F = [stash |-> s, out |-> IF Garbled(s) THEN "reject" ELSE "wait", got |-> <<>>]
    BY <1>3 DEF TsFeed
  <2>2. F.stash = s /\ F.out = (IF Garbled(s) THEN "reject" ELSE "wait")
    BY <2>1
  <2>3. ASSUME F.out = "wait" PROVE Len(s) = 1
    <3>1. ~Garbled(s)
      BY <2>2, <2>3
    <3>2. s # <<>> /\ Len(s) >= 1
      BY <1>1
    <3> QED BY <1>1, <1>3, <3>1, <3>2 DEF Garbled
  <2>4. Len(s) = 1 =>
           /\ s = <<Half(R, 1)>> /\ in # <<>>
           /\ in # Pieces(R) => SubSeq(in, k + 1, Len(in)) = <<>>
           /\ in = Pieces(R) => SubSeq(in, k + 1, Len(in)) = <<Half(R, 2)>>
    BY FlowMore
  <2> HIDE DEF s
  <2>5. F.out \in {"take", "reject", "wait"} /\ F.out # "take"
    BY <2>2
  <2>6. F.stash \in Seq(ResponsePieces) /\ ~Whole(F.stash)
    BY <1>1, <1>3, <2>2
  <2> QED BY <2>2, <2>3, <2>4, <2>5, <2>6 DEF s
<1> QED BY <1>2, <1>3

\* The steps of TsData, with the feeds named.
TsFed(c, k) == CHOOSE g : IsFeed(g, c_worker.stash, c_tasks, c, SubSeq(n_in[c], 1, k), Len(c_tasks))
\* The task that waits for the call x, and the place of x in its run.
TsMine(x) == CHOOSE i \in 1 .. Len(c_tasks) : x \in Range(c_tasks[i].run)
TsPlace(x) == CHOOSE j \in DOMAIN c_tasks[TsMine(x)].run : c_tasks[TsMine(x)].run[j] = x

\* TsData with its choices named: k pieces arrive and fed is what each
\* listener makes of them.
TsDataAt(c, k, fed) ==
    /\ n_in' = Taken(c, k)
    /\ c_answer' = [x \in Calls |->
          IF c_answer[x] # Unanswered \/ ~(\E i \in 1 .. Len(c_tasks) : x \in Range(c_tasks[i].run) /\ fed[i].out # "wait")
          THEN c_answer[x]
          ELSE IF fed[TsMine(x)].out = "take"
               THEN [tag |-> "ok", of |-> fed[TsMine(x)].got[TsPlace(x)]]
               ELSE [tag |-> "transport", of |-> x]]
    /\ c_tasks' = [i \in 1 .. Len(c_tasks) |->
                     IF fed[i].out = "wait" THEN c_tasks[i] ELSE TsPaused("loop", <<>>, c_tasks[i].loop, c_tasks[i].next)]
    /\ c_worker' = [c_worker EXCEPT !.stash = fed[Len(c_tasks)].stash]

(* TsData is that.                                                         *)
LEMMA TsDataMeans ==
    ASSUME NEW c, TsData(c)
    PROVE  /\ \E k \in 1 .. Len(n_in[c]) : TsDataAt(c, k, TsFed(c, k))
           /\ UNCHANGED <<c_lang, c_op, c_issued, c_mixed, n_opened, n_up, n_out, s_busy, s_done>>
<1>1. \E k \in 1 .. Len(n_in[c]) : TsDataAt(c, k, TsFed(c, k))
  BY Zenon DEF TsData, TsDataAt, TsFed, TsMine, TsPlace, IsFeed, FeedStep, FirstFeed, Hears
<1> QED BY <1>1 DEF TsData, server_vars

\* The first piece was read: what is left on its way.
LEMMA FlowHalf ==
    ASSUME NEW up \in BOOLEAN, NEW out, NEW busy, NEW done, NEW st \in Seq(ResponsePieces), NEW in \in Seq(ResponsePieces),
           NEW k \in 1 .. Len(in), NEW R \in Runs, NEW rest,
           Flows(up, out, busy, in, done, R, st), Len(st \o SubSeq(in, 1, k)) = 1,
           in # <<>>, in # Pieces(R) => rest = <<>>, in = Pieces(R) => rest = <<Half(R, 2)>>
    PROVE  Flows(up, out, busy, rest, done, R, <<Half(R, 1)>>)
<1>1. CASE in = Pieces(R)
  BY <1>1 DEF Flows
<1>2. CASE in # Pieces(R)
  <2>1. in # <<Half(R, 2)>>
    <3>1. SUFFICES ASSUME in = <<Half(R, 2)>> PROVE FALSE
      OBVIOUS
    <3>2. <<Half(R, 2)>> # <<>> /\ <<Half(R, 2)>> # <<Half(R, 1)>>
      BY HalfFacts
    <3>3. st = <<Half(R, 1)>>
      BY <1>2, <3>1, <3>2 DEF Flows
    <3>4. Len(st) = 1 /\ Len(st \o SubSeq(in, 1, k)) = Len(st) + k /\ Len(in) \in Nat
      BY <3>3, FedParts
    <3> QED BY <3>4
  <2>2. ~up
    BY <1>2, <2>1 DEF Flows
  <2> QED BY <1>2, <2>2 DEF Flows
<1> QED BY <1>1, <1>2

(* A chunk answers the run of the one task that listens, and with its own  *)
(* response.                                                               *)
LEMMA TsDataFlows ==
    ASSUME TsTypes, c_lang = "ts", TsFlow, Own, NEW c \in Conns, TsData(c)
    PROVE  Own' /\ TsFlow'
<1>0. /\ c_tasks \in Seq(TsTasks) /\ IsWorker(c_worker) /\ NetTypes /\ Len(c_tasks) \in Nat
      /\ (\A i \in 1 .. Len(c_tasks) : c_tasks[i] \in TsTasks /\ c_tasks[i].run \in Runs)
      /\ c_worker.stash \in Seq(ResponsePieces) /\ ~Whole(c_worker.stash)
      /\ n_in \in [Conns -> Seq(ResponsePieces)] /\ n_up \in [Conns -> BOOLEAN]
      /\ UNCHANGED <<c_mixed, n_opened, n_up, n_out, s_busy, s_done>>
  BY TsTasksSeq, TsDataMeans DEF TsTypes, NetTypes, TsFlow, TsTasks
<1>1. PICK k \in 1 .. Len(n_in[c]) : TsDataAt(c, k, TsFed(c, k))
  BY TsDataMeans
<1>2. PICK fed, st, in, s, n, chunk : /\ fed = TsFed(c, k) /\ st = c_worker.stash /\ in = n_in[c] /\ s = c_tasks /\ n = Len(c_tasks)
                                      /\ chunk = SubSeq(in, 1, k)
  OBVIOUS
<1>3. IsFeed(fed, st, s, c, chunk, n) /\ n \in Nat
  <2>1. \E g : IsFeed(g, st, s, c, chunk, n)
    BY <1>0, <1>2, FeedExists
  <2>2. fed = CHOOSE g : IsFeed(g, st, s, c, chunk, n)
    BY <1>2 DEF TsFed
  <2> QED BY <1>0, <1>2, <2>1, <2>2, Zenon
<1>4. in \in Seq(ResponsePieces) /\ in # <<>> /\ k \in 1 .. Len(in) /\ Len(in) \in Nat
  BY <1>0, <1>1, <1>2
<1>5. c = c_worker.conn /\ Listeners(s, c, st)
  <2>1. c = c_worker.conn
    BY <1>2, <1>4 DEF TsFlow
  <2> QED BY <1>2, <1>4, <2>1 DEF TsFlow
<1>6. PICK l \in 1 .. n + 1 : \A i \in 1 .. n : Hears(s[i], c) <=> i = l
  <2>1. CASE \E i \in 1 .. n : Hears(s[i], c)
    <3>1. PICK l \in 1 .. n : Hears(s[l], c)
      BY <2>1
    <3>2. l \in 1 .. n + 1
      BY <1>3
    <3> QED BY <1>2, <1>5, <3>1, <3>2 DEF Listeners
  <2>2. CASE ~\E i \in 1 .. n : Hears(s[i], c)
    <3>1. n + 1 \in 1 .. n + 1 /\ \A i \in 1 .. n : i # n + 1
      BY <1>3
    <3> QED BY <2>2, <3>1
  <2> QED BY <2>1, <2>2
<1>7. PICK R, F : R = s[l].run /\ F = TsFeed(st, chunk, R)
  OBVIOUS
<1>8. \A j \in 0 .. n : FedTo(fed, st, l, F, j)
  BY <1>3, <1>6, <1>7, FeedOne
<1>9. \A j \in 1 .. n : j # l => fed[j].out = "wait"
  <2> SUFFICES ASSUME NEW j \in 1 .. n, j # l PROVE fed[j].out = "wait"
    OBVIOUS
  <2>1. FedTo(fed, st, l, F, j)
    BY <1>3, <1>8
  <2> QED BY <2>1 DEF FedTo, FirstFeed
<1>10. /\ n_in' = Taken(c, k)
       /\ c_tasks' = [i \in 1 .. n |-> IF fed[i].out = "wait" THEN s[i] ELSE TsPaused("loop", <<>>, s[i].loop, s[i].next)]
       /\ c_worker' = [c_worker EXCEPT !.stash = fed[n].stash]
  BY <1>1, <1>2, Zenon DEF TsDataAt
<1>11. c_worker'.conn = c /\ c_worker'.stash = fed[n].stash
  BY <1>0, <1>5, <1>10 DEF IsWorker
<1>12. (\A d \in Conns : d # c => n_in'[d] = n_in[d]) /\ n_in'[c] = SubSeq(in, k + 1, Len(in))
  BY <1>0, <1>2, <1>10 DEF Taken
<1>13. /\ DOMAIN c_tasks' = 1 .. n /\ Len(c_tasks') = n
       /\ \A i \in 1 .. n : fed[i].out = "wait" => c_tasks'[i] = s[i]
       /\ \A i \in 1 .. n : fed[i].out # "wait" => c_tasks'[i].pc = "loop"
  <2>1. DOMAIN c_tasks' = 1 .. n
    BY <1>10
  <2>2. Len(c_tasks') = n
    BY <1>3, <2>1
  <2>3. \A i \in 1 .. n : fed[i].out = "wait" => c_tasks'[i] = s[i]
    BY <1>10
  <2>4. \A i \in 1 .. n : fed[i].out # "wait" => c_tasks'[i].pc = "loop"
    BY <1>10 DEF TsPaused
  <2> QED BY <2>1, <2>2, <2>3, <2>4
<1>14. \A i \in 1 .. Len(c_tasks') : c_tasks'[i].pc = "read" => c_tasks'[i].conn <= n_opened
  BY <1>2, <1>13 DEF TsFlow
<1>15. \A i \in 1 .. n : Hears(c_tasks'[i], c) => i = l /\ fed[l].out = "wait" /\ c_tasks'[i] = s[l]
  BY <1>6, <1>13 DEF Hears
<1>16. ASSUME l \in 1 .. n
       PROVE  /\ R \in Runs /\ fed[l].out = F.out /\ fed[l].got = F.got /\ fed[n].stash = F.stash
              /\ Flows(n_up[c], n_out[c], s_busy[c], in, Range(s_done), R, st)
  <2>1. FedTo(fed, st, l, F, l) /\ FedTo(fed, st, l, F, n) /\ ~(n < l) /\ ~(l < l)
    BY <1>3, <1>8, <1>16
  <2>2. Flow(c, R, st)
    BY <1>2, <1>5, <1>6, <1>7, <1>16 DEF Listeners
  <2> QED BY <1>0, <1>2, <1>7, <1>16, <2>1, <2>2 DEF FedTo, Flow
<1>17. ASSUME l \in 1 .. n
       PROVE  /\ F.stash \in Seq(ResponsePieces) /\ ~Whole(F.stash)
              /\ F.out \in {"take", "reject", "wait"}
              /\ F.out = "take" => F.got = R
              /\ F.out = "wait" =>
                    /\ Len(st \o SubSeq(in, 1, k)) = 1 /\ F.stash = <<Half(R, 1)>> /\ in # <<>>
                    /\ in # Pieces(R) => SubSeq(in, k + 1, Len(in)) = <<>>
                    /\ in = Pieces(R) => SubSeq(in, k + 1, Len(in)) = <<Half(R, 2)>>
  <2>1. R \in Runs /\ st \in Seq(ResponsePieces) /\ ~Whole(st) /\ F = TsFeed(st, SubSeq(in, 1, k), R)
    BY <1>0, <1>2, <1>7, <1>16, <1>17
  <2>2. \/ in \in {<<>>, <<Half(R, 1)>>, Pieces(R)}
        \/ in = <<Half(R, 2)>> /\ st = <<Half(R, 1)>>
    BY <1>16, <1>17 DEF Flows
  <2> QED BY <1>4, <2>1, <2>2, FeedMeets
<1>18. c_worker'.stash \in Seq(ResponsePieces) /\ ~Whole(c_worker'.stash)
  <2>1. CASE l \in 1 .. n
    BY <1>11, <1>16, <1>17, <2>1
  <2>2. CASE l \notin 1 .. n
    <3>1. n < l /\ FedTo(fed, st, l, F, n)
      BY <1>3, <1>8, <2>2
    <3>2. fed[n].stash = st
      BY <3>1 DEF FedTo, FirstFeed
    <3> QED BY <1>0, <1>2, <1>11, <3>2
  <2> QED BY <2>1, <2>2
<1>19. ASSUME l \in 1 .. n, fed[l].out = "wait"
       PROVE  Flows(n_up[c], n_out[c], s_busy[c], n_in'[c], Range(s_done), R, c_worker'.stash)
  <2>1. n_up[c] \in BOOLEAN /\ st \in Seq(ResponsePieces) /\ F.out = "wait" /\ c_worker'.stash = <<Half(R, 1)>>
    BY <1>0, <1>2, <1>11, <1>16, <1>17, <1>19
  <2>2. PICK rest : rest = SubSeq(in, k + 1, Len(in))
    OBVIOUS
  <2>3. Flows(n_up[c], n_out[c], s_busy[c], rest, Range(s_done), R, <<Half(R, 1)>>)
    BY <1>4, <1>16, <1>17, <1>19, <2>1, <2>2, FlowHalf
  <2> QED BY <1>12, <2>1, <2>2, <2>3
<1>20. Listeners(c_tasks, c_worker.conn, c_worker.stash)'
  <2>1. \A i, j \in 1 .. Len(c_tasks') : Hears(c_tasks'[i], c) /\ Hears(c_tasks'[j], c) => i = j
    BY <1>13, <1>15
  <2>2. ASSUME NEW i \in 1 .. Len(c_tasks'), Hears(c_tasks'[i], c)
        PROVE  Flow(c_worker.conn, c_tasks[i].run, c_worker.stash)'
    <3>1. i \in 1 .. n /\ i = l /\ fed[l].out = "wait" /\ c_tasks'[i].run = R
      BY <1>7, <1>13, <1>15, <2>2
    <3>2. Flows(n_up[c], n_out[c], s_busy[c], n_in'[c], Range(s_done), R, c_worker'.stash)
      BY <1>19, <3>1
    <3> QED BY <1>0, <1>11, <3>1, <3>2 DEF Flow
  <2> QED BY <1>11, <2>1, <2>2 DEF Listeners, Hears
<1>21. TsFlow'
  <2>1. \A d \in Conns : d # c => ~n_up'[d] /\ n_in'[d] = <<>>
    BY <1>0, <1>5, <1>12 DEF TsFlow
  <2> QED BY <1>0, <1>11, <1>14, <1>18, <1>20, <2>1 DEF TsFlow
<1>22. Own'
  <2> SUFFICES ASSUME NEW x \in Calls, c_answer'[x].tag = "ok", c_answer'[x] # c_answer[x]
               PROVE  c_answer'[x].of = x /\ x \in Range(s_done)
    BY <1>0 DEF Own
  <2>1. c_answer'[x] =
          IF c_answer[x] # Unanswered \/ ~(\E i \in 1 .. n : x \in Range(s[i].run) /\ fed[i].out # "wait")
          THEN c_answer[x]
          ELSE IF fed[TsMine(x)].out = "take"
               THEN [tag |-> "ok", of |-> fed[TsMine(x)].got[TsPlace(x)]]
               ELSE [tag |-> "transport", of |-> x]
    BY <1>1, <1>2 DEF TsDataAt
  <2>2. /\ \E i \in 1 .. n : x \in Range(s[i].run)
        /\ fed[TsMine(x)].out = "take" /\ c_answer'[x].of = fed[TsMine(x)].got[TsPlace(x)]
    BY <2>1
  <2>3. TsMine(x) \in 1 .. n /\ x \in Range(s[TsMine(x)].run)
    BY <1>2, <2>2 DEF TsMine
  <2>4. TsMine(x) = l /\ l \in 1 .. n
    BY <1>9, <2>2, <2>3
  <2>5. fed[l].got = R /\ x \in Range(R)
    BY <1>7, <1>16, <1>17, <2>2, <2>3, <2>4
  <2>6. TsPlace(x) = CHOOSE j \in DOMAIN R : R[j] = x
    BY <1>2, <1>7, <2>4 DEF TsPlace
  <2>7. \E j \in DOMAIN R : R[j] = x
    BY <2>5 DEF Range
  <2>8. R[TsPlace(x)] = x
    BY <2>6, <2>7
  <2>9. Range(R) \subseteq Range(s_done)
    BY <1>4, <1>16, <2>4 DEF Flows
  <2> QED BY <2>2, <2>4, <2>5, <2>8, <2>9
<1> QED BY <1>21, <1>22

\* The inductive invariant: what has been answered ok is the caller's own and
\* executed, and what is under way is the response of the run that waits for
\* it, until the client once writes while a response is due (which Rust never
\* does).
AnswerInv ==
    /\ RpcInv /\ Served /\ Reached /\ RustClean
    /\ "due" \in c_mixed \/ (Own /\ (c_lang # "ts" => WorkerFlow) /\ (c_lang = "ts" => TsFlow))

(* It holds at first.                                                      *)
LEMMA AnswerInvInit == RpcInit => AnswerInv
<1> SUFFICES ASSUME RpcInit PROVE AnswerInv
  OBVIOUS
<1>1. RpcInv
  BY RpcInvInit
<1>2. /\ n_opened = 1 /\ c_mixed = {} /\ c_tasks = <<>> /\ s_idem = {} /\ s_done = <<>>
      /\ c_worker.conn = 1 /\ c_worker.pc = "idle" /\ c_worker.stash = <<>>
      /\ \A c \in Conns : s_busy[c] = Idle /\ n_in[c] = <<>> /\ n_out[c] = <<>> /\ (n_up[c] <=> c = 1)
      /\ \A x \in Calls : c_answer[x] = Unanswered
  BY DEF RpcInit
<1>3. Served
  <2>1. DOMAIN Idle.run = {}
    BY DEF Idle
  <2> QED BY <1>2, <2>1 DEF Served
<1>4. Reached
  <2>1. \A d \in Conns : d > 1 => d # 1
    BY ConnNumbers
  <2>2. 1 <= 1
    OBVIOUS
  <2> QED BY <1>2, <2>1, <2>2 DEF Reached, Virgin
<1>5. 1 \in Conns
  BY NetAssumption DEF Conns
<1>6. RustClean
  BY <1>2, <1>5 DEF RustClean, Due
<1>7. Own
  BY <1>2 DEF Own, Unanswered
<1>8. <<>> \in Seq(ResponsePieces) /\ ~Whole(<<>>)
  BY EmptyNotWhole
<1>9. WorkerFlow
  BY <1>2, <1>8 DEF WorkerFlow
<1>10. TsFlow
  <2>1. Len(<<>>) = 0 /\ 1 .. 0 = {}
    OBVIOUS
  <2>2. Listeners(<<>>, 1, <<>>)
    BY <2>1 DEF Listeners
  <2> QED BY <1>2, <1>8, <2>1, <2>2 DEF TsFlow
<1> QED BY <1>1, <1>3, <1>4, <1>6, <1>7, <1>9, <1>10 DEF AnswerInv

\* A connection with nothing on it has nothing to do.
LEMMA ServerIdle ==
    ASSUME NEW c \in Conns, s_busy[c] = Idle, n_out[c] = <<>> PROVE ~SrvStep(c)
<1>1. Idle.run = <<>> /\ Idle.stage = "idle" /\ Idle.at = 0
  BY DEF Idle
<1>2. ~AtOp(c)
  BY <1>1 DEF AtOp
<1> QED BY <1>1, <1>2 DEF SrvStep, SrvTake, idem_lookup, SrvApply, idem_record, SrvReply

\* What a server step leaves alone.
LEMMA ServerApart ==
    ASSUME NetTypes, NEW c \in Conns, SrvStep(c)
    PROVE  /\ UNCHANGED <<c_lang, c_op, c_issued, c_answer, c_worker, c_tasks, c_mixed, n_opened, n_up>>
           /\ \A d \in Conns : d # c => s_busy'[d] = s_busy[d] /\ n_out'[d] = n_out[d] /\ n_in'[d] = n_in[d]
           /\ ~n_up[c] => n_in'[c] = n_in[c]
<1>1. n_out \in [Conns -> Seq(Runs)] /\ n_in \in [Conns -> Seq(ResponsePieces)] /\ s_busy \in [Conns -> Tasks]
  BY DEF NetTypes
<1>2. UNCHANGED <<c_lang, c_op, c_issued, c_answer, c_worker, c_tasks, c_mixed, n_opened, n_up>>
  BY DEF SrvStep, SrvTake, idem_lookup, SrvApply, idem_record, SrvReply, client_vars, net_vars
<1>3. \A d \in Conns : d # c => s_busy'[d] = s_busy[d]
  BY <1>1 DEF SrvStep, SrvTake, idem_lookup, SrvApply, idem_record, SrvReply
<1>4. \A d \in Conns : d # c => n_out'[d] = n_out[d]
  BY <1>1 DEF SrvStep, SrvTake, idem_lookup, SrvApply, idem_record, SrvReply, net_vars
<1>5. \A d \in Conns : d # c => n_in'[d] = n_in[d]
  BY <1>1 DEF SrvStep, SrvTake, idem_lookup, SrvApply, idem_record, SrvReply, net_vars
<1>6. ~n_up[c] => n_in'[c] = n_in[c]
  BY <1>1 DEF SrvStep, SrvTake, idem_lookup, SrvApply, idem_record, SrvReply, net_vars
<1> QED BY <1>2, <1>3, <1>4, <1>5, <1>6

(* The server keeps it.                                                    *)
LEMMA AnswerServer ==
    ASSUME AnswerInv, NEW c \in Conns, SrvStep(c), RpcInv' PROVE AnswerInv'
<1>0. NetTypes /\ TasksOK /\ Served /\ ClientOK
  BY DEF AnswerInv, RpcInv, ClientOK
<1>1. /\ UNCHANGED <<c_lang, c_op, c_issued, c_answer, c_worker, c_tasks, c_mixed, n_opened, n_up>>
      /\ \A d \in Conns : d # c => s_busy'[d] = s_busy[d] /\ n_out'[d] = n_out[d] /\ n_in'[d] = n_in[d]
      /\ ~n_up[c] => n_in'[c] = n_in[c]
  BY <1>0, ServerApart
<1>2. Served'
  BY <1>0, ServedKept
<1>3. \A d \in Conns : s_busy[d] = Idle /\ n_out[d] = <<>> => d # c
  BY ServerIdle
<1>4. Reached'
  BY <1>1, <1>3 DEF AnswerInv, Reached, Virgin
<1>5. RustClean'
  <2> SUFFICES ASSUME c_lang = "rust", c_worker.pc # "read", Fit(c_worker) PROVE ~Due(c_worker.conn)'
    BY <1>1 DEF RustClean, AnswerInv, Fit
  <2>1. c_worker.conn \in Conns /\ ~Due(c_worker.conn)
    BY DEF RustClean, AnswerInv, RpcInv, ClientOK, WorkerTypes, WorkerOK
  <2>2. CASE c_worker.conn # c
    BY <1>1, <2>1, <2>2 DEF Due
  <2>3. CASE c_worker.conn = c
    <3>1. ~n_up[c] /\ n_in[c] = <<>>
      BY <1>3, <2>1, <2>3 DEF Due
    <3> QED BY <1>1, <2>3, <3>1 DEF Due
  <2> QED BY <2>2, <2>3
<1>6. Own => Own'
  <2>1. Range(s_done) \subseteq Range(s_done')
    BY <1>0, DoneGrows
  <2> QED BY <1>1, <2>1 DEF Own
<1>7. ASSUME c_lang # "ts", WorkerFlow PROVE WorkerFlow'
  <2>1. c_worker.conn \in Conns /\ c_worker.run \in Runs
    BY <1>0, <1>7 DEF ClientOK, WorkerTypes, WorkerOK, Runs, List, Incr, Calls
  <2>2. PICK d, R, st : d = c_worker.conn /\ R = c_worker.run /\ st = c_worker.stash
    OBVIOUS
  <2>3. c_worker.pc = "read" => Flows(n_up'[d], n_out'[d], s_busy'[d], n_in'[d], Range(s_done'), R, st)
    BY <1>0, <1>7, <2>1, <2>2, FlowServer DEF WorkerFlow
  <2> QED BY <1>1, <1>7, <2>2, <2>3 DEF WorkerFlow, Flow
<1>8. ASSUME c_lang = "ts", TsFlow PROVE TsFlow'
  <2>1. /\ c_worker.conn \in Conns /\ \A i \in 1 .. Len(c_tasks) : c_tasks[i].run \in Runs
    BY <1>0, <1>8, TsTasksSeq DEF ClientOK, TsTypes, TsTasks
  <2>2. \A d \in Conns : d # c_worker.conn => ~n_up'[d] /\ n_in'[d] = <<>>
    <3> SUFFICES ASSUME NEW d \in Conns, d # c_worker.conn PROVE ~n_up'[d] /\ n_in'[d] = <<>>
      OBVIOUS
    <3>1. ~n_up[d] /\ n_in[d] = <<>>
      BY <1>8 DEF TsFlow
    <3> QED BY <1>1, <3>1
  <2>3. n_up'[c_worker.conn] \/ n_in'[c_worker.conn] # <<>> => n_up[c_worker.conn] \/ n_in[c_worker.conn] # <<>>
    BY <1>1, <2>1
  <2>4. ASSUME Listeners(c_tasks, c_worker.conn, c_worker.stash) PROVE Listeners(c_tasks, c_worker.conn, c_worker.stash)'
    <3>1. ASSUME NEW i \in 1 .. Len(c_tasks), Hears(c_tasks[i], c_worker.conn) PROVE Flow(c_worker.conn, c_tasks[i].run, c_worker.stash)'
      <4>1. PICK d, R, st : d = c_worker.conn /\ R = c_tasks[i].run /\ st = c_worker.stash
        OBVIOUS
      <4>2. d \in Conns /\ R \in Runs /\ Flow(d, R, st)
        BY <2>1, <2>4, <3>1, <4>1 DEF Listeners
      <4>3. Flows(n_up'[d], n_out'[d], s_busy'[d], n_in'[d], Range(s_done'), R, st)
        BY <1>0, <4>2, FlowServer
      <4> QED BY <1>1, <4>1, <4>3 DEF Flow
    <3> QED BY <1>1, <2>4, <3>1 DEF Listeners, Hears
  <2> QED BY <1>1, <1>8, <2>2, <2>3, <2>4 DEF TsFlow
<1> QED BY <1>1, <1>2, <1>4, <1>5, <1>6, <1>7, <1>8 DEF AnswerInv

(* A lost connection keeps it.                                             *)
LEMMA AnswerLost ==
    ASSUME AnswerInv, NEW c \in Conns, ConnLost(c), RpcInv' PROVE AnswerInv'
<1>0. NetTypes /\ ClientOK /\ n_up[c]
  BY DEF AnswerInv, RpcInv, ClientOK, ConnLost
<1>1. /\ UNCHANGED <<c_lang, c_answer, c_worker, c_tasks, c_mixed, n_opened, s_busy, s_done, s_idem>>
      /\ ~n_up'[c]
      /\ \A d \in Conns : d # c => n_up'[d] = n_up[d] /\ n_out'[d] = n_out[d] /\ n_in'[d] = n_in[d]
      /\ n_in[c] = <<>> => n_in'[c] = <<>>
  <2>1. n_out \in [Conns -> Seq(Runs)] /\ n_in \in [Conns -> Seq(ResponsePieces)] /\ n_up \in [Conns -> BOOLEAN]
    BY <1>0 DEF NetTypes
  <2>2. UNCHANGED <<c_lang, c_answer, c_worker, c_tasks, c_mixed, n_opened, s_busy, s_done, s_idem>>
    BY DEF ConnLost, client_vars, server_vars
  <2>3. ~n_up'[c] /\ \A d \in Conns : d # c => n_up'[d] = n_up[d] /\ n_out'[d] = n_out[d]
    BY <2>1 DEF ConnLost
  <2>4. PICK k \in 0 .. Len(n_in[c]) : n_in' = [n_in EXCEPT ![c] = SubSeq(n_in[c], 1, k)]
    BY DEF ConnLost
  <2>5. \A d \in Conns : d # c => n_in'[d] = n_in[d]
    BY <2>1, <2>4
  <2>6. n_in[c] = <<>> => n_in'[c] = <<>>
    <3> SUFFICES ASSUME n_in[c] = <<>> PROVE n_in'[c] = <<>>
      OBVIOUS
    <3>1. k = 0 /\ n_in'[c] = SubSeq(<<>>, 1, 0)
      BY <2>1, <2>4
    <3> QED BY <3>1
  <2> QED BY <2>2, <2>3, <2>5, <2>6
<1>2. Served'
  BY <1>1 DEF AnswerInv, Served
<1>3. Reached'
  <2>1. \A d \in Conns : d > n_opened => d # c
    BY <1>0 DEF AnswerInv, Reached, Virgin
  <2> QED BY <1>1, <2>1 DEF AnswerInv, Reached, Virgin
<1>4. RustClean'
  <2> SUFFICES ASSUME c_lang = "rust", c_worker.pc # "read", Fit(c_worker) PROVE ~Due(c_worker.conn)'
    BY <1>1 DEF RustClean, AnswerInv, Fit
  <2>1. c_worker.conn \in Conns /\ ~Due(c_worker.conn)
    BY DEF RustClean, AnswerInv, RpcInv, ClientOK, WorkerTypes, WorkerOK
  <2>2. CASE c_worker.conn # c
    BY <1>1, <2>1, <2>2 DEF Due
  <2>3. CASE c_worker.conn = c
    BY <1>1, <2>1, <2>3 DEF Due
  <2> QED BY <2>2, <2>3
<1>5. Own => Own'
  BY <1>1 DEF Own
<1>6. ASSUME c_lang # "ts", WorkerFlow PROVE WorkerFlow'
  <2>1. c_worker.conn \in Conns /\ c_worker.run \in Runs
    BY <1>0, <1>6 DEF ClientOK, WorkerTypes, WorkerOK, Runs, List, Incr, Calls
  <2>2. PICK d, R, st : d = c_worker.conn /\ R = c_worker.run /\ st = c_worker.stash
    OBVIOUS
  <2>3. c_worker.pc = "read" => Flows(n_up'[d], n_out'[d], s_busy'[d], n_in'[d], Range(s_done'), R, st)
    BY <1>0, <1>6, <2>1, <2>2, FlowLost DEF WorkerFlow
  <2> QED BY <1>1, <1>6, <2>2, <2>3 DEF WorkerFlow, Flow
<1>7. ASSUME c_lang = "ts", TsFlow PROVE TsFlow'
  <2>1. /\ c_worker.conn \in Conns /\ \A i \in 1 .. Len(c_tasks) : c_tasks[i].run \in Runs
    BY <1>0, <1>7, TsTasksSeq DEF ClientOK, TsTypes, TsTasks
  <2>2. \A d \in Conns : d # c_worker.conn => ~n_up'[d] /\ n_in'[d] = <<>>
    BY <1>1, <1>7 DEF TsFlow
  <2>3. n_up'[c_worker.conn] \/ n_in'[c_worker.conn] # <<>> => n_up[c_worker.conn] \/ n_in[c_worker.conn] # <<>>
    BY <1>1, <2>1
  <2>4. ASSUME Listeners(c_tasks, c_worker.conn, c_worker.stash) PROVE Listeners(c_tasks, c_worker.conn, c_worker.stash)'
    <3>1. ASSUME NEW i \in 1 .. Len(c_tasks), Hears(c_tasks[i], c_worker.conn) PROVE Flow(c_worker.conn, c_tasks[i].run, c_worker.stash)'
      <4>1. PICK d, R, st : d = c_worker.conn /\ R = c_tasks[i].run /\ st = c_worker.stash
        OBVIOUS
      <4>2. d \in Conns /\ R \in Runs /\ Flow(d, R, st)
        BY <2>1, <2>4, <3>1, <4>1 DEF Listeners
      <4>3. Flows(n_up'[d], n_out'[d], s_busy'[d], n_in'[d], Range(s_done'), R, st)
        BY <1>0, <4>2, FlowLost
      <4> QED BY <1>1, <4>1, <4>3 DEF Flow
    <3> QED BY <1>1, <2>4, <3>1 DEF Listeners, Hears
  <2> QED BY <1>1, <1>7, <2>2, <2>3, <2>4 DEF TsFlow
<1> QED BY <1>1, <1>2, <1>3, <1>4, <1>5, <1>6, <1>7 DEF AnswerInv

(* Every step of a client keeps it.                                        *)
LEMMA AnswerClient ==
    ASSUME AnswerInv, RpcInv', Issue \/ ClientStep \/ (\E x \in Calls : Deadline(x)) \/ Close PROVE AnswerInv'
<1>0. /\ ClientOK /\ NetTypes /\ Served /\ Reached /\ RustClean /\ c_lang \in {"rust", "py", "go", "ts"}
      /\ "due" \in c_mixed \/ (Own /\ (c_lang # "ts" => WorkerFlow) /\ (c_lang = "ts" => TsFlow))
  BY LangsAssumption DEF AnswerInv, RpcInv, ClientOK, NetTypes
<1>1. c_lang' = c_lang /\ UNCHANGED <<s_busy, s_done, s_idem>>
  BY <1>0, ClientKeeps DEF ClientKept
<1>2. Served'
  BY <1>0, <1>1 DEF Served
<1>3. CASE c_lang = "ts"
  <2>1. TsTypes
    BY <1>0, <1>3 DEF ClientOK
  <2>2. Issue \/ TsStep \/ (\E x \in Calls : TsTimer(x)) \/ TsClose
    BY <1>3 DEF ClientStep, Deadline, Close
  <2>3. Reached' /\ c_mixed \subseteq c_mixed'
    BY <1>0, <1>3, <2>1, <2>2, TsReaches
  <2>4. RustClean'
    BY <1>1, <1>3 DEF RustClean
  <2>5. ASSUME "due" \notin c_mixed' PROVE Own' /\ TsFlow'
    <3>1. Own /\ TsFlow
      BY <1>0, <1>3, <2>3, <2>5
    <3>2. CASE Issue
      BY <1>0, <1>3, <2>1, <2>5, <3>1, <3>2, TsIssueFlows
    <3>3. CASE TsStep
      <4>1. CASE TsImmediate
        BY <1>0, <1>3, <2>1, <2>5, <3>1, <4>1, TsImmediateFlows
      <4>2. CASE \E c \in Conns : TsData(c)
        BY <1>0, <1>3, <2>1, <2>5, <3>1, <4>2, TsDataFlows
      <4>3. CASE \E i \in DOMAIN c_tasks : TsContinue(i)
        BY <1>0, <1>3, <2>1, <2>5, <3>1, <4>3, TsContinueFlows
      <4>4. CASE \E i \in DOMAIN c_tasks : TsClosed(i)
        BY <1>0, <1>3, <2>1, <2>5, <3>1, <4>4, TsClosedFlows
      <4>5. CASE \E i \in DOMAIN c_tasks : TsReconnect(i)
        BY <1>0, <1>3, <2>1, <2>5, <3>1, <4>5, TsReconnectFlows
      <4> QED BY <3>3, <4>1, <4>2, <4>3, <4>4, <4>5 DEF TsStep
    <3>4. CASE \E x \in Calls : TsTimer(x)
      BY <2>1, <3>1, <3>4, TsTimerFlows
    <3>5. CASE TsClose
      BY <2>1, <3>1, <3>5, TsCloseFlows
    <3> QED BY <2>2, <3>2, <3>3, <3>4, <3>5
  <2> QED BY <1>1, <1>2, <1>3, <2>3, <2>4, <2>5 DEF AnswerInv
<1>4. CASE c_lang # "ts" /\ ClientStep
  <2>1. WorkerTypes
    BY <1>0, <1>4 DEF ClientOK
  <2>2. WorkerStep
    BY <1>0, <1>4, <2>1, RustRefines, PyRefines, GoRefines DEF ClientStep
  <2>3. Reached' /\ c_mixed \subseteq c_mixed'
    BY <1>0, <2>1, <2>2, WorkerReaches
  <2>4. RustClean'
    <3>1. CASE c_lang = "rust"
      <4>1. Own /\ WorkerFlow
        BY <1>0, <3>1 DEF RustClean
      <4> QED BY <1>0, <2>1, <2>2, <3>1, <4>1, RustCleans
    <3>2. CASE c_lang # "rust"
      BY <1>1, <3>2 DEF RustClean
    <3> QED BY <3>1, <3>2
  <2>5. "due" \notin c_mixed' => Own' /\ WorkerFlow'
    BY <1>0, <1>4, <2>1, <2>2, <2>3, WorkerFlows
  <2> QED BY <1>1, <1>2, <1>4, <2>3, <2>4, <2>5 DEF AnswerInv
<1>5. CASE c_lang # "ts" /\ ~ClientStep
  <2>1. WorkerTypes
    BY <1>0, <1>5 DEF ClientOK
  <2>2. WorkerEvent
    BY <1>5, <2>1, WorkerEvents
  <2>3. c_mixed' = c_mixed
    BY <2>2 DEF WorkerEvent
  <2> QED BY <1>0, <1>1, <1>2, <1>5, <2>1, <2>2, <2>3, EventFlows DEF AnswerInv
<1> QED BY <1>3, <1>4, <1>5

(* Every step keeps it.                                                    *)
LEMMA AnswerInvNext == AnswerInv /\ [RpcNext]_rpc_vars => AnswerInv'
<1> SUFFICES ASSUME AnswerInv, [RpcNext]_rpc_vars PROVE AnswerInv'
  OBVIOUS
<1>1. RpcInv'
  BY RpcInvNext DEF AnswerInv
<1>2. ASSUME NEW c \in Conns, SrvStep(c) PROVE AnswerInv'
  BY <1>1, <1>2, AnswerServer
<1>3. ASSUME NEW c \in Conns, ConnLost(c) PROVE AnswerInv'
  BY <1>1, <1>3, AnswerLost
<1>4. CASE Issue \/ ClientStep \/ (\E x \in Calls : Deadline(x)) \/ Close
  BY <1>1, <1>4, AnswerClient
<1>5. CASE UNCHANGED rpc_vars
  <2>1. UNCHANGED <<c_lang, c_op, c_issued, c_answer, c_worker, c_tasks, c_mixed, n_opened, n_lost, n_up, n_out, n_in,
                    s_busy, s_done, s_idem, s_excused>>
    BY <1>5 DEF rpc_vars, client_vars, net_vars, server_vars
  <2>2. Served' /\ Reached' /\ RustClean'
    BY <2>1 DEF AnswerInv, Served, Reached, Virgin, RustClean, Fit, Due
  <2>3. (Own => Own') /\ (WorkerFlow => WorkerFlow')
    BY <2>1 DEF Own, WorkerFlow, Flow
  <2>4. TsFlow => TsFlow'
    BY <2>1, FewerSame, TsStill
  <2> QED BY <1>1, <2>1, <2>2, <2>3, <2>4 DEF AnswerInv
<1> QED BY <1>2, <1>3, <1>4, <1>5 DEF RpcNext

(* It gives what is to be shown.                                           *)
LEMMA AnswerInvOwn == AnswerInv => AnswersOwn
  BY DEF AnswerInv, Own, RustClean, AnswersOwn, OkFor, Executed

(* No caller ever gets the result of another call: whatever a library      *)
(* answers ok carries the result of that very operation, which the server  *)
(* has executed. So it is whatever connections break, wherever a response  *)
(* is cut and whichever calls run out of time. The exception is a client   *)
(* that wrote a frame while the response to an earlier one was still due:  *)
(* the Go and Python libraries keep using a connection after a timeout     *)
(* (roundtrip, _roundtrip), and the TypeScript library can have several    *)
(* flushes under way (flushQueue). The Rust library drops the connection   *)
(* first, and is without exception. For every library, program, number of  *)
(* calls and connections, and limit of a frame.                            *)
THEOREM RpcAnswersOwn == RpcSpec => []AnswersOwn
<1>1. RpcSpec => []AnswerInv
  BY AnswerInvInit, AnswerInvNext, PTL DEF RpcSpec
<1> QED BY <1>1, AnswerInvOwn, PTL

-----------------------------------------------------------------------------
(* In which order effects happen.  Whoever is written in a frame, every     *)
(* earlier batched call is in the same frame, was executed before or is     *)
(* never going to be answered with a result.                                *)

\* x was answered with an error.
Denied(x) == c_answer[x] # Unanswered /\ c_answer[x].tag # "ok"

\* The run F may be written, and executed, now.
InTurn(F) ==
    \A y \in Range(F), x \in Calls :
        x < y /\ Batched(x) /\ Batched(y) => x \in Range(F) \/ Denied(x) \/ x \in Range(s_done)

\* All runs that the server has yet to execute, or a flush may write again.
FramesInTurn ==
    /\ \A c \in Conns : InTurn(s_busy[c].run) /\ \A j \in 1 .. Len(n_out[c]) : InTurn(n_out[c][j])
    /\ c_lang = "ts" => \A t \in Range(c_tasks) : InTurn(t.run)

\* Whatever was executed, every earlier batched call was before it, or is
\* answered with an error.
DoneInOrder ==
    \A k \in 1 .. Len(s_done), x \in Calls :
        x < s_done[k] /\ Batched(x) /\ Batched(s_done[k]) => Denied(x) \/ \E i \in 1 .. k - 1 : s_done[i] = x

\* x is queued in Q or in a run of the flushes T.
TsKeeps(Q, T, x) == x \in Q \/ \E t \in T : t.pc # "loop" /\ x \in Range(t.run)

\* The client still holds each batched call that waits for an answer, unless
\* its worker has ended.
Cover ==
    /\ c_lang # "ts" => \/ c_worker.pc = "gone"
                        \/ \A x \in 1 .. c_issued : Batched(x) /\ c_answer[x] = Unanswered =>
                              x \in Held(c_worker) \cup RunSet(c_worker)
    /\ c_lang = "ts" => \A x \in 1 .. c_issued : Batched(x) /\ c_answer[x] = Unanswered =>
                              TsKeeps(Range(c_worker.queue), Range(c_tasks), x)

\* Only direct calls follow a flush, and a flush between two runs has none.
DirectOnly(T) == \A t \in T : (t.next # 0 => ~Batched(t.next)) /\ (t.pc = "loop" => t.run = <<>>)

\* The same of the flushes under way.
Directs == c_lang = "ts" => DirectOnly(Range(c_tasks))

\* Answers are final.
Final == \A x \in Calls : c_answer[x] # Unanswered => c_answer'[x] = c_answer[x]

(* Refusing calls changes no answer.                                       *)
LEMMA RefusesFinal == ASSUME NetTypes, NEW S \in SUBSET Calls, Refuses(S) PROVE Final
  BY RefusesFacts DEF Final

(* What was in turn stays in turn.                                         *)
LEMMA InTurnKept ==
    ASSUME c_op' = c_op, Final, Range(s_done) \subseteq Range(s_done'), NEW F, InTurn(F)
    PROVE  InTurn(F)'
<1>1. \A x \in Calls : Denied(x) => Denied(x)'
  BY DEF Final, Denied
<1>2. \A x : Batched(x) <=> Batched(x)'
  BY DEF Batched
<1> SUFFICES ASSUME NEW y \in Range(F), NEW x \in Calls, x < y, Batched(x)', Batched(y)'
             PROVE  x \in Range(F) \/ Denied(x)' \/ x \in Range(s_done')
  BY DEF InTurn
<1>3. x \in Range(F) \/ Denied(x) \/ x \in Range(s_done)
  BY <1>2 DEF InTurn
<1> QED BY <1>1, <1>3

(* An empty run is in turn.                                                *)
LEMMA InTurnEmpty == InTurn(<<>>) /\ InTurn(Idle.run)
<1>1. Range(<<>>) = {} /\ Idle.run = <<>>
  BY NoCalls DEF Idle
<1> QED BY <1>1 DEF InTurn

\* A call of its own flight is always in turn.
LEMMA InTurnDirect == ASSUME NEW x, ~Batched(x) PROVE InTurn(<<x>>)
<1>1. Range(<<x>>) = {x}
  BY DEF Range
<1> QED BY <1>1 DEF InTurn

(* A step that executes nothing keeps the order of what was executed.      *)
LEMMA DoneKept ==
    ASSUME c_op' = c_op, Final, s_done' = s_done, DoneInOrder PROVE DoneInOrder'
<1>1. \A x \in Calls : Denied(x) => Denied(x)'
  BY DEF Final, Denied
<1>2. \A x : Batched(x) <=> Batched(x)'
  BY DEF Batched
<1> QED BY <1>1, <1>2 DEF DoneInOrder

\* What is executed next comes after all earlier calls of its frame.
LEMMA DoneNext ==
    ASSUME NetTypes, Served, NEW c \in Conns, AtOp(c), InTurn(s_busy[c].run), DoneInOrder,
           UNCHANGED <<c_op, c_answer>>, s_done' = Append(s_done, Current(c)), Current(c) \in Calls
    PROVE  DoneInOrder'
<1> DEFINE R == s_busy[c].run
           z == Current(c)
<1>0. /\ s_done \in Seq(Calls) /\ Len(s_done) \in Nat /\ R \in Runs /\ s_busy[c].at \in DOMAIN R /\ z = R[s_busy[c].at]
      /\ NCalls \in Nat
  BY NoCalls DEF NetTypes, Tasks, AtOp, Current
<1>1. R \in Seq(Calls) /\ DOMAIN R = 1 .. Len(R) /\ Len(R) \in Nat /\ \A i, j \in 1 .. Len(R) : i < j => R[i] < R[j]
  <2>1. R \in Seq(Calls) /\ List(R)
    BY <1>0 DEF Runs
  <2>2. \A i, j \in 1 .. Len(R) : i < j => R[i] < R[j]
    BY <2>1 DEF List, Incr
  <2>3. DOMAIN R = 1 .. Len(R) /\ Len(R) \in Nat
    BY <2>1
  <2> QED BY <2>1, <2>2, <2>3
<1>2. \A x \in Calls : x < z /\ Batched(x) /\ Batched(z) => Denied(x) \/ x \in Range(s_done)
  <2> SUFFICES ASSUME NEW x \in Calls, x < z, Batched(x), Batched(z), ~Denied(x) PROVE x \in Range(s_done)
    OBVIOUS
  <2>1. z \in Range(R)
    BY <1>0 DEF Range
  <2>2. CASE x \in Range(R)
    <3>1. PICK i \in 1 .. Len(R) : R[i] = x
      BY <1>1, <2>2 DEF Range
    <3>2. i < s_busy[c].at
      <4>1. s_busy[c].at \in 1 .. Len(R) /\ s_busy[c].at \in Nat /\ i \in Nat
        BY <1>0, <1>1
      <4>2. ~(s_busy[c].at < i) /\ s_busy[c].at # i
        <5>1. x \in Nat /\ z \in Nat
          BY DEF Calls
        <5> QED BY <1>0, <1>1, <3>1, <4>1, <5>1
      <4> QED BY <4>1, <4>2
    <3> QED BY <1>1, <3>1, <3>2 DEF Served
  <2> QED BY <2>1, <2>2 DEF InTurn
<1> HIDE DEF z, R
<1>3. /\ Len(s_done') = Len(s_done) + 1 /\ s_done'[Len(s_done) + 1] = z
      /\ \A k \in 1 .. Len(s_done) : s_done'[k] = s_done[k]
  BY <1>0 DEF z
<1>4. \A x : (Batched(x) <=> Batched(x)') /\ (Denied(x) <=> Denied(x)')
  BY DEF Batched, Denied
<1> SUFFICES ASSUME NEW k \in 1 .. Len(s_done'), NEW x \in Calls, x < s_done'[k], Batched(x), Batched(s_done'[k]), ~Denied(x)
             PROVE  \E i \in 1 .. k - 1 : s_done'[i] = x
  BY <1>4 DEF DoneInOrder
<1>5. CASE k \in 1 .. Len(s_done)
  <2>1. PICK i \in 1 .. k - 1 : s_done[i] = x
    BY <1>3, <1>5 DEF DoneInOrder
  <2>2. i \in 1 .. Len(s_done)
    BY <1>0, <1>5
  <2> QED BY <1>3, <2>1, <2>2
<1>6. CASE k \notin 1 .. Len(s_done)
  <2>1. k = Len(s_done) + 1
    BY <1>0, <1>3, <1>6
  <2>2. x \in Range(s_done)
    BY <1>2, <1>3, <2>1
  <2>3. PICK i \in 1 .. Len(s_done) : s_done[i] = x
    BY <1>0, <2>2 DEF Range
  <2>4. i \in 1 .. k - 1
    BY <1>0, <2>1
  <2> QED BY <1>3, <2>3, <2>4
<1> QED BY <1>5, <1>6

\* The runs of the server's tasks and of the frames on their way.
LEMMA ServerRuns ==
    ASSUME NetTypes, NEW c \in Conns, SrvStep(c),
           \A d \in Conns : InTurn(s_busy[d].run) /\ \A j \in 1 .. Len(n_out[d]) : InTurn(n_out[d][j])
    PROVE  \A d \in Conns : /\ \E F : s_busy'[d].run = F /\ InTurn(F)
                            /\ \A j \in 1 .. Len(n_out'[d]) : \E F : n_out'[d][j] = F /\ InTurn(F)
<1>0. n_out \in [Conns -> Seq(Runs)] /\ s_busy \in [Conns -> Tasks]
  BY DEF NetTypes
<1>1. \A d \in Conns : d # c => s_busy'[d] = s_busy[d] /\ n_out'[d] = n_out[d]
  BY ServerApart
<1>2. CASE SrvTake(c)
  <2>1. /\ s_busy'[c] = [run |-> Head(n_out[c]), at |-> 1, stage |-> "op"] /\ n_out[c] # <<>>
        /\ n_out'[c] = Tail(n_out[c])
    BY <1>0, <1>2 DEF SrvTake
  <2>2. /\ n_out[c] \in Seq(Runs) /\ Len(n_out[c]) \in Nat /\ Len(n_out[c]) # 0 /\ Head(n_out[c]) = n_out[c][1]
        /\ Len(Tail(n_out[c])) = Len(n_out[c]) - 1
        /\ \A j \in 1 .. Len(Tail(n_out[c])) : Tail(n_out[c])[j] = n_out[c][j + 1]
    BY <1>0, <2>1
  <2>3. s_busy'[c].run = n_out[c][1] /\ 1 \in 1 .. Len(n_out[c])
    BY <2>1, <2>2
  <2>4. \A j \in 1 .. Len(n_out'[c]) : j + 1 \in 1 .. Len(n_out[c]) /\ n_out'[c][j] = n_out[c][j + 1]
    BY <2>1, <2>2
  <2> QED BY <1>1, <2>3, <2>4
<1>3. CASE ~SrvTake(c)
  <2>1. n_out' = n_out
    BY <1>3 DEF SrvStep, idem_lookup, SrvApply, idem_record, SrvReply, net_vars
  <2>2. s_busy'[c].run = s_busy[c].run \/ s_busy'[c].run = Idle.run
    <3>1. s_busy[c] = [run |-> s_busy[c].run, at |-> s_busy[c].at, stage |-> s_busy[c].stage]
      BY <1>0 DEF Tasks
    <3> QED BY <1>0, <1>3, <3>1 DEF SrvStep, idem_lookup, SrvApply, idem_record, SrvReply
  <2> QED BY <1>1, <2>1, <2>2, InTurnEmpty
<1> QED BY <1>2, <1>3

\* The server executes in turn what was written in turn.
LEMMA OrderServer ==
    ASSUME NetTypes, Served, NEW c \in Conns, SrvStep(c), FramesInTurn, DoneInOrder
    PROVE  FramesInTurn' /\ DoneInOrder'
<1>0. UNCHANGED <<c_lang, c_op, c_answer, c_tasks>> /\ Final
  BY ServerApart DEF Final
<1>1. /\ Range(s_done) \subseteq Range(s_done')
      /\ s_done' = s_done \/ (s_done' = Append(s_done, Current(c)) /\ AtOp(c) /\ Current(c) \in Calls)
  BY DoneGrows
<1>2. \A F : InTurn(F) => InTurn(F)'
  BY <1>0, <1>1, InTurnKept
<1>3. \A d \in Conns : /\ \E F : s_busy'[d].run = F /\ InTurn(F)
                       /\ \A j \in 1 .. Len(n_out'[d]) : \E F : n_out'[d][j] = F /\ InTurn(F)
  BY ServerRuns DEF FramesInTurn
<1>4. \A d \in Conns : /\ \E F : s_busy'[d].run = F /\ InTurn(F)'
                       /\ \A j \in 1 .. Len(n_out'[d]) : \E F : n_out'[d][j] = F /\ InTurn(F)'
  BY <1>2, <1>3
<1>5. \A d \in Conns : InTurn(s_busy[d].run)' /\ \A j \in 1 .. Len(n_out'[d]) : InTurn(n_out[d][j])'
  BY <1>4 DEF InTurn
<1>6. c_lang = "ts" => \A t \in Range(c_tasks') : InTurn(t.run)'
  BY <1>0, <1>2 DEF FramesInTurn
<1>7. FramesInTurn'
  BY <1>0, <1>5, <1>6 DEF FramesInTurn
<1>8. DoneInOrder'
  <2>1. CASE s_done' = s_done
    BY <1>0, <2>1, DoneKept
  <2>2. CASE s_done' # s_done
    BY <1>0, <1>1, <2>2, DoneNext DEF FramesInTurn
  <2> QED BY <2>1, <2>2
<1> QED BY <1>7, <1>8

(* A step of the client keeps what is written in turn if what it adds is   *)
(* in turn.                                                                *)
LEMMA OrderClient ==
    ASSUME NetTypes, UNCHANGED <<c_lang, c_op, s_busy, s_done>>, Final, NEW F \in Runs, InTurn(F),
           n_out' = n_out \/ \E c \in Conns : n_out' = [n_out EXCEPT ![c] = Append(n_out[c], F)],
           c_lang = "ts" => \A t \in Range(c_tasks') : t.run \in {<<>>, F} \/ \E u \in Range(c_tasks) : u.run = t.run,
           FramesInTurn, DoneInOrder
    PROVE  FramesInTurn' /\ DoneInOrder'
<1>0. n_out \in [Conns -> Seq(Runs)]
  BY DEF NetTypes
<1>1. \A G : InTurn(G) => InTurn(G)'
  <2>1. Range(s_done) \subseteq Range(s_done')
    OBVIOUS
  <2> QED BY <2>1, InTurnKept
<1>2. \A d \in Conns : \A j \in 1 .. Len(n_out'[d]) : \E G : n_out'[d][j] = G /\ InTurn(G)
  <2>1. CASE n_out' = n_out
    BY <2>1 DEF FramesInTurn
  <2>2. CASE n_out' # n_out
    <3>1. PICK c \in Conns : n_out' = [n_out EXCEPT ![c] = Append(n_out[c], F)]
      BY <2>2
    <3>2. /\ n_out'[c] = Append(n_out[c], F) /\ \A d \in Conns : d # c => n_out'[d] = n_out[d]
      BY <1>0, <3>1
    <3>3. \A j \in 1 .. Len(n_out'[c]) : n_out'[c][j] = F \/ (j \in 1 .. Len(n_out[c]) /\ n_out'[c][j] = n_out[c][j])
      BY <1>0, <3>2
    <3> QED BY <3>2, <3>3 DEF FramesInTurn
  <2> QED BY <2>1, <2>2
<1>3. \A d \in Conns : \A j \in 1 .. Len(n_out'[d]) : \E G : n_out'[d][j] = G /\ InTurn(G)'
  BY <1>1, <1>2
<1>4. \A d \in Conns : \A j \in 1 .. Len(n_out'[d]) : InTurn(n_out[d][j])'
  BY <1>3 DEF InTurn
<1>5. \A d \in Conns : InTurn(s_busy[d].run)'
  <2>1. \A d \in Conns : \E G : s_busy'[d].run = G /\ InTurn(G)'
    BY <1>1 DEF FramesInTurn
  <2> QED BY <2>1 DEF InTurn
<1>6. ASSUME c_lang = "ts" PROVE \A t \in Range(c_tasks') : InTurn(t.run)'
  <2> SUFFICES ASSUME NEW t \in Range(c_tasks') PROVE InTurn(t.run)
    BY <1>1
  <2>1. \A u \in Range(c_tasks) : InTurn(u.run)
    BY <1>6 DEF FramesInTurn
  <2> QED BY <1>6, <2>1, InTurnEmpty
<1> QED BY <1>4, <1>5, <1>6, DoneKept DEF FramesInTurn

\* What was answered has been refused, or executed.
LEMMA AnsweredSettled ==
    ASSUME Own, NEW x \in Calls, c_answer[x] # Unanswered PROVE Denied(x) \/ x \in Range(s_done)
  BY DEF Own, Denied

\* A run is in turn if all earlier calls that wait are in it.
LEMMA InTurnIf ==
    ASSUME NetTypes, Own, NEW F, \A y \in Range(F) : y <= c_issued /\ y \in Calls,
           \A y \in Range(F), x \in 1 .. c_issued :
               x < y /\ Batched(x) /\ Batched(y) /\ c_answer[x] = Unanswered => x \in Range(F)
    PROVE  InTurn(F)
<1> SUFFICES ASSUME NEW y \in Range(F), NEW x \in Calls, x < y, Batched(x), Batched(y)
             PROVE  x \in Range(F) \/ Denied(x) \/ x \in Range(s_done)
  BY DEF InTurn
<1>1. x \in 1 .. c_issued
  <2>1. c_issued \in Nat /\ x \in Nat /\ y \in Nat /\ 1 <= x /\ y <= c_issued
    BY NoCalls DEF NetTypes, Calls
  <2> QED BY <2>1
<1> QED BY <1>1, AnsweredSettled

\* What a worker writes is in turn.
LEMMA WorkerTurn ==
    ASSUME WorkerTypes, Own, Cover, c_lang # "ts", c_worker.pc = "write"
    PROVE  InTurn(c_worker.run)
<1>1. /\ NetTypes /\ Range(c_worker.run) = RunSet(c_worker) /\ RunSet(c_worker) \subseteq Made /\ WorkerOK(c_worker)
      /\ Made \subseteq Calls
  <2>1. Made \subseteq Calls
    BY NoCalls DEF WorkerTypes, NetTypes, Made, Calls
  <2> QED BY <2>1 DEF WorkerTypes, RunSet, Running
<1>2. \A y \in Range(c_worker.run) : y <= c_issued /\ y \in Calls
  BY <1>1 DEF Made
<1>3. ASSUME NEW y \in Range(c_worker.run), NEW x \in 1 .. c_issued, x < y, Batched(x), Batched(y), c_answer[x] = Unanswered
      PROVE  x \in Range(c_worker.run)
  <2>1. x \in Held(c_worker) \cup RunSet(c_worker)
    BY <1>3 DEF Cover
  <2>2. x \notin Range(c_worker.direct)
    BY <1>1, <1>3 DEF WorkerOK
  <2>3. x \notin Range(c_worker.cmds) \cup Range(c_worker.queue)
    <3> SUFFICES ASSUME x \in Range(c_worker.cmds) \cup Range(c_worker.queue) PROVE FALSE
      OBVIOUS
    <3>1. y < x
      BY <1>1, <1>3 DEF WorkerOK
    <3>2. x \in Nat /\ y \in Nat
      BY <1>2, <1>3 DEF Calls
    <3> QED BY <1>3, <3>1, <3>2
  <2> QED BY <1>1, <2>1, <2>2, <2>3 DEF Held
<1>4. PICK F : F = c_worker.run
  OBVIOUS
<1> QED BY <1>1, <1>2, <1>3, <1>4, InTurnIf

\* Calls of a worker: how they are covered after a step.
LEMMA CoverStep ==
    ASSUME c_lang # "ts", UNCHANGED <<c_lang, c_op>>, Final, Cover, NetTypes, NetTypes',
           c_issued' = c_issued \/ c_issued' = c_issued + 1,
           c_worker.pc = "gone" => c_worker'.pc = "gone",
           \/ c_worker'.pc = "gone"
           \/ \A x \in Held(c_worker) \cup RunSet(c_worker) :
                x \in Held(c_worker') \cup RunSet(c_worker') \/ c_answer'[x] # Unanswered,
           c_issued' = c_issued + 1 => c_issued' \in Held(c_worker') \/ c_answer'[c_issued'] # Unanswered
    PROVE  Cover'
<1> SUFFICES ASSUME c_worker'.pc # "gone", NEW x \in 1 .. c_issued', Batched(x)', c_answer'[x] = Unanswered
             PROVE  x \in Held(c_worker') \cup RunSet(c_worker')
  BY DEF Cover, Held, RunSet, Running
<1>0. c_issued \in Nat /\ c_issued' \in Nat /\ x \in Calls
  BY NoCalls DEF NetTypes, Calls
<1>1. CASE x \in 1 .. c_issued
  <2>1. c_answer[x] = Unanswered
    BY <1>0 DEF Final
  <2>2. Batched(x)
    BY DEF Batched
  <2> QED BY <1>1, <2>1, <2>2 DEF Cover
<1>2. CASE x \notin 1 .. c_issued
  <2>1. x = c_issued + 1 /\ c_issued' = c_issued + 1
    BY <1>0, <1>2
  <2> QED BY <2>1
<1> QED BY <1>1, <1>2

\* Answered answers the whole run, and changes no answer.
LEMMA AnsweredFacts ==
    ASSUME NetTypes, NEW R, NEW G, c_answer' = Answered(R, G)
    PROVE  Final /\ \A x \in Calls : x \in Range(R) => c_answer'[x] # Unanswered
<1>1. \A g : [tag |-> "ok", of |-> g] # Unanswered
  <2>1. \A g : [tag |-> "ok", of |-> g].tag = "ok"
    OBVIOUS
  <2> QED BY <2>1 DEF Unanswered
<1>2. \A x \in Calls : c_answer'[x] = IF x \in Range(R) /\ c_answer[x] = Unanswered
                     THEN [tag |-> "ok", of |-> G[CHOOSE i \in DOMAIN R : R[i] = x]]
                     ELSE c_answer[x]
  BY DEF Answered
<1>3. Final
  BY <1>2 DEF Final
<1>4. \A x \in Calls : x \in Range(R) => c_answer'[x] # Unanswered
  BY <1>1, <1>2
<1> QED BY <1>3, <1>4

(* A worker of Rust, Python or Go forgets no call that it does not answer. *)
LEMMA WorkerCovers ==
    ASSUME WorkerTypes, c_lang # "ts", WorkerStep, Cover, NetTypes'
    PROVE  Cover' /\ Final
<1>0. /\ NetTypes /\ IsWorker(c_worker) /\ UNCHANGED <<c_lang, c_op, c_issued>>
      /\ c_worker.pc # "gone" /\ c_issued \in Nat /\ c_issued' # c_issued + 1
      /\ Held(c_worker) \cup RunSet(c_worker) \subseteq Calls
  <2>1. NetTypes /\ IsWorker(c_worker) /\ UNCHANGED <<c_lang, c_op, c_issued>>
    BY DEF WorkerTypes, WorkerOK, WorkerStep, Regroup, Write, Retry, Fail, Settle, More, Stays
  <2>2. c_worker.pc # "gone"
    BY DEF WorkerStep, Regroup, Write, Retry, Fail, Settle, More
  <2>3. c_issued \in Nat /\ Made \subseteq Calls
    BY <2>1, NoCalls DEF NetTypes, Made, Calls
  <2> QED BY <2>1, <2>2, <2>3 DEF WorkerTypes
<1>1. CASE Regroup
  <2>1. PICK S \in SUBSET Calls : Refuses(S)
    BY <1>1 DEF Regroup
  <2>2. Final
    BY <1>0, <2>1, RefusesFinal
  <2>3. RunSet(c_worker) = {}
    BY <1>1 DEF Regroup, RunSet, Running
  <2>4. \/ c_worker'.pc = "gone"
        \/ \A x \in Held(c_worker) \cup RunSet(c_worker) :
                x \in Held(c_worker') \cup RunSet(c_worker') \/ c_answer'[x] # Unanswered
    BY <1>1, <2>3 DEF Regroup
  <2> QED BY <1>0, <2>2, <2>4, CoverStep
<1>2. CASE Write \/ Retry \/ More
  <2>1. c_answer' = c_answer
    BY <1>2 DEF Write, Retry, More
  <2>2. /\ c_worker'.queue = c_worker.queue /\ c_worker'.direct = c_worker.direct /\ c_worker'.cmds = c_worker.cmds
        /\ c_worker'.run = c_worker.run /\ c_worker'.pc \in {"write", "read"} /\ c_worker.pc \in {"write", "read"}
    BY <1>0, <1>2 DEF IsWorker, Write, Retry, More
  <2>3. Held(c_worker') = Held(c_worker) /\ RunSet(c_worker') = RunSet(c_worker)
    BY <2>2 DEF Held, RunSet, Running
  <2>4. Final
    BY <2>1 DEF Final
  <2> QED BY <1>0, <2>3, <2>4, CoverStep
<1>3. CASE Fail
  <2>1. PICK pc \in {"idle", "segment", "direct", "queue", "gone"}, run \in {c_worker.run, <<>>},
          cmds \in {c_worker.cmds, <<>>}, stash \in Seq(ResponsePieces), dead \in {c_worker.dead, TRUE},
          S \in SUBSET Calls : Ends(pc, run, cmds, stash, dead, S)
    BY <1>3 DEF Fail
  <2>2. /\ c_worker' = [c_worker EXCEPT !.pc = pc, !.run = run, !.cmds = cmds, !.stash = stash, !.dead = dead]
        /\ Refuses(S)
        /\ pc = "gone" \/ (Range(c_worker.run) \subseteq S /\ (cmds = c_worker.cmds \/ Range(c_worker.cmds) \subseteq S))
    BY <2>1 DEF Ends
  <2>3. Final /\ \A x \in S : c_answer'[x] # Unanswered
    BY <1>0, <2>2, RefusesFinal, RefusesFacts
  <2>4. /\ c_worker'.queue = c_worker.queue /\ c_worker'.direct = c_worker.direct /\ c_worker'.cmds = cmds
        /\ c_worker'.pc = pc
    BY <1>0, <2>2 DEF IsWorker
  <2>5. c_worker.pc = "read"
    BY <1>3 DEF Fail
  <2>6. \/ c_worker'.pc = "gone"
        \/ \A x \in Held(c_worker) \cup RunSet(c_worker) :
                x \in Held(c_worker') \cup RunSet(c_worker') \/ c_answer'[x] # Unanswered
    BY <2>2, <2>3, <2>4, <2>5 DEF Held, RunSet, Running
  <2> QED BY <1>0, <2>3, <2>6, CoverStep
<1>4. CASE Settle
  <2>1. PICK k \in Arrived, pc \in {"idle", "segment", "direct", "queue", "gone"}, stash \in Seq(ResponsePieces) :
         /\ c_answer' = Answered(c_worker.run, Fed(k)[1].run)
         /\ c_worker' = [c_worker EXCEPT !.pc = pc, !.run = <<>>, !.stash = stash]
    BY <1>4, Zenon DEF Settle
  <2>2. PICK R, G : R = c_worker.run /\ G = Fed(k)[1].run
    OBVIOUS
  <2>3. Final /\ \A x \in Calls : x \in Range(c_worker.run) => c_answer'[x] # Unanswered
    BY <1>0, <2>1, <2>2, AnsweredFacts
  <2>4. c_worker'.queue = c_worker.queue /\ c_worker'.direct = c_worker.direct /\ c_worker'.cmds = c_worker.cmds
    BY <1>0, <2>1 DEF IsWorker
  <2>5. \A x \in Held(c_worker) \cup RunSet(c_worker) :
                x \in Held(c_worker') \cup RunSet(c_worker') \/ c_answer'[x] # Unanswered
    BY <1>0, <2>3, <2>4 DEF Held, RunSet
  <2> QED BY <1>0, <2>3, <2>5, CoverStep
<1> QED BY <1>1, <1>2, <1>3, <1>4 DEF WorkerStep

(* Neither does a call, a timeout or close().                              *)
LEMMA EventCovers ==
    ASSUME WorkerTypes, c_lang # "ts", Issue \/ (\E x \in Calls : Deadline(x)) \/ Close, Cover, NetTypes'
    PROVE  Cover' /\ Final
<1>0. NetTypes /\ IsWorker(c_worker) /\ c_lang \in {"rust", "py", "go"} /\ c_issued \in Nat /\ WorkerEvent
  <2>1. NetTypes /\ IsWorker(c_worker) /\ c_lang \in {"rust", "py", "go"} /\ c_issued \in Nat
    <3>1. NetTypes /\ IsWorker(c_worker) /\ c_lang \in {"rust", "py", "go"}
      BY LangsAssumption DEF WorkerTypes, WorkerOK, NetTypes
    <3>2. c_issued \in 0 .. NCalls /\ NCalls \in Nat
      BY <3>1, NoCalls DEF NetTypes
    <3> QED BY <3>1, <3>2
  <2>2. WorkerEvent
    BY WorkerEvents
  <2> QED BY <2>1, <2>2
<1>1. PICK S \in SUBSET Calls : Refuses(S)
  BY <1>0 DEF WorkerEvent
<1>2. Final /\ c_worker'.pc = c_worker.pc /\ c_worker'.run = c_worker.run
  BY <1>0, <1>1, RefusesFinal DEF WorkerEvent
<1>3. RunSet(c_worker') = RunSet(c_worker)
  BY <1>2 DEF RunSet, Running
<1>4. CASE Issue
  <2>1. PICK x : x = c_issued + 1
    OBVIOUS
  <2>2. UNCHANGED <<c_lang, c_op>> /\ c_issued' = x /\ x \in Calls
    BY <1>4, <2>1 DEF Issue
  <2>3. CASE c_worker.closed
    <3>1. UNCHANGED c_worker /\ c_answer' = Refused({x}, "closed")
      BY <1>4, <2>1, <2>3 DEF Issue
    <3>2. Refuses({x}) /\ {x} \in SUBSET Calls
      BY <2>2, <3>1 DEF Refuses
    <3>3. c_answer'[x] # Unanswered
      BY <1>0, <2>2, <3>2, RefusesFacts
    <3> QED BY <1>0, <1>2, <2>1, <2>2, <3>1, <3>3, CoverStep
  <2>4. CASE ~c_worker.closed
    <3>1. \/ c_worker' = [c_worker EXCEPT !.queue = Append(c_worker.queue, x)]
          \/ c_worker' = [c_worker EXCEPT !.direct = Append(c_worker.direct, x)]
      BY <1>0, <1>4, <2>1, <2>4 DEF Issue, RustExec, PyExec, GoExec
    <3>2. \A s \in Seq(Calls) : Range(s) \cup {x} \subseteq Range(Append(s, x))
      <4> SUFFICES ASSUME NEW s \in Seq(Calls) PROVE Range(s) \cup {x} \subseteq Range(Append(s, x))
        OBVIOUS
      <4>1. /\ Len(s) \in Nat /\ Len(Append(s, x)) = Len(s) + 1 /\ Append(s, x)[Len(s) + 1] = x
            /\ \A j \in 1 .. Len(s) : Append(s, x)[j] = s[j] /\ j \in 1 .. Len(s) + 1
        BY <2>2, AppendAt
      <4>2. DOMAIN s = 1 .. Len(s) /\ DOMAIN Append(s, x) = 1 .. Len(s) + 1
        BY <2>2
      <4> QED BY <4>1, <4>2 DEF Range
    <3>3. c_worker.queue \in Seq(Calls) /\ c_worker.direct \in Seq(Calls)
      BY DEF WorkerTypes, WorkerOK, List, Incr, Calls
    <3>4. Held(c_worker) \cup {x} \subseteq Held(c_worker')
      <4>1. CASE c_worker' = [c_worker EXCEPT !.queue = Append(c_worker.queue, x)]
        <5>1. c_worker'.queue = Append(c_worker.queue, x) /\ c_worker'.direct = c_worker.direct /\ c_worker'.cmds = c_worker.cmds
          BY <1>0, <4>1 DEF IsWorker
        <5> QED BY <3>2, <3>3, <5>1 DEF Held
      <4>2. CASE c_worker' = [c_worker EXCEPT !.direct = Append(c_worker.direct, x)]
        <5>1. c_worker'.direct = Append(c_worker.direct, x) /\ c_worker'.queue = c_worker.queue /\ c_worker'.cmds = c_worker.cmds
          BY <1>0, <4>2 DEF IsWorker
        <5> QED BY <3>2, <3>3, <5>1 DEF Held
      <4> QED BY <3>1, <4>1, <4>2
    <3> QED BY <1>0, <1>2, <1>3, <2>1, <2>2, <3>4, CoverStep
  <2> QED BY <2>3, <2>4
<1>5. CASE (\E x \in Calls : Deadline(x)) \/ Close
  <2>1. UNCHANGED <<c_lang, c_op, c_issued>>
    BY <1>5, WorkerOther
  <2>2. Held(c_worker') = Held(c_worker)
    <3>1. c_worker' = c_worker \/ c_worker' = [c_worker EXCEPT !.closed = TRUE]
      BY <1>0, <1>5 DEF Deadline, Close, PyGiveUp, PyClose, GoClose
    <3>2. c_worker'.queue = c_worker.queue /\ c_worker'.direct = c_worker.direct /\ c_worker'.cmds = c_worker.cmds
      BY <1>0, <3>1 DEF IsWorker
    <3> QED BY <3>2 DEF Held
  <2>3. c_issued' # c_issued + 1
    BY <1>0, <2>1
  <2> QED BY <1>0, <1>2, <1>3, <2>1, <2>2, <2>3, CoverStep
<1> QED BY <1>4, <1>5

\* A step of a worker's client keeps what is written in turn.
LEMMA WorkerOrder ==
    ASSUME ClientOK, c_lang # "ts", Own, Cover, FramesInTurn, DoneInOrder, NetTypes',
           Issue \/ ClientStep \/ (\E x \in Calls : Deadline(x)) \/ Close, Final
    PROVE  FramesInTurn' /\ DoneInOrder'
<1>0. WorkerTypes /\ NetTypes /\ c_lang \in {"rust", "py", "go"}
  BY LangsAssumption DEF ClientOK, NetTypes
<1>1. UNCHANGED <<c_lang, c_op, s_busy, s_done>>
  BY ClientKeeps DEF ClientKept
<1>2. CASE n_out' = n_out
  <2>1. <<>> \in Runs /\ InTurn(<<>>)
    BY NoCalls, InTurnEmpty DEF Runs
  <2> QED BY <1>0, <1>1, <1>2, <2>1, OrderClient
<1>3. CASE n_out' # n_out
  <2>1. ~(Issue \/ (\E x \in Calls : Deadline(x)) \/ Close)
    BY <1>0, <1>3, WorkerEvents DEF WorkerEvent
  <2>2. WorkerStep
    BY <1>0, <2>1, RustRefines, PyRefines, GoRefines DEF ClientStep
  <2>3. Write
    BY <1>3, <2>2 DEF WorkerStep, Regroup, Retry, Fail, Settle, More
  <2>4. c_worker.pc = "write" /\ Send(c_worker.conn, c_worker.run, {})
    BY <2>3 DEF Write
  <2>5. PICK F : F = c_worker.run
    OBVIOUS
  <2>6. InTurn(F) /\ F \in Runs /\ c_worker.conn \in Conns
    BY <1>0, <2>4, <2>5, WorkerTurn DEF WorkerTypes, WorkerOK, Runs, List, Incr, Calls
  <2>7. \E c \in Conns : n_out' = [n_out EXCEPT ![c] = Append(n_out[c], F)]
    BY <1>3, <2>4, <2>5, <2>6 DEF Send
  <2> QED BY <1>0, <1>1, <2>6, <2>7, OrderClient
<1> QED BY <1>2, <1>3

\* The flushes as a set: one more, one less.
LEMMA TasksAdded ==
    ASSUME NEW s \in Seq(TsTasks), NEW t \in TsTasks
    PROVE  Range(Append(s, t)) = Range(s) \cup {t}
<1>1. /\ Len(s) \in Nat /\ Len(Append(s, t)) = Len(s) + 1 /\ Append(s, t)[Len(s) + 1] = t
      /\ \A j \in 1 .. Len(s) : Append(s, t)[j] = s[j] /\ j \in 1 .. Len(s) + 1
      /\ \A j \in 1 .. Len(s) + 1 : j \in 1 .. Len(s) \/ j = Len(s) + 1
  BY AppendAt
<1>2. DOMAIN s = 1 .. Len(s) /\ DOMAIN Append(s, t) = 1 .. Len(s) + 1
  OBVIOUS
<1> QED BY <1>1, <1>2 DEF Range

(* The same for a flush that ends.                                         *)
LEMMA TasksRemoved ==
    ASSUME NEW s \in Seq(TsTasks), NEW i \in 1 .. Len(s)
    PROVE  /\ RemoveAt(s, i) \in Seq(TsTasks) /\ Range(RemoveAt(s, i)) \subseteq Range(s) /\ s[i] \in Range(s)
           /\ \A t \in Range(s) : t \in Range(RemoveAt(s, i)) \/ t = s[i]
<1> DEFINE r == RemoveAt(s, i)
           a == SubSeq(s, 1, i - 1)
           b == SubSeq(s, i + 1, Len(s))
<1>1. Len(s) \in Nat
  OBVIOUS
<1>2. /\ a \in Seq(TsTasks) /\ Len(a) = i - 1 /\ \A j \in 1 .. i - 1 : a[j] = s[j]
  BY <1>1
<1>3. /\ b \in Seq(TsTasks) /\ Len(b) = Len(s) - i /\ \A j \in 1 .. Len(s) - i : b[j] = s[i + j]
  BY <1>1
<1>4. r = a \o b
  BY DEF RemoveAt
<1> HIDE DEF a, b, r
<1>5. r \in Seq(TsTasks) /\ Len(r) = Len(s) - 1 /\ \A j \in 1 .. Len(s) - 1 : r[j] = IF j <= i - 1 THEN a[j] ELSE b[j - (i - 1)]
  BY <1>1, <1>2, <1>3, <1>4, SMTT(25)
<1>6. DOMAIN r = 1 .. Len(s) - 1 /\ DOMAIN s = 1 .. Len(s)
  BY <1>5
<1>7. ASSUME NEW j \in 1 .. Len(s) - 1 PROVE \E k \in 1 .. Len(s) : r[j] = s[k]
  <2>1. CASE j <= i - 1
    BY <1>1, <1>2, <1>5, <2>1
  <2>2. CASE ~(j <= i - 1)
    <3>1. j - (i - 1) \in 1 .. Len(s) - i /\ i + (j - (i - 1)) = j + 1 /\ j + 1 \in 1 .. Len(s)
      BY <1>1, <2>2
    <3> QED BY <1>3, <1>5, <2>2, <3>1
  <2> QED BY <2>1, <2>2
<1>8. ASSUME NEW k \in 1 .. Len(s), k # i PROVE \E j \in 1 .. Len(s) - 1 : r[j] = s[k]
  <2>1. CASE k < i
    <3>1. k \in 1 .. i - 1 /\ k \in 1 .. Len(s) - 1 /\ k <= i - 1
      BY <1>1, <2>1
    <3> QED BY <1>2, <1>5, <3>1
  <2>2. CASE ~(k < i)
    <3>1. k - 1 \in 1 .. Len(s) - 1 /\ ~(k - 1 <= i - 1) /\ k - 1 - (i - 1) \in 1 .. Len(s) - i /\ i + (k - 1 - (i - 1)) = k
      BY <1>1, <1>8, <2>2
    <3> QED BY <1>3, <1>5, <3>1
  <2> QED BY <2>1, <2>2
<1>9. Range(r) \subseteq Range(s) /\ s[i] \in Range(s)
  BY <1>6, <1>7 DEF Range
<1>10. \A t \in Range(s) : t \in Range(r) \/ t = s[i]
  BY <1>6, <1>8 DEF Range
<1> QED BY <1>5, <1>9, <1>10 DEF r

\* What every step of the TypeScript client is to keep.
TsOrderly ==
    /\ Cover' /\ Directs' /\ Final
    /\ c_mixed' = {} /\ Own /\ FramesInTurn /\ DoneInOrder => FramesInTurn' /\ DoneInOrder'

\* It does if it writes in turn, and forgets no call that it does not answer.
LEMMA TsOrders ==
    ASSUME TsTypes, c_lang = "ts", Cover, Directs, NetTypes', UNCHANGED <<c_lang, c_op, s_busy, s_done>>, Final,
           NEW F \in Runs, c_mixed' = {} /\ Own /\ FramesInTurn => InTurn(F),
           n_out' = n_out \/ \E c \in Conns : n_out' = [n_out EXCEPT ![c] = Append(n_out[c], F)],
           \A t \in Range(c_tasks') :
              \/ t \in Range(c_tasks)
              \/ /\ t.run \in {<<>>, F} \/ \E u \in Range(c_tasks) : u.run = t.run
                 /\ t.pc = "loop" => t.run = <<>>
                 /\ t.next = 0 \/ ~Batched(t.next) \/ \E u \in Range(c_tasks) : u.next = t.next,
           c_issued' = c_issued \/ c_issued' = c_issued + 1,
           \A x \in Calls : TsKeeps(Range(c_worker.queue), Range(c_tasks), x) =>
              TsKeeps(Range(c_worker'.queue), Range(c_tasks'), x) \/ c_answer'[x] # Unanswered,
           c_issued' = c_issued + 1 => \/ TsKeeps(Range(c_worker'.queue), Range(c_tasks'), c_issued')
                                       \/ c_answer'[c_issued'] # Unanswered \/ ~Batched(c_issued')
    PROVE  TsOrderly
<1>0. NetTypes /\ c_issued \in Nat /\ c_issued' \in Nat /\ 1 .. c_issued' \subseteq Calls /\ \A x : Batched(x) <=> Batched(x)'
  <2>1. NetTypes /\ NCalls \in Nat
    BY NoCalls DEF TsTypes
  <2>2. c_issued \in 0 .. NCalls /\ c_issued' \in 0 .. NCalls
    BY <2>1 DEF NetTypes
  <2>3. \A x : Batched(x) <=> Batched(x)'
    BY DEF Batched
  <2> QED BY <2>1, <2>2, <2>3 DEF Calls
<1>1. Cover'
  <2> SUFFICES ASSUME NEW x \in 1 .. c_issued', Batched(x), c_answer'[x] = Unanswered
               PROVE  TsKeeps(Range(c_worker'.queue), Range(c_tasks'), x)
    BY <1>0 DEF Cover, TsKeeps
  <2>1. CASE x \in 1 .. c_issued
    <3>1. c_answer[x] = Unanswered /\ x \in Calls
      BY <1>0 DEF Final
    <3> QED BY <2>1, <3>1 DEF Cover
  <2>2. CASE x \notin 1 .. c_issued
    <3>1. x = c_issued + 1 /\ c_issued' = c_issued + 1
      BY <1>0, <2>2
    <3> QED BY <3>1
  <2> QED BY <2>1, <2>2
<1>2. Directs'
  <2> SUFFICES ASSUME NEW t \in Range(c_tasks') PROVE (t.next # 0 => ~Batched(t.next)) /\ (t.pc = "loop" => t.run = <<>>)
    BY <1>0 DEF Directs, DirectOnly
  <2>1. \A u \in Range(c_tasks) : (u.next # 0 => ~Batched(u.next)) /\ (u.pc = "loop" => u.run = <<>>)
    BY DEF Directs, DirectOnly
  <2> QED BY <2>1
<1>3. ASSUME c_mixed' = {}, Own, FramesInTurn, DoneInOrder PROVE FramesInTurn' /\ DoneInOrder'
  <2>1. \A t \in Range(c_tasks') : t.run \in {<<>>, F} \/ \E u \in Range(c_tasks) : u.run = t.run
    OBVIOUS
  <2>2. InTurn(F)
    BY <1>3
  <2> QED BY <1>0, <1>3, <2>1, <2>2, OrderClient
<1> QED BY <1>1, <1>2, <1>3 DEF TsOrderly

\* A chunk of the queue is in turn while no other flush has a run under way.
LEMMA ChunkInTurn ==
    ASSUME TsTypes, c_lang = "ts", Cover, Own, TsOverlap = {}
    PROVE  InTurn(TsChunk(c_worker.queue))
<1> DEFINE q == c_worker.queue
           run == TsChunk(q)
           rest == SubSeq(q, Len(run) + 1, Len(q))
<1>0. List(q) /\ NetTypes /\ Range(q) \subseteq Made /\ Made \subseteq Calls /\ \A x \in Made : x <= c_issued
  BY TsFacts
<1>1. /\ Range(run) \cup Range(rest) = Range(q)
      /\ \A x \in Range(run), y \in Range(rest) : x < y
  BY <1>0, ChunkFacts
<1>2. \A t \in Range(c_tasks) : t.pc = "loop"
  BY DEF TsOverlap, Range
<1>3. PICK F : F = run
  OBVIOUS
<1> HIDE DEF run, rest
<1>4. \A y \in Range(F) : y <= c_issued /\ y \in Calls
  BY <1>0, <1>1, <1>3
<1>5. ASSUME NEW y \in Range(F), NEW x \in 1 .. c_issued, x < y, Batched(x), Batched(y), c_answer[x] = Unanswered
      PROVE  x \in Range(F)
  <2>1. x \in Range(q)
    BY <1>2, <1>5 DEF Cover, TsKeeps
  <2>2. x \in Nat /\ y \in Nat
    BY <1>4, <1>5 DEF Calls
  <2> QED BY <1>1, <1>3, <1>5, <2>1, <2>2
<1>6. InTurn(F)
  BY <1>0, <1>4, <1>5, InTurnIf
<1> QED BY <1>3, <1>6 DEF run

\* A flush takes a chunk off the queue and writes it.
LEMMA TsTakeOrders ==
    ASSUME TsTypes, c_lang = "ts", Cover, Directs, NetTypes', UNCHANGED <<c_lang, c_op, s_busy, s_done, c_answer>>,
           NEW r \in Seq(TsTasks), Range(r) \subseteq Range(c_tasks), \A t \in Range(c_tasks) : t \in Range(r) \/ t.pc = "loop",
           NEW next \in Calls \cup {0}, next = 0 \/ ~Batched(next) \/ \E u \in Range(c_tasks) : u.next = next, NEW w,
           Send(c_worker.conn, TsChunk(c_worker.queue), TsOverlap),
           c_tasks' = Append(r, TsListening(TsChunk(c_worker.queue), 1, c_worker.conn, TRUE, next)),
           c_worker' = [c_worker EXCEPT !.queue = SubSeq(c_worker.queue, Len(TsChunk(c_worker.queue)) + 1, Len(c_worker.queue)),
                                        !.sched = w],
           c_issued' = c_issued \/ (c_issued' = c_issued + 1 /\ ~Batched(c_issued'))
    PROVE  TsOrderly
<1>0. List(c_worker.queue) /\ IsWorker(c_worker) /\ c_worker.conn \in Conns /\ NetTypes
  BY TsFacts
<1>1. PICK run, rest, c, t : /\ run = TsChunk(c_worker.queue) /\ rest = SubSeq(c_worker.queue, Len(run) + 1, Len(c_worker.queue))
                             /\ c = c_worker.conn /\ t = TsListening(run, 1, c, TRUE, next)
  OBVIOUS
<1>2. /\ run \in Runs /\ Range(run) \cup Range(rest) = Range(c_worker.queue)
  BY <1>0, <1>1, ChunkFacts
<1>3. Flushing(t, "read", run, c, next)
  <2>1. run \in Runs /\ 1 \in {1, 2} /\ c \in Conns /\ TRUE \in BOOLEAN
    BY <1>0, <1>1, <1>2
  <2> QED BY <1>1, <2>1, ListeningFacts, Zenon
<1>4. t \in TsTasks /\ t.pc = "read" /\ t.run = run /\ t.next = next /\ c_tasks' = Append(r, t)
  BY <1>1, <1>3 DEF Flushing
<1>5. Range(c_tasks') = Range(r) \cup {t}
  BY <1>4, TasksAdded
<1>6. c_worker'.queue = rest
  BY <1>0, <1>1 DEF IsWorker
<1>7. n_out' = n_out \/ \E d \in Conns : n_out' = [n_out EXCEPT ![d] = Append(n_out[d], run)]
  BY <1>0, <1>1 DEF Send
<1>8. ASSUME c_mixed' = {}, Own PROVE InTurn(run)
  <2>1. TsOverlap = {}
    BY <1>8 DEF Send
  <2> QED BY <1>1, <1>8, <2>1, ChunkInTurn
<1>9. Final
  BY DEF Final
<1>10. \A x \in Calls : TsKeeps(Range(c_worker.queue), Range(c_tasks), x) => TsKeeps(Range(c_worker'.queue), Range(c_tasks'), x)
  BY <1>2, <1>4, <1>5, <1>6 DEF TsKeeps
<1>11. \A u \in Range(c_tasks') :
          \/ u \in Range(c_tasks)
          \/ /\ u.run \in {<<>>, run} \/ \E v \in Range(c_tasks) : v.run = u.run
             /\ u.pc = "loop" => u.run = <<>>
             /\ u.next = 0 \/ ~Batched(u.next) \/ \E v \in Range(c_tasks) : v.next = u.next
  BY <1>4, <1>5
<1>12. c_issued' = c_issued + 1 => \/ TsKeeps(Range(c_worker'.queue), Range(c_tasks'), c_issued')
                                   \/ c_answer'[c_issued'] # Unanswered \/ ~Batched(c_issued')
  <2>1. c_issued # c_issued + 1
    BY <1>0, NoCalls DEF NetTypes
  <2> QED BY <2>1
<1>13. c_mixed' = {} /\ Own /\ FramesInTurn => InTurn(run)
  BY <1>8
<1>14. \A x \in Calls : TsKeeps(Range(c_worker.queue), Range(c_tasks), x) =>
              TsKeeps(Range(c_worker'.queue), Range(c_tasks'), x) \/ c_answer'[x] # Unanswered
  BY <1>10
<1>15. UNCHANGED <<c_lang, c_op, s_busy, s_done>> /\ (c_issued' = c_issued \/ c_issued' = c_issued + 1)
  OBVIOUS
<1> QED BY <1>2, <1>7, <1>9, <1>11, <1>12, <1>13, <1>14, <1>15, TsOrders

\* A step that writes nothing and makes no call.
LEMMA TsQuietOrders ==
    ASSUME TsTypes, c_lang = "ts", Cover, Directs, NetTypes', UNCHANGED <<c_lang, c_op, c_issued, s_busy, s_done, n_out>>, Final,
           \A t \in Range(c_tasks') :
              \/ t \in Range(c_tasks)
              \/ /\ t.run = <<>> \/ \E u \in Range(c_tasks) : u.run = t.run
                 /\ t.pc = "loop" => t.run = <<>>
                 /\ t.next = 0 \/ \E u \in Range(c_tasks) : u.next = t.next,
           \A x \in Calls : TsKeeps(Range(c_worker.queue), Range(c_tasks), x) =>
              TsKeeps(Range(c_worker'.queue), Range(c_tasks'), x) \/ c_answer'[x] # Unanswered
    PROVE  TsOrderly
<1>1. <<>> \in Runs /\ InTurn(<<>>)
  BY NoCalls, InTurnEmpty DEF Runs
<1>2. c_issued # c_issued + 1
  BY NoCalls DEF TsTypes, NetTypes
<1>3. \A t \in Range(c_tasks') :
              \/ t \in Range(c_tasks)
              \/ /\ t.run \in {<<>>, <<>>} \/ \E u \in Range(c_tasks) : u.run = t.run
                 /\ t.pc = "loop" => t.run = <<>>
                 /\ t.next = 0 \/ ~Batched(t.next) \/ \E u \in Range(c_tasks) : u.next = t.next
  OBVIOUS
<1>4. PICK F : F = <<>>
  OBVIOUS
<1> QED BY <1>1, <1>2, <1>3, <1>4, TsOrders

(* Refusing the calls S answers them and changes no answer.                *)
LEMMA RefusedFacts ==
    ASSUME NetTypes, NEW S, NEW tag \in {"transport", "timeout", "closed"}, c_answer' = Refused(S, tag)
    PROVE  Final /\ \A x \in Calls : x \in S => c_answer'[x] # Unanswered
<1>1. \A x : [tag |-> tag, of |-> x] # Unanswered
  <2>1. \A x : [tag |-> tag, of |-> x].tag = tag /\ Unanswered.tag = "none"
    BY DEF Unanswered
  <2> QED BY <2>1
<1>2. \A x \in Calls : c_answer'[x] = IF x \in S /\ c_answer[x] = Unanswered THEN [tag |-> tag, of |-> x] ELSE c_answer[x]
  BY DEF Refused
<1> QED BY <1>1, <1>2 DEF Final

(* A call that is queued, or starts a flush of its own.                    *)
LEMMA TsIssueOrders ==
    ASSUME TsTypes, c_lang = "ts", Cover, Directs, NetTypes', Issue PROVE TsOrderly
<1>0. /\ c_tasks \in Seq(TsTasks) /\ IsWorker(c_worker) /\ NetTypes /\ List(c_worker.queue) /\ c_issued \in Nat
      /\ UNCHANGED <<c_lang, c_op, s_busy, s_done>>
  BY TsTasksSeq, TsFacts DEF Issue, server_vars
<1>1. PICK x : x = c_issued + 1
  OBVIOUS
<1>2. c_issued' = x /\ x \in Calls /\ x \in DOMAIN c_op
  BY <1>1 DEF Issue
<1>e. <<>> \in Runs /\ InTurn(<<>>)
  BY NoCalls, InTurnEmpty DEF Runs
<1>f. PICK F : F = <<>>
  OBVIOUS
<1>3. CASE c_worker.closed
  <2>1. c_answer' = Refused({x}, "closed") /\ UNCHANGED <<c_worker, c_tasks, n_out>>
    BY <1>1, <1>3 DEF Issue
  <2>2. Final /\ c_answer'[x] # Unanswered
    BY <1>0, <1>2, <2>1, RefusedFacts
  <2> QED BY <1>0, <1>1, <1>2, <1>e, <1>f, <2>1, <2>2, TsOrders
<1>4. CASE ~c_worker.closed
  <2>1. c_answer' = c_answer /\ TsExec(x)
    BY <1>0, <1>1, <1>4 DEF Issue
  <2>2. Final
    BY <2>1 DEF Final
  <2>3. TsOps[c_op[x]].direct => ~Batched(x)
    <3>1. c_op[x] \in DOMAIN TsOps
      <4>1. c_lang \in Langs /\ c_op \in Programs(c_lang)
        BY <1>0 DEF NetTypes
      <4>2. c_op[x] \in DOMAIN Methods(c_lang)
        BY <1>2, <4>1, LangsAssumption
      <4> QED BY <4>2 DEF Methods
    <3> QED BY <3>1, TsMethods DEF Batched
  <2>4. CASE TsOps[c_op[x]].direct /\ c_worker.queue # <<>>
    <3>1. TsTakeRun(c_tasks, x)
      BY <2>1, <2>4 DEF TsExec
    <3>2. PICK w, next, r : w = c_worker.sched /\ next = x /\ r = c_tasks
      OBVIOUS
    <3>3. /\ Send(c_worker.conn, TsChunk(c_worker.queue), TsOverlap)
          /\ c_tasks' = Append(r, TsListening(TsChunk(c_worker.queue), 1, c_worker.conn, TRUE, next))
          /\ c_worker' = [c_worker EXCEPT !.queue = SubSeq(c_worker.queue, Len(TsChunk(c_worker.queue)) + 1, Len(c_worker.queue)),
                                          !.sched = w]
      BY <3>1, <3>2 DEF TsTakeRun
    <3>4. next \in Calls \cup {0} /\ r \in Seq(TsTasks) /\ Range(r) = Range(c_tasks) /\ ~Batched(next)
      BY <1>0, <1>2, <2>3, <2>4, <3>2
    <3>5. c_issued' = c_issued + 1 /\ ~Batched(c_issued')
      BY <1>1, <1>2, <2>3, <2>4
    <3> QED BY <1>0, <2>1, <3>3, <3>4, <3>5, TsTakeOrders
  <2>5. CASE TsOps[c_op[x]].direct /\ c_worker.queue = <<>>
    <3>1. c_tasks' = Append(c_tasks, TsPaused("loop", <<>>, FALSE, x)) /\ UNCHANGED <<c_worker, n_out>>
      BY <2>1, <2>5 DEF TsExec
    <3>2. Flushing(TsPaused("loop", <<>>, FALSE, x), "loop", <<>>, 0, x)
      <4>1. <<>> \in Runs /\ FALSE \in BOOLEAN /\ x \in Calls \cup {0} /\ "loop" \in {"loop", "reconnect"}
        BY <1>2, <1>e
      <4> QED BY <4>1, PausedFacts, Zenon
    <3>3. PICK t : t = TsPaused("loop", <<>>, FALSE, x)
      OBVIOUS
    <3>4. t \in TsTasks /\ t.run = <<>> /\ t.next = x /\ c_tasks' = Append(c_tasks, t)
      BY <3>1, <3>2, <3>3 DEF Flushing
    <3>5. Range(c_tasks') = Range(c_tasks) \cup {t}
      BY <1>0, <3>4, TasksAdded
    <3>6. \A u \in Range(c_tasks') :
              \/ u \in Range(c_tasks)
              \/ /\ u.run \in {<<>>, F} \/ \E v \in Range(c_tasks) : v.run = u.run
                 /\ u.pc = "loop" => u.run = <<>>
                 /\ u.next = 0 \/ ~Batched(u.next) \/ \E v \in Range(c_tasks) : v.next = u.next
      BY <2>3, <2>5, <3>4, <3>5
    <3>7. \A y \in Calls : TsKeeps(Range(c_worker.queue), Range(c_tasks), y) => TsKeeps(Range(c_worker'.queue), Range(c_tasks'), y)
      BY <3>1, <3>5 DEF TsKeeps
    <3> QED BY <1>0, <1>1, <1>2, <1>e, <1>f, <2>2, <2>3, <2>5, <3>1, <3>6, <3>7, TsOrders
  <2>6. CASE ~TsOps[c_op[x]].direct
    <3>1. c_worker' = [c_worker EXCEPT !.queue = Append(c_worker.queue, x), !.sched = TRUE] /\ UNCHANGED <<c_tasks, n_out>>
      BY <2>1, <2>6 DEF TsExec
    <3>2. c_worker'.queue = Append(c_worker.queue, x)
      BY <1>0, <3>1 DEF IsWorker
    <3>3. Range(Append(c_worker.queue, x)) = Range(c_worker.queue) \cup {x}
      <4>1. Incr(c_worker.queue, NCalls) /\ NCalls \in Nat /\ x \in 1 .. NCalls
        BY <1>0, <1>2, NoCalls DEF List, Calls
      <4>2. \A y \in Range(c_worker.queue) : y < x
        <5>1. Range(c_worker.queue) \subseteq Made /\ \A y \in Made : y <= c_issued /\ y \in Nat
          BY TsFacts DEF Made
        <5> QED BY <1>0, <1>1, <5>1
      <4> QED BY <4>1, <4>2, IncrAppend
    <3>4. /\ \A y \in Calls : TsKeeps(Range(c_worker.queue), Range(c_tasks), y) => TsKeeps(Range(c_worker'.queue), Range(c_tasks'), y)
          /\ TsKeeps(Range(c_worker'.queue), Range(c_tasks'), x)
      BY <3>1, <3>2, <3>3 DEF TsKeeps
    <3> QED BY <1>0, <1>1, <1>2, <1>e, <1>f, <2>2, <3>1, <3>4, TsOrders
  <2> QED BY <2>4, <2>5, <2>6
<1> QED BY <1>3, <1>4

(* The flush that setImmediate had put off.                                *)
LEMMA TsImmediateOrders ==
    ASSUME TsTypes, c_lang = "ts", Cover, Directs, NetTypes', TsImmediate PROVE TsOrderly
<1>0. /\ c_tasks \in Seq(TsTasks) /\ IsWorker(c_worker)
      /\ UNCHANGED <<c_lang, c_op, c_issued, c_answer, s_busy, s_done>>
  BY TsTasksSeq DEF TsTypes, TsImmediate, server_vars
<1>1. CASE c_worker.queue # <<>> /\ ~c_worker.closed
  <2>1. PICK w, next, r : w = FALSE /\ next = 0 /\ r = c_tasks
    OBVIOUS
  <2>2. /\ Send(c_worker.conn, TsChunk(c_worker.queue), TsOverlap)
        /\ c_tasks' = Append(r, TsListening(TsChunk(c_worker.queue), 1, c_worker.conn, TRUE, next))
        /\ c_worker' = [c_worker EXCEPT !.queue = SubSeq(c_worker.queue, Len(TsChunk(c_worker.queue)) + 1, Len(c_worker.queue)),
                                        !.sched = w]
    <3>1. /\ Send(c_worker.conn, TsChunk(c_worker.queue), TsOverlap)
          /\ c_tasks' = Append(c_tasks, TsListening(TsChunk(c_worker.queue), 1, c_worker.conn, TRUE, 0))
          /\ c_worker' = [c_worker EXCEPT !.sched = FALSE,
                           !.queue = SubSeq(c_worker.queue, Len(TsChunk(c_worker.queue)) + 1, Len(c_worker.queue))]
      BY <1>1 DEF TsImmediate
    <3>2. PICK q : q = SubSeq(c_worker.queue, Len(TsChunk(c_worker.queue)) + 1, Len(c_worker.queue))
      OBVIOUS
    <3>3. [c_worker EXCEPT !.sched = FALSE, !.queue = q] = [c_worker EXCEPT !.queue = q, !.sched = FALSE]
      BY <1>0 DEF IsWorker
    <3> QED BY <2>1, <3>1, <3>2, <3>3
  <2>3. next \in Calls \cup {0} /\ r \in Seq(TsTasks) /\ Range(r) = Range(c_tasks) /\ next = 0
    BY <1>0, <2>1
  <2> QED BY <1>0, <2>2, <2>3, TsTakeOrders
<1>2. CASE ~(c_worker.queue # <<>> /\ ~c_worker.closed)
  <2>1. c_worker' = [c_worker EXCEPT !.sched = FALSE] /\ UNCHANGED <<c_tasks, n_out>>
    BY <1>2 DEF TsImmediate
  <2>2. c_worker'.queue = c_worker.queue
    BY <1>0, <2>1 DEF IsWorker
  <2>3. Final
    BY <1>0 DEF Final
  <2> QED BY <1>0, <2>1, <2>2, <2>3, TsQuietOrders
<1> QED BY <1>1, <1>2

(* A flush that goes on to the next chunk of the queue, or to the direct   *)
(* call that waited for it.                                                *)
LEMMA TsContinueOrders ==
    ASSUME TsTypes, c_lang = "ts", Cover, Directs, NetTypes', NEW i \in DOMAIN c_tasks, TsContinue(i) PROVE TsOrderly
<1>0. /\ c_tasks \in Seq(TsTasks) /\ IsWorker(c_worker) /\ i \in 1 .. Len(c_tasks) /\ c_tasks[i] \in TsTasks /\ NetTypes
      /\ UNCHANGED <<c_lang, c_op, c_issued, s_busy, s_done>> /\ c_tasks[i].pc = "loop" /\ c_issued # c_issued + 1
  <2>1. c_issued # c_issued + 1
    BY NoCalls DEF TsTypes, NetTypes
  <2> QED BY <2>1, TsTasksSeq DEF TsTypes, TsContinue, server_vars
<1>1. PICK r, next, w : r = RemoveAt(c_tasks, i) /\ next = c_tasks[i].next /\ w = c_worker.sched
  OBVIOUS
<1>2. r \in Seq(TsTasks) /\ next \in Calls \cup {0}
  BY <1>0, <1>1, FewerRemoved DEF TsTasks
<1>3. /\ Range(r) \subseteq Range(c_tasks) /\ \A t \in Range(c_tasks) : t \in Range(r) \/ t.pc = "loop"
      /\ \E u \in Range(c_tasks) : u.next = next
  BY <1>0, <1>1, TasksRemoved
<1>4. CASE c_tasks[i].loop /\ c_worker.queue # <<>> /\ ~c_worker.closed
  <2>1. /\ Send(c_worker.conn, TsChunk(c_worker.queue), TsOverlap)
        /\ c_tasks' = Append(r, TsListening(TsChunk(c_worker.queue), 1, c_worker.conn, TRUE, next))
        /\ c_worker' = [c_worker EXCEPT !.queue = SubSeq(c_worker.queue, Len(TsChunk(c_worker.queue)) + 1, Len(c_worker.queue)),
                                        !.sched = w]
        /\ c_answer' = c_answer
    BY <1>1, <1>4 DEF TsContinue, TsTakeRun
  <2> QED BY <1>0, <1>2, <1>3, <2>1, TsTakeOrders
<1>5. CASE ~(c_tasks[i].loop /\ c_worker.queue # <<>> /\ ~c_worker.closed) /\ next # 0 /\ ~c_worker.closed
  <2>1. /\ Send(c_worker.conn, <<next>>, TsOverlap)
        /\ c_tasks' = Append(r, TsListening(<<next>>, 1, c_worker.conn, FALSE, 0))
        /\ UNCHANGED <<c_answer, c_worker>>
    BY <1>1, <1>5 DEF TsContinue
  <2>2. PICK t, c, run : t = TsListening(run, 1, c, FALSE, 0) /\ c = c_worker.conn /\ run = <<next>>
    OBVIOUS
  <2>3. c_worker.conn \in Conns
    BY DEF TsTypes
  <2>4. run \in Runs
    <3>1. next \in Calls
      BY <1>2, <1>5
    <3>2. <<next>> \in Runs
      BY <3>1, NoCalls, IncrOne DEF Runs, List, Calls
    <3> QED BY <2>2, <3>2
  <2>5. Flushing(t, "read", run, c, 0)
    <3>1. run \in Runs /\ 1 \in {1, 2} /\ c \in Conns /\ FALSE \in BOOLEAN /\ 0 \in Calls \cup {0}
      BY <2>2, <2>3, <2>4
    <3> QED BY <2>2, <3>1, ListeningFacts, Zenon
  <2>6. t \in TsTasks /\ t.pc = "read" /\ t.next = 0 /\ c_tasks' = Append(r, t) /\ t.run = run
    BY <2>1, <2>2, <2>5 DEF Flushing
  <2>7. Range(c_tasks') = Range(r) \cup {t}
    BY <1>2, <2>6, TasksAdded
  <2>8. ~Batched(next)
    BY <1>3, <1>5 DEF Directs, DirectOnly
  <2>9. InTurn(run)
    BY <2>2, <2>8, InTurnDirect
  <2>10. n_out' = n_out \/ \E d \in Conns : n_out' = [n_out EXCEPT ![d] = Append(n_out[d], run)]
    BY <2>1, <2>2, <2>3 DEF Send
  <2>11. Final
    BY <2>1 DEF Final
  <2>12. \A x \in Calls : TsKeeps(Range(c_worker.queue), Range(c_tasks), x) => TsKeeps(Range(c_worker'.queue), Range(c_tasks'), x)
    BY <1>3, <2>1, <2>7 DEF TsKeeps
  <2>13. \A u \in Range(c_tasks') :
              \/ u \in Range(c_tasks)
              \/ /\ u.run \in {<<>>, run} \/ \E v \in Range(c_tasks) : v.run = u.run
                 /\ u.pc = "loop" => u.run = <<>>
                 /\ u.next = 0 \/ ~Batched(u.next) \/ \E v \in Range(c_tasks) : v.next = u.next
    BY <1>3, <2>6, <2>7
  <2> QED BY <1>0, <2>4, <2>9, <2>10, <2>11, <2>12, <2>13, TsOrders
<1>6. CASE ~(c_tasks[i].loop /\ c_worker.queue # <<>> /\ ~c_worker.closed) /\ ~(next # 0 /\ ~c_worker.closed)
  <2>1. c_tasks' = r /\ c_answer' = Refused({next}, "closed") /\ UNCHANGED <<c_worker, n_out>>
    BY <1>1, <1>6 DEF TsContinue
  <2>2. Final
    BY <1>0, <2>1, RefusedFacts
  <2>3. \A x \in Calls : TsKeeps(Range(c_worker.queue), Range(c_tasks), x) => TsKeeps(Range(c_worker'.queue), Range(c_tasks'), x)
    BY <1>3, <2>1 DEF TsKeeps
  <2> QED BY <1>0, <1>3, <2>1, <2>2, <2>3, TsQuietOrders
<1> QED BY <1>4, <1>5, <1>6

(* A deadline answers its call and takes it out of the queue.              *)
LEMMA TsTimerOrders ==
    ASSUME TsTypes, c_lang = "ts", Cover, Directs, NetTypes', NEW x, TsTimer(x) PROVE TsOrderly
<1>0. /\ c_answer' = Refused({x}, "timeout") /\ c_worker' = [c_worker EXCEPT !.queue = Without(c_worker.queue, {x})]
      /\ UNCHANGED <<c_lang, c_op, c_issued, c_tasks, n_out, s_busy, s_done>> /\ IsWorker(c_worker) /\ NetTypes
      /\ List(c_worker.queue)
  BY DEF TsTimer, net_vars, server_vars, TsTypes
<1>1. Final /\ \A y \in Calls : y \in {x} => c_answer'[y] # Unanswered
  BY <1>0, RefusedFacts
<1>2. c_worker'.queue = Without(c_worker.queue, {x})
  BY <1>0 DEF IsWorker
<1>3. Range(Without(c_worker.queue, {x})) = Range(c_worker.queue) \ {x}
  BY <1>0, NoCalls, WithoutFacts DEF List
<1>4. \A y \in Calls : TsKeeps(Range(c_worker.queue), Range(c_tasks), y) =>
              TsKeeps(Range(c_worker'.queue), Range(c_tasks'), y) \/ c_answer'[y] # Unanswered
  BY <1>0, <1>1, <1>2, <1>3 DEF TsKeeps
<1> QED BY <1>0, <1>1, <1>4, TsQuietOrders

(* close() answers every call.                                             *)
LEMMA TsCloseOrders ==
    ASSUME TsTypes, c_lang = "ts", Cover, Directs, NetTypes', TsClose PROVE TsOrderly
<1>0. /\ c_answer' = Refused(Range(c_worker.queue), "closed") /\ c_worker' = [c_worker EXCEPT !.closed = TRUE, !.queue = <<>>]
      /\ UNCHANGED <<c_lang, c_op, c_issued, c_tasks, n_out, s_busy, s_done>> /\ IsWorker(c_worker) /\ NetTypes
  BY DEF TsClose, server_vars, TsTypes
<1>1. PICK S : S = Range(c_worker.queue)
  OBVIOUS
<1>2. Final /\ \A y \in Calls : y \in S => c_answer'[y] # Unanswered
  BY <1>0, <1>1, RefusedFacts
<1>3. \A y \in Calls : TsKeeps(Range(c_worker.queue), Range(c_tasks), y) =>
              TsKeeps(Range(c_worker'.queue), Range(c_tasks'), y) \/ c_answer'[y] # Unanswered
  BY <1>0, <1>1, <1>2 DEF TsKeeps
<1> QED BY <1>0, <1>2, <1>3, TsQuietOrders

\* The flush i gives its run up, and refuses it.
LEMMA TsDropOrders ==
    ASSUME TsTypes, c_lang = "ts", Cover, Directs, NetTypes', NEW i \in DOMAIN c_tasks,
           UNCHANGED <<c_lang, c_op, c_issued, c_worker, n_out, s_busy, s_done>>,
           c_tasks' = [c_tasks EXCEPT ![i] = TsPaused("loop", <<>>, c_tasks[i].loop, c_tasks[i].next)],
           c_answer' = Refused(Range(c_tasks[i].run), "transport")
    PROVE  TsOrderly
<1>0. c_tasks \in Seq(TsTasks) /\ i \in 1 .. Len(c_tasks) /\ NetTypes
  BY TsTasksSeq DEF TsTypes
<1>1. PICK s, u, t, S : s = c_tasks /\ u = c_tasks[i] /\ t = TsPaused("loop", <<>>, u.loop, u.next) /\ S = Range(u.run)
  OBVIOUS
<1>2. t.run = <<>> /\ t.next = u.next
  BY <1>1 DEF TsPaused
<1>3. PICK r : r = [s EXCEPT ![i] = t]
  OBVIOUS
<1>4. /\ Range(r) \subseteq Range(s) \cup {t} /\ t \in Range(r) /\ s[i] \in Range(s)
      /\ \A v \in Range(s) : v \in Range(r) \/ v = s[i]
  <2>1. s \in Seq(TsTasks) /\ i \in 1 .. Len(s)
    BY <1>0, <1>1
  <2>2. DOMAIN s = 1 .. Len(s) /\ DOMAIN r = 1 .. Len(s)
    BY <2>1, <1>3
  <2>3. r[i] = t /\ \A j \in 1 .. Len(s) : j # i => r[j] = s[j]
    BY <2>1, <2>2, <1>3
  <2> QED BY <2>1, <2>2, <2>3 DEF Range
<1>5. c_tasks' = r
  BY <1>1, <1>3
<1>6. Final /\ \A y \in Calls : y \in S => c_answer'[y] # Unanswered
  BY <1>0, <1>1, RefusedFacts
<1>7. \A y \in Calls : TsKeeps(Range(c_worker.queue), Range(c_tasks), y) =>
              TsKeeps(Range(c_worker'.queue), Range(c_tasks'), y) \/ c_answer'[y] # Unanswered
  BY <1>1, <1>4, <1>5, <1>6 DEF TsKeeps
<1>8. \A v \in Range(c_tasks') :
              \/ v \in Range(c_tasks)
              \/ /\ v.run = <<>> \/ \E z \in Range(c_tasks) : z.run = v.run
                 /\ v.pc = "loop" => v.run = <<>>
                 /\ v.next = 0 \/ \E z \in Range(c_tasks) : z.next = v.next
  BY <1>1, <1>2, <1>4, <1>5
<1> QED BY <1>6, <1>7, <1>8, TsQuietOrders

(* A flush whose connection has closed is to reconnect, or refuses its     *)
(* run.                                                                    *)
LEMMA TsClosedOrders ==
    ASSUME TsTypes, c_lang = "ts", Cover, Directs, NetTypes', NEW i \in DOMAIN c_tasks, TsClosed(i) PROVE TsOrderly
<1>0. /\ c_tasks \in Seq(TsTasks) /\ i \in 1 .. Len(c_tasks)
      /\ UNCHANGED <<c_lang, c_op, c_issued, c_worker, n_out, s_busy, s_done>>
  BY TsTasksSeq DEF TsTypes, TsClosed, server_vars, net_vars
<1>1. PICK s, u, t : s = c_tasks /\ u = c_tasks[i] /\ t = TsPaused("reconnect", u.run, u.loop, u.next)
  OBVIOUS
<1>2. CASE c_tasks[i].try = 1 /\ TsRetrySafe(c_tasks[i].run)
  <2>1. c_tasks' = [s EXCEPT ![i] = t] /\ c_answer' = c_answer
    BY <1>1, <1>2 DEF TsClosed
  <2>2. t.run = u.run /\ t.next = u.next /\ t.pc = "reconnect"
    BY <1>1 DEF TsPaused
  <2>3. PICK r : r = [s EXCEPT ![i] = t]
    OBVIOUS
  <2>4. /\ Range(r) \subseteq Range(s) \cup {t} /\ t \in Range(r) /\ s[i] \in Range(s)
        /\ \A v \in Range(s) : v \in Range(r) \/ v = s[i]
    <3>1. s \in Seq(TsTasks) /\ i \in 1 .. Len(s)
      BY <1>0, <1>1
    <3>2. DOMAIN s = 1 .. Len(s) /\ DOMAIN r = 1 .. Len(s)
      BY <3>1, <2>3
    <3>3. r[i] = t /\ \A j \in 1 .. Len(s) : j # i => r[j] = s[j]
      BY <3>1, <3>2, <2>3
    <3> QED BY <3>1, <3>2, <3>3 DEF Range
  <2>5. c_tasks' = r
    BY <2>1, <2>3
  <2>6. Final
    BY <2>1 DEF Final
  <2>7. \A y \in Calls : TsKeeps(Range(c_worker.queue), Range(c_tasks), y) =>
              TsKeeps(Range(c_worker'.queue), Range(c_tasks'), y) \/ c_answer'[y] # Unanswered
    BY <1>0, <1>1, <2>2, <2>4, <2>5 DEF TsKeeps
  <2>8. \A v \in Range(c_tasks') :
              \/ v \in Range(c_tasks)
              \/ /\ v.run = <<>> \/ \E z \in Range(c_tasks) : z.run = v.run
                 /\ v.pc = "loop" => v.run = <<>>
                 /\ v.next = 0 \/ \E z \in Range(c_tasks) : z.next = v.next
    BY <1>1, <2>2, <2>4, <2>5
  <2> QED BY <1>0, <2>6, <2>7, <2>8, TsQuietOrders
<1>3. CASE ~(c_tasks[i].try = 1 /\ TsRetrySafe(c_tasks[i].run))
  <2>1. /\ c_tasks' = [c_tasks EXCEPT ![i] = TsPaused("loop", <<>>, c_tasks[i].loop, c_tasks[i].next)]
        /\ c_answer' = Refused(Range(c_tasks[i].run), "transport")
    BY <1>3 DEF TsClosed
  <2> QED BY <1>0, <2>1, TsDropOrders
<1> QED BY <1>2, <1>3

(* A reconnecting flush writes the same run again, or gives it up.         *)
LEMMA TsReconnectOrders ==
    ASSUME TsTypes, c_lang = "ts", Cover, Directs, NetTypes', NEW i \in DOMAIN c_tasks, TsReconnect(i) PROVE TsOrderly
<1>0. /\ c_tasks \in Seq(TsTasks) /\ i \in 1 .. Len(c_tasks) /\ c_tasks[i] \in TsTasks /\ IsWorker(c_worker)
      /\ UNCHANGED <<c_lang, c_op, c_issued, s_busy, s_done>> /\ c_issued # c_issued + 1
  <2>1. c_issued # c_issued + 1
    BY NoCalls DEF TsTypes, NetTypes
  <2> QED BY <2>1, TsTasksSeq DEF TsTypes, TsReconnect, server_vars
<1>1. CASE Reconnected(c_worker.conn) /\ c_answer' = c_answer
           /\ c_worker' = [c_worker EXCEPT !.conn = n_opened + 1]
           /\ c_tasks' = Append(RemoveAt(c_tasks, i),
                               TsListening(c_tasks[i].run, 2, n_opened + 1, c_tasks[i].loop, c_tasks[i].next))
           /\ n_out' = [n_out EXCEPT ![n_opened + 1] = Append(n_out[n_opened + 1], c_tasks[i].run)]
  <2>1. PICK r, u, F, c, t : r = RemoveAt(c_tasks, i) /\ u = c_tasks[i] /\ F = u.run /\ c = n_opened + 1
                             /\ t = TsListening(F, 2, c, u.loop, u.next)
    OBVIOUS
  <2>2. u \in Range(c_tasks) /\ r \in Seq(TsTasks) /\ Range(r) \subseteq Range(c_tasks) /\ \A v \in Range(c_tasks) : v \in Range(r) \/ v = u
    BY <1>0, <2>1, TasksRemoved
  <2>3. c \in Conns /\ F \in Runs /\ u.loop \in BOOLEAN /\ u.next \in Calls \cup {0}
    <3>1. n_opened' \in Conns /\ n_opened' = n_opened + 1
      BY <1>1 DEF NetTypes, Reconnected
    <3> QED BY <1>0, <2>1, <3>1 DEF TsTasks
  <2>4. Flushing(t, "read", F, c, u.next)
    <3>1. 2 \in {1, 2}
      OBVIOUS
    <3> QED BY <2>1, <2>3, <3>1, ListeningFacts, Zenon
  <2>5. t \in TsTasks /\ t.pc = "read" /\ t.next = u.next /\ t.run = F /\ c_tasks' = Append(r, t)
    BY <1>1, <2>1, <2>4 DEF Flushing
  <2>6. Range(c_tasks') = Range(r) \cup {t}
    BY <2>2, <2>5, TasksAdded
  <2>7. c_worker'.queue = c_worker.queue
    BY <1>0, <1>1 DEF IsWorker
  <2>8. n_out' = [n_out EXCEPT ![c] = Append(n_out[c], F)]
    BY <1>1, <2>1
  <2>9. Final
    BY <1>1 DEF Final
  <2>10. \A x \in Calls : TsKeeps(Range(c_worker.queue), Range(c_tasks), x) => TsKeeps(Range(c_worker'.queue), Range(c_tasks'), x)
    BY <2>1, <2>2, <2>5, <2>6, <2>7 DEF TsKeeps
  <2>11. \A v \in Range(c_tasks') :
              \/ v \in Range(c_tasks)
              \/ /\ v.run \in {<<>>, F} \/ \E z \in Range(c_tasks) : z.run = v.run
                 /\ v.pc = "loop" => v.run = <<>>
                 /\ v.next = 0 \/ ~Batched(v.next) \/ \E z \in Range(c_tasks) : z.next = v.next
    BY <2>2, <2>5, <2>6
  <2>12. FramesInTurn => InTurn(F)
    BY <2>1, <2>2 DEF FramesInTurn
  <2> QED BY <1>0, <2>3, <2>8, <2>9, <2>10, <2>11, <2>12, TsOrders
<1>2. CASE /\ c_tasks' = [c_tasks EXCEPT ![i] = TsPaused("loop", <<>>, c_tasks[i].loop, c_tasks[i].next)]
           /\ c_answer' = Refused(Range(c_tasks[i].run), "transport")
           /\ UNCHANGED <<c_worker, n_opened, n_up, n_in, n_out>>
  BY <1>0, <1>2, TsDropOrders
<1> QED BY <1>1, <1>2 DEF TsReconnect

(* A chunk of data answers runs, and writes nothing.                       *)
LEMMA TsDataOrders ==
    ASSUME TsTypes, c_lang = "ts", Cover, Directs, NetTypes', NEW c, TsData(c) PROVE TsOrderly
<1>0. /\ c_tasks \in Seq(TsTasks) /\ IsWorker(c_worker) /\ Len(c_tasks) \in Nat /\ DOMAIN c_tasks = 1 .. Len(c_tasks)
      /\ UNCHANGED <<c_lang, c_op, c_issued, n_out, s_busy, s_done>>
  BY TsTasksSeq, TsDataMeans DEF TsTypes
<1>1. PICK k \in 1 .. Len(n_in[c]) : TsDataAt(c, k, TsFed(c, k))
  BY TsDataMeans
<1>2. PICK fed, n, s : fed = TsFed(c, k) /\ n = Len(c_tasks) /\ s = c_tasks
  OBVIOUS
<1>3. /\ c_tasks' = [i \in 1 .. n |-> IF fed[i].out = "wait" THEN s[i] ELSE TsPaused("loop", <<>>, s[i].loop, s[i].next)]
      /\ c_worker' = [c_worker EXCEPT !.stash = fed[n].stash]
  BY <1>1, <1>2, Zenon DEF TsDataAt
<1>4. c_answer' = [x \in Calls |->
          IF c_answer[x] # Unanswered \/ ~(\E i \in 1 .. n : x \in Range(s[i].run) /\ fed[i].out # "wait")
          THEN c_answer[x]
          ELSE IF fed[TsMine(x)].out = "take"
               THEN [tag |-> "ok", of |-> fed[TsMine(x)].got[TsPlace(x)]]
               ELSE [tag |-> "transport", of |-> x]]
  BY <1>1, <1>2, Zenon DEF TsDataAt
<1>5. \A g : [tag |-> "ok", of |-> g] # Unanswered /\ [tag |-> "transport", of |-> g] # Unanswered
  <2>1. \A g : [tag |-> "ok", of |-> g].tag = "ok" /\ [tag |-> "transport", of |-> g].tag = "transport" /\ Unanswered.tag = "none"
    BY DEF Unanswered
  <2> QED BY <2>1
<1>6. Final /\ \A x \in Calls : (\E i \in 1 .. n : x \in Range(s[i].run) /\ fed[i].out # "wait") => c_answer'[x] # Unanswered
  <2>1. Final
    BY <1>4 DEF Final
  <2>2. ASSUME NEW x \in Calls, \E i \in 1 .. n : x \in Range(s[i].run) /\ fed[i].out # "wait" PROVE c_answer'[x] # Unanswered
    <3>1. \/ c_answer[x] # Unanswered /\ c_answer'[x] = c_answer[x]
          \/ c_answer'[x] = [tag |-> "ok", of |-> fed[TsMine(x)].got[TsPlace(x)]]
          \/ c_answer'[x] = [tag |-> "transport", of |-> x]
      BY <1>4, <2>2
    <3> QED BY <1>5, <3>1
  <2> QED BY <2>1, <2>2
<1>7. DOMAIN c_tasks' = 1 .. n
  BY <1>3
<1>8. c_worker'.queue = c_worker.queue
  BY <1>0, <1>3 DEF IsWorker
<1>9. \A i \in 1 .. n : /\ fed[i].out = "wait" => c_tasks'[i] = s[i]
                        /\ fed[i].out # "wait" => c_tasks'[i].run = <<>> /\ c_tasks'[i].next = s[i].next
  BY <1>3 DEF TsPaused
<1>10. ASSUME NEW x \in Calls, TsKeeps(Range(c_worker.queue), Range(c_tasks), x)
       PROVE  TsKeeps(Range(c_worker'.queue), Range(c_tasks'), x) \/ c_answer'[x] # Unanswered
  <2>1. CASE x \in Range(c_worker.queue)
    BY <1>8, <2>1 DEF TsKeeps
  <2>2. CASE \E t \in Range(c_tasks) : t.pc # "loop" /\ x \in Range(t.run)
    <3>1. PICK i \in 1 .. n : s[i].pc # "loop" /\ x \in Range(s[i].run)
      BY <1>0, <1>2, <2>2 DEF Range
    <3>2. CASE fed[i].out = "wait"
      <4>1. c_tasks'[i] = s[i] /\ c_tasks'[i] \in Range(c_tasks')
        BY <1>7, <1>9, <3>2 DEF Range
      <4> QED BY <3>1, <4>1 DEF TsKeeps
    <3>3. CASE fed[i].out # "wait"
      BY <1>6, <3>1, <3>3
    <3> QED BY <3>2, <3>3
  <2> QED BY <1>10, <2>1, <2>2 DEF TsKeeps
<1>11. \A v \in Range(c_tasks') :
              \/ v \in Range(c_tasks)
              \/ /\ v.run = <<>> \/ \E z \in Range(c_tasks) : z.run = v.run
                 /\ v.pc = "loop" => v.run = <<>>
                 /\ v.next = 0 \/ \E z \in Range(c_tasks) : z.next = v.next
  <2> SUFFICES ASSUME NEW i \in 1 .. n
               PROVE  \/ c_tasks'[i] \in Range(c_tasks)
                      \/ c_tasks'[i].run = <<>> /\ \E z \in Range(c_tasks) : z.next = c_tasks'[i].next
    BY <1>7 DEF Range
  <2>1. s[i] \in Range(c_tasks)
    BY <1>0, <1>2 DEF Range
  <2> QED BY <1>9, <2>1
<1> QED BY <1>0, <1>6, <1>8, <1>10, <1>11, TsQuietOrders

-----------------------------------------------------------------------------
\* The inductive invariant: with what is known of the answers, the client
\* holds every batched call that waits, and, unless frames were mixed up, all
\* that is written or executed is in turn.
OrderInv ==
    /\ AnswerInv /\ Cover /\ Directs
    /\ c_mixed # {} \/ (FramesInTurn /\ DoneInOrder)

(* It holds at first.                                                      *)
LEMMA OrderInvInit == RpcInit => OrderInv
<1> SUFFICES ASSUME RpcInit PROVE OrderInv
  OBVIOUS
<1>1. AnswerInv
  BY AnswerInvInit
<1>2. /\ c_issued = 0 /\ c_tasks = <<>> /\ s_done = <<>>
      /\ \A c \in Conns : s_busy[c] = Idle /\ n_out[c] = <<>>
  BY DEF RpcInit
<1>3. 1 .. 0 = {} /\ Len(<<>>) = 0 /\ Range(<<>>) = {}
  BY NoCalls
<1>4. Cover /\ Directs
  BY <1>2, <1>3 DEF Cover, Directs, DirectOnly
<1>5. FramesInTurn /\ DoneInOrder
  BY <1>2, <1>3, InTurnEmpty DEF FramesInTurn, DoneInOrder
<1> QED BY <1>1, <1>4, <1>5 DEF OrderInv

(* Every step keeps it.                                                    *)
LEMMA OrderInvNext == OrderInv /\ [RpcNext]_rpc_vars => OrderInv'
<1> SUFFICES ASSUME OrderInv, [RpcNext]_rpc_vars PROVE OrderInv'
  OBVIOUS
<1>1. AnswerInv'
  BY AnswerInvNext DEF OrderInv
<1>0. /\ ClientOK /\ NetTypes /\ NetTypes' /\ Served /\ c_lang \in {"rust", "py", "go", "ts"} /\ Cover /\ Directs
      /\ c_mixed = {} => FramesInTurn /\ DoneInOrder /\ Own
  <2>1. ClientOK /\ NetTypes /\ Served /\ Cover /\ Directs /\ (c_mixed = {} => FramesInTurn /\ DoneInOrder /\ Own)
    BY DEF OrderInv, AnswerInv, RpcInv, ClientOK
  <2>2. NetTypes'
    BY <1>1 DEF AnswerInv, RpcInv, ClientOK
  <2>3. c_lang \in {"rust", "py", "go", "ts"}
    BY <2>1, LangsAssumption DEF NetTypes
  <2> QED BY <2>1, <2>2, <2>3
<1>2. ASSUME NEW c \in Conns, SrvStep(c) PROVE OrderInv'
  <2>1. UNCHANGED <<c_lang, c_op, c_issued, c_answer, c_worker, c_tasks, c_mixed>>
    BY <1>0, <1>2, ServerApart
  <2>2. Cover' /\ Directs'
    BY <1>0, <2>1 DEF Cover, Directs, DirectOnly, Batched, TsKeeps, Held, RunSet, Running
  <2> QED BY <1>0, <1>1, <1>2, <2>1, <2>2, OrderServer DEF OrderInv
<1>3. ASSUME NEW c \in Conns, ConnLost(c) PROVE OrderInv'
  <2>1. UNCHANGED <<c_lang, c_op, c_issued, c_answer, c_worker, c_tasks, c_mixed, s_busy, s_done>>
        /\ n_out' = [n_out EXCEPT ![c] = <<>>]
    BY <1>3 DEF ConnLost, client_vars, server_vars
  <2>2. Cover' /\ Directs'
    BY <1>0, <2>1 DEF Cover, Directs, DirectOnly, Batched, TsKeeps, Held, RunSet, Running
  <2>3. ASSUME FramesInTurn PROVE FramesInTurn'
    <3>1. \A d \in Conns, j \in Nat : j \in 1 .. Len(n_out'[d]) => j \in 1 .. Len(n_out[d]) /\ n_out'[d][j] = n_out[d][j]
      <4>1. n_out \in [Conns -> Seq(Runs)]
        BY <1>0 DEF NetTypes
      <4>2. n_out'[c] = <<>> /\ \A d \in Conns : d # c => n_out'[d] = n_out[d]
        BY <2>1, <4>1
      <4>3. Len(<<>>) = 0 /\ 1 .. 0 = {}
        OBVIOUS
      <4> QED BY <4>2, <4>3
    <3>2. \A F : InTurn(F) <=> InTurn(F)'
      BY <2>1 DEF InTurn, Batched, Denied
    <3>3. \A d \in Conns : \A j \in 1 .. Len(n_out'[d]) : \E F : n_out'[d][j] = F /\ InTurn(F)'
      BY <2>3, <3>1, <3>2 DEF FramesInTurn
    <3>4. \A d \in Conns : \A j \in 1 .. Len(n_out'[d]) : InTurn(n_out[d][j])'
      BY <3>3 DEF InTurn
    <3>5. \A d \in Conns : InTurn(s_busy[d].run)'
      <4>1. \A d \in Conns : \E F : s_busy'[d].run = F /\ InTurn(F)'
        BY <2>1, <2>3, <3>2 DEF FramesInTurn
      <4> QED BY <4>1 DEF InTurn
    <3>6. c_lang' = "ts" => \A t \in Range(c_tasks') : InTurn(t.run)'
      BY <2>1, <2>3, <3>2 DEF FramesInTurn
    <3> QED BY <3>4, <3>5, <3>6 DEF FramesInTurn
  <2>4. DoneInOrder => DoneInOrder'
    BY <2>1 DEF DoneInOrder, Batched, Denied
  <2> QED BY <1>0, <1>1, <2>1, <2>2, <2>3, <2>4 DEF OrderInv
<1>4. CASE Issue \/ ClientStep \/ (\E x \in Calls : Deadline(x)) \/ Close
  <2>1. CASE c_lang = "ts"
    <3>1. TsTypes
      BY <1>0, <2>1 DEF ClientOK
    <3>2. Issue \/ TsStep \/ (\E x \in Calls : TsTimer(x)) \/ TsClose
      BY <1>4, <2>1 DEF ClientStep, Deadline, Close
    <3>3. TsOrderly
      <4>1. CASE Issue
        BY <1>0, <2>1, <3>1, <4>1, TsIssueOrders
      <4>2. CASE TsStep
        BY <1>0, <2>1, <3>1, <4>2, TsImmediateOrders, TsDataOrders, TsContinueOrders, TsClosedOrders, TsReconnectOrders DEF TsStep
      <4>3. CASE \E x \in Calls : TsTimer(x)
        BY <1>0, <2>1, <3>1, <4>3, TsTimerOrders
      <4>4. CASE TsClose
        BY <1>0, <2>1, <3>1, <4>4, TsCloseOrders
      <4> QED BY <3>2, <4>1, <4>2, <4>3, <4>4
    <3>4. c_mixed \subseteq c_mixed'
      BY <1>0, <2>1, <3>1, <3>2, TsReaches DEF OrderInv, AnswerInv
    <3> QED BY <1>0, <1>1, <3>3, <3>4 DEF OrderInv, TsOrderly
  <2>2. CASE c_lang # "ts"
    <3>1. WorkerTypes
      BY <1>0, <2>2 DEF ClientOK
    <3>2. Cover' /\ Final /\ c_mixed \subseteq c_mixed'
      <4>1. CASE ClientStep
        <5>1. WorkerStep
          BY <1>0, <2>2, <3>1, <4>1, RustRefines, PyRefines, GoRefines DEF ClientStep
        <5> QED BY <1>0, <2>2, <3>1, <5>1, WorkerCovers, WorkerReaches DEF OrderInv, AnswerInv
      <4>2. CASE ~ClientStep
        BY <1>0, <1>4, <2>2, <3>1, <4>2, EventCovers, WorkerEvents DEF WorkerEvent
      <4> QED BY <4>1, <4>2
    <3>3. Directs'
      <4>1. c_lang' = c_lang
        BY <1>0, <1>4, ClientKeeps DEF ClientKept
      <4> QED BY <2>2, <4>1 DEF Directs
    <3>4. ASSUME c_mixed' = {} PROVE FramesInTurn' /\ DoneInOrder'
      BY <1>0, <1>4, <2>2, <3>2, <3>4, WorkerOrder
    <3> QED BY <1>1, <3>2, <3>3, <3>4 DEF OrderInv
  <2> QED BY <2>1, <2>2
<1>5. CASE UNCHANGED rpc_vars
  <2>1. UNCHANGED <<c_lang, c_op, c_issued, c_answer, c_worker, c_tasks, c_mixed, n_out, s_busy, s_done>>
    BY <1>5 DEF rpc_vars, client_vars, net_vars, server_vars
  <2>2. Cover' /\ Directs'
    BY <1>0, <2>1 DEF Cover, Directs, DirectOnly, Batched, TsKeeps, Held, RunSet, Running
  <2>3. (FramesInTurn => FramesInTurn') /\ (DoneInOrder => DoneInOrder')
    BY <2>1 DEF FramesInTurn, DoneInOrder, InTurn, Batched, Denied
  <2> QED BY <1>0, <1>1, <2>1, <2>2, <2>3 DEF OrderInv
<1> QED BY <1>2, <1>3, <1>4, <1>5 DEF RpcNext

\* What was executed was executed for a first time.
LEMMA FirstExists ==
    ASSUME s_done \in Seq(Calls), NEW x \in Range(s_done)
    PROVE  \E i \in DOMAIN s_done : s_done[i] = x /\ \A j \in 1 .. i - 1 : s_done[j] # x
<1> DEFINE S == {n \in Nat : \A j \in 1 .. n : s_done[j] # x}
<1>0. Len(s_done) \in Nat /\ DOMAIN s_done = 1 .. Len(s_done)
  OBVIOUS
<1> SUFFICES ASSUME ~\E i \in DOMAIN s_done : s_done[i] = x /\ \A j \in 1 .. i - 1 : s_done[j] # x PROVE FALSE
  OBVIOUS
<1>1. 0 \in S
  OBVIOUS
<1>2. ASSUME NEW n \in 0 .. Len(s_done) - 1, n \in S PROVE n + 1 \in S
  <2>1. n + 1 \in DOMAIN s_done /\ (n + 1) - 1 = n
    BY <1>0
  <2>2. s_done[n + 1] # x
    BY <1>2, <2>1
  <2>3. \A j \in 1 .. n + 1 : j \in 1 .. n \/ j = n + 1
    BY <1>0
  <2> QED BY <1>0, <1>2, <2>2, <2>3
<1> HIDE DEF S
<1>3. 0 .. Len(s_done) \subseteq S
  BY <1>0, <1>1, <1>2, UpTo
<1>4. Len(s_done) \in S
  BY <1>0, <1>3
<1>5. \A j \in 1 .. Len(s_done) : s_done[j] # x
  BY <1>4 DEF S
<1> QED BY <1>0, <1>5 DEF Range

(* It gives the order of effects.                                          *)
LEMMA OrderInvOrder == OrderInv => EffectsInOrder
<1> SUFFICES ASSUME OrderInv, NEW x \in Calls, NEW y \in Calls, x < y, OkFor(x), OkFor(y), c_mixed = {},
                    {c_op[x], c_op[y]} \cap {"ping", "auth"} = {}
             PROVE  FirstAt(x) < FirstAt(y)
  BY DEF EffectsInOrder
<1>1. DoneInOrder /\ Own /\ s_done \in Seq(Calls)
  BY DEF OrderInv, AnswerInv, RpcInv, ClientOK, NetTypes
<1>2. Batched(x) /\ Batched(y) /\ ~Denied(x) /\ x \in Range(s_done) /\ y \in Range(s_done)
  BY <1>1 DEF Batched, Denied, OkFor, Own
<1>3. /\ FirstAt(x) \in DOMAIN s_done /\ \A j \in 1 .. FirstAt(x) - 1 : s_done[j] # x
  BY <1>1, <1>2, FirstExists DEF FirstAt
<1>4. /\ FirstAt(y) \in DOMAIN s_done /\ s_done[FirstAt(y)] = y
  BY <1>1, <1>2, FirstExists DEF FirstAt
<1>5. PICK a, b : a = FirstAt(x) /\ b = FirstAt(y)
  OBVIOUS
<1>6. DOMAIN s_done = 1 .. Len(s_done) /\ Len(s_done) \in Nat
  BY <1>1
<1>7. PICK i \in 1 .. b - 1 : s_done[i] = x
  BY <1>1, <1>2, <1>4, <1>5, <1>6 DEF DoneInOrder
<1>8. a \in Nat /\ b \in Nat /\ i \notin 1 .. a - 1
  BY <1>3, <1>4, <1>5, <1>6, <1>7
<1> QED BY <1>5, <1>7, <1>8

(* Through resends, reconnections and batching an operation takes effect   *)
(* once, and in its turn: RpcAppliedAtMostOnce, and of two batched calls   *)
(* that both return results the one made first took effect first, whatever *)
(* frames flush_pending, _flush and their like packed them into, whatever  *)
(* was sent again on whichever connection, and whichever calls were        *)
(* refused or ran out of time meanwhile. The order may be lost once a      *)
(* client wrote while a response was still due, or two flushes of the      *)
(* TypeScript library were under way together (flushQueue), each of which  *)
(* sends again by itself; the Rust library does neither. For every         *)
(* library, program, number of calls and connections, size of the cache of *)
(* keys and limit of a frame.                                              *)
THEOREM RpcEffectsOnceInOrder == RpcSpec => []EffectsOnceInOrder
<1>1. RpcSpec => []OrderInv
  BY OrderInvInit, OrderInvNext, PTL DEF RpcSpec
<1>2. OrderInv => EffectsOnceInOrder
  BY OrderInvOrder, RpcInvOnce DEF OrderInv, AnswerInv, EffectsOnceInOrder
<1> QED BY <1>1, <1>2, PTL
===============================================================================
