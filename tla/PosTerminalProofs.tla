--------------------------- MODULE PosTerminalProofs ---------------------------
(***************************************************************************)
(* Theorems about PosTerminal, for any cashiers, products, price lists and *)
(* first stock.                                                            *)
(***************************************************************************)
EXTENDS PosTerminal, FiniteSums

-----------------------------------------------------------------------------
(* The inductive invariant.                                                *)

\* A sequence, of whatever it holds.
IsSeq(s) == s \in Seq({s[i] : i \in DOMAIN s})

\* Every sale is under the key it was drawn for, at the total shown then.
ServerOK ==
  /\ catalog \in Catalogs
  /\ shifts \in Seq(Shop!ShiftRow) /\ IsSeq(sales)
  /\ idem \in [Keys -> DOMAIN sales \cup {None}]
  /\ \A k \in Keys : idem[k] # None => sales[idem[k]].key = k
  /\ \A i \in DOMAIN sales : sales[i].key \in DOMAIN drawn
  /\ ChargedAsShown

LinesUpTo(least) ==
  {l \in [product: Products, retail: Nat, wholesale: Nat, quantity: least .. MaxQuantity] :
     \E c \in Catalogs : l.retail = c[l.product].retail}
OneLineEach(lines) ==
  \A m, n \in DOMAIN lines : lines[m].product = lines[n].product => m = n

PageOK ==
  /\ token \in Users \cup {None}
  /\ shift \in DOMAIN shifts \cup {None} /\ lastSale \in DOMAIN sales \cup {None}
  /\ cart \in Seq(LinesUpTo(1)) /\ OneLineEach(cart)
  /\ drawn \in Seq([basket: Nat, total: Nat]) /\ Len(drawn) <= MaxClicks
  /\ basket \in 0 .. Len(drawn) /\ \A k \in DOMAIN drawn : drawn[k].basket < k

\* A request for a checkout pays what its key was drawn for; an answer tells of
\* a shift there is, or of the sale of the key that was sent.
Shaped(r) ==
  r \in [kind: {"login", "shifts", "open", "close", "checkout", "return"}, user: Users,
         shift: {r.shift}, cash: Nat, key: {r.key}, cart: {r.cart}, sale: {r.sale},
         served: BOOLEAN, reply: {r.reply}, gone: BOOLEAN]
RequestOK(r) ==
  /\ Shaped(r) /\ (r.served => ~r.gone)
  /\ r.kind = "checkout" =>
       /\ r.key \in DOMAIN drawn
       /\ r.cart.payments = <<[method |-> "CASH", amount |-> drawn[r.key].total]>>
       /\ r.served /\ r.reply # Refused =>
            r.reply \in DOMAIN sales /\ sales[r.reply].key = r.key
  /\ r.kind \in {"shifts", "open", "close"} /\ r.served =>
       r.reply \in DOMAIN shifts \cup {None, Refused}
  /\ r.kind = "login" /\ r.served => r.reply \in Users

TrafficOK ==
  /\ IsABag(requests) /\ IsFiniteSet(DOMAIN requests)
  /\ \A r \in DOMAIN requests : RequestOK(r)

Consistent == ServerOK /\ PageOK /\ TrafficOK

-----------------------------------------------------------------------------
(* Sequences.                                                              *)

LEMMA Appended ==
  ASSUME NEW R, NEW f \in Seq(R), NEW e \in R
  PROVE  /\ Append(f, e) \in Seq(R) /\ Len(Append(f, e)) = Len(f) + 1 /\ Len(f) \in Nat
         /\ DOMAIN f = 1 .. Len(f) /\ DOMAIN Append(f, e) = 1 .. Len(f) + 1
         /\ Append(f, e)[Len(f) + 1] = e
         /\ \A n \in 1 .. Len(f) : Append(f, e)[n] = f[n]
OBVIOUS

LEMMA Element ==
  ASSUME NEW R, NEW f \in Seq(R), NEW m \in Nat, Len(f) <= m, NEW k \in DOMAIN f
  PROVE  k \in 1 .. m /\ k \in Nat /\ k <= Len(f) /\ Len(f) \in Nat /\ f[k] \in R
OBVIOUS

LEMMA SeqAppended ==
  ASSUME NEW f, IsSeq(f), NEW e
  PROVE  /\ IsSeq(Append(f, e)) /\ Len(Append(f, e)) = Len(f) + 1 /\ Len(f) \in Nat
         /\ DOMAIN f = 1 .. Len(f) /\ DOMAIN Append(f, e) = 1 .. Len(f) + 1
         /\ Append(f, e)[Len(f) + 1] = e
         /\ \A n \in 1 .. Len(f) : Append(f, e)[n] = f[n]
<1> DEFINE R == {f[i] : i \in DOMAIN f} \cup {e}
           g == Append(f, e)
<1>1. f \in Seq(R) /\ e \in R
  <2> DEFINE Q == {f[i] : i \in DOMAIN f}
  <2>1. f \in Seq(Q) /\ Q \subseteq R
    BY DEF IsSeq
  <2> HIDE DEF Q, R
  <2>2. f \in Seq(R)
    BY <2>1
  <2>. QED BY <2>2 DEF R
<1> HIDE DEF R
<1>2. /\ g \in Seq(R) /\ Len(g) = Len(f) + 1 /\ Len(f) \in Nat
      /\ DOMAIN f = 1 .. Len(f) /\ DOMAIN g = 1 .. Len(f) + 1
      /\ g[Len(f) + 1] = e /\ \A n \in 1 .. Len(f) : g[n] = f[n]
  BY <1>1, Appended
<1> HIDE DEF g
<1>3. IsSeq(g)
  <2> DEFINE G == {g[i] : i \in DOMAIN g}
             n == Len(f) + 1
  <2>1. n \in Nat /\ g = [i \in 1 .. n |-> g[i]] /\ \A i \in 1 .. n : g[i] \in G
    BY <1>2
  <2> HIDE DEF G, n
  <2>2. g \in [1 .. n -> G]
    BY <2>1
  <2>3. g \in Seq(G)
    BY <2>1, <2>2, FunctionIsSeq
  <2>. QED BY <2>3 DEF G, IsSeq
<1>. QED BY <1>2, <1>3 DEF g

\* filter, whose recursion has one solution.
Filtering(lines, D, it) ==
  it = [n \in D |-> IF n = 0 THEN <<>>
                    ELSE IF lines[n].quantity > 0 THEN Append(it[n - 1], lines[n]) ELSE it[n - 1]]

LEMMA FilterUnfolds ==
  ASSUME NEW lines
  PROVE  Filtered(lines) = (CHOOSE it : Filtering(lines, 0 .. Len(lines), it))[Len(lines)]
BY DEF Filtered, Filtering

LEMMA FilterExists ==
  ASSUME NEW lines, NEW last \in Nat
  PROVE  \E it : Filtering(lines, 0 .. last, it)
<1> DEFINE N == {n \in Nat : \E it : Filtering(lines, 0 .. n, it)}
           Kept(it, n) == IF lines[n].quantity > 0 THEN Append(it[n - 1], lines[n]) ELSE it[n - 1]
<1>1. 0 \in N
  <2> DEFINE it == [n \in 0 .. 0 |-> <<>>]
  <2>1. Filtering(lines, 0 .. 0, it)
    BY DEF Filtering
  <2>. QED BY <2>1
<1>2. ASSUME NEW n \in Nat, n \in N PROVE n + 1 \in N
  <2>1. PICK g : Filtering(lines, 0 .. n, g)
    BY <1>2
  <2> DEFINE h == [m \in 0 .. n + 1 |-> IF m = 0 THEN <<>> ELSE Kept(g, m)]
  <2>2. \A m \in 0 .. n : g[m] = IF m = 0 THEN <<>> ELSE Kept(g, m)
    BY <2>1 DEF Filtering
  <2> HIDE DEF Next
  <2>3. \A m \in 0 .. n : h[m] = g[m]
    BY <2>2
  <2>4. \A m \in 1 .. n + 1 : m \in 0 .. n + 1 /\ m - 1 \in 0 .. n /\ m # 0
    OBVIOUS
  <2>5. \A m \in 1 .. n + 1 : Kept(g, m) = Kept(h, m)
    <3> HIDE DEF h
    <3>. QED BY <2>3, <2>4 DEF Kept
  <2>6. h = [m \in 0 .. n + 1 |-> IF m = 0 THEN <<>> ELSE Kept(h, m)]
    <3> DEFINE k == [m \in 0 .. n + 1 |-> IF m = 0 THEN <<>> ELSE Kept(h, m)]
    <3>1. \A m \in 0 .. n + 1 : m = 0 \/ m \in 1 .. n + 1
      OBVIOUS
    <3>2. \A m \in 0 .. n + 1 : h[m] = k[m]
      <4>1. \A m \in 0 .. n + 1 : h[m] = IF m = 0 THEN <<>> ELSE Kept(g, m)
        OBVIOUS
      <4>2. \A m \in 0 .. n + 1 : k[m] = IF m = 0 THEN <<>> ELSE Kept(h, m)
        OBVIOUS
      <4> HIDE DEF h, k
      <4>. QED BY <2>5, <3>1, <4>1, <4>2
    <3>. QED BY <3>2
  <2>7. Filtering(lines, 0 .. n + 1, h)
    BY <2>6 DEF Filtering, Next
  <2>. QED BY <2>7
<1> HIDE DEF N
<1>3. Nat \subseteq N
  BY <1>1, <1>2, NaturalsInduct
<1>. QED BY <1>3 DEF N

\* The filter keeps lines of positive quantity, and no product twice if there
\* was none twice.
LEMMA FilterKeeps ==
  ASSUME NEW R, NEW lines \in Seq(R), \A l \in R : l.quantity \in Int, OneLineEach(lines)
  PROVE  /\ Filtered(lines) \in Seq({l \in R : l.quantity > 0})
         /\ OneLineEach(Filtered(lines))
<1> DEFINE S == {l \in R : l.quantity > 0}
           From(s, n) == \A m \in DOMAIN s : \E j \in 1 .. n : s[m] = lines[j]
           OK(s, n) == s \in Seq(S) /\ OneLineEach(s) /\ From(s, n)
<1>0. /\ Len(lines) \in Nat /\ DOMAIN lines = 1 .. Len(lines)
      /\ \A n \in 1 .. Len(lines) : lines[n] \in R
  OBVIOUS
<1>1. PICK it : Filtering(lines, 0 .. Len(lines), it) /\ Filtered(lines) = it[Len(lines)]
  BY <1>0, FilterExists, FilterUnfolds
<1> DEFINE N == {n \in Nat : n <= Len(lines) => OK(it[n], n)}
<1>2. \A n \in 0 .. Len(lines) :
        it[n] = IF n = 0 THEN <<>>
                ELSE IF lines[n].quantity > 0 THEN Append(it[n - 1], lines[n]) ELSE it[n - 1]
  BY <1>1 DEF Filtering
<1>3. 0 \in N
  <2>1. it[0] = <<>>
    BY <1>0, <1>2
  <2>2. OK(<<>>, 0)
    BY DEF OneLineEach
  <2> HIDE DEF OK
  <2>. QED BY <2>1, <2>2
<1>4. ASSUME NEW n \in Nat, n \in N PROVE n + 1 \in N
  <2> SUFFICES ASSUME n + 1 <= Len(lines) PROVE OK(it[n + 1], n + 1)
    OBVIOUS
  <2>1. OK(it[n], n)
    BY <1>0, <1>4
  <2>2. n + 1 \in 1 .. Len(lines) /\ (n + 1) - 1 = n
    BY <1>0
  <2> DEFINE e == lines[n + 1]
  <2>3. it[n + 1] = IF e.quantity > 0 THEN Append(it[n], e) ELSE it[n]
    BY <1>0, <1>2, <2>2
  <2>4. CASE ~(e.quantity > 0)
    BY <2>1, <2>3, <2>4
  <2>5. CASE e.quantity > 0
    <3> DEFINE s == it[n]
               t == it[n + 1]
    <3>1. e \in S /\ t = Append(s, e)
      BY <1>0, <2>2, <2>3, <2>5
    <3>2. s \in Seq(S) /\ OneLineEach(s) /\ From(s, n)
      BY <2>1
    <3> HIDE DEF S, e, s, t
    <3>3. /\ t \in Seq(S) /\ Len(s) \in Nat /\ DOMAIN s = 1 .. Len(s)
          /\ DOMAIN t = 1 .. Len(s) + 1 /\ t[Len(s) + 1] = e
          /\ \A m \in 1 .. Len(s) : t[m] = s[m]
      BY <3>1, <3>2, Appended
    <3>4. From(t, n + 1)
      <4> SUFFICES ASSUME NEW m \in DOMAIN t PROVE \E j \in 1 .. n + 1 : t[m] = lines[j]
        OBVIOUS
      <4>1. CASE m = Len(s) + 1
        BY <3>3, <4>1 DEF e
      <4>2. CASE m \in 1 .. Len(s)
        BY <3>2, <3>3, <4>2
      <4>. QED BY <3>3, <4>1, <4>2
    <3>5. ASSUME NEW m \in 1 .. Len(s) PROVE s[m].product # e.product
      <4>1. PICK j \in 1 .. n : s[m] = lines[j]
        BY <3>2, <3>3
      <4>2. j # n + 1 /\ j \in DOMAIN lines /\ n + 1 \in DOMAIN lines
        BY <1>0, <2>2
      <4>. QED BY <4>1, <4>2 DEF OneLineEach, e
    <3>6. OneLineEach(t)
      BY <3>2, <3>3, <3>5 DEF OneLineEach
    <3>7. OK(t, n + 1)
      BY <3>3, <3>4, <3>6
    <3>. QED BY <3>7 DEF t
  <2>. QED BY <2>4, <2>5
<1> HIDE DEF N
<1>5. Nat \subseteq N
  BY <1>3, <1>4, NaturalsInduct
<1>6. OK(it[Len(lines)], Len(lines))
  <2> HIDE DEF OK
  <2>. QED BY <1>0, <1>5 DEF N
<1>. QED BY <1>1, <1>6

-----------------------------------------------------------------------------
(* Requests under way.                                                     *)

LEMMA BagSent ==
  ASSUME NEW B, IsABag(B), IsFiniteSet(DOMAIN B), NEW r
  PROVE  /\ IsABag(B (+) SetToBag({r})) /\ IsFiniteSet(DOMAIN (B (+) SetToBag({r})))
         /\ DOMAIN (B (+) SetToBag({r})) = DOMAIN B \cup {r}
<1>1. IsABag(B (+) SetToBag({r})) /\ DOMAIN (B (+) SetToBag({r})) = DOMAIN B \cup {r}
  BY DEF IsABag, (+), SetToBag
<1>2. IsFiniteSet(DOMAIN B \cup {r})
  BY FS_AddElement
<1>. QED BY <1>1, <1>2

LEMMA SentBeside ==
  ASSUME NEW B, NEW r, NEW e \in DOMAIN B, B[e] \in Nat, e # r
  PROVE  e \in DOMAIN (B (+) SetToBag({r})) /\ (B (+) SetToBag({r}))[e] = B[e]
BY DEF (+), SetToBag

\* One copy less of r, and of nothing else.
LEMMA BagWithout ==
  ASSUME NEW B, IsABag(B), IsFiniteSet(DOMAIN B), NEW r
  PROVE  LET C == B (-) SetToBag({r}) IN
         /\ IsABag(C) /\ IsFiniteSet(DOMAIN C) /\ DOMAIN C \subseteq DOMAIN B
         /\ \A e \in DOMAIN C : C[e] <= B[e] /\ C[e] \in Nat /\ B[e] \in Nat
         /\ \A e \in DOMAIN B \ {r} : e \in DOMAIN C /\ C[e] = B[e]
         /\ r \in DOMAIN C => C[r] = B[r] - 1
<1> DEFINE C == B (-) SetToBag({r})
<1>1. /\ IsABag(C) /\ DOMAIN C \subseteq DOMAIN B
      /\ \A e \in DOMAIN C : C[e] <= B[e] /\ C[e] \in Nat /\ B[e] \in Nat
      /\ \A e \in DOMAIN B \ {r} : e \in DOMAIN C /\ C[e] = B[e]
      /\ r \in DOMAIN C => C[r] = B[r] - 1
  BY DEF IsABag, (-), SetToBag
<1>2. IsFiniteSet(DOMAIN C)
  BY <1>1, FS_Subset
<1>. QED BY <1>1, <1>2

\* What is taken out shows.
LEMMA WithoutTells ==
  ASSUME NEW B, IsABag(B), IsFiniteSet(DOMAIN B), NEW r \in DOMAIN B
  PROVE  /\ B (-) SetToBag({r}) # B
         /\ \A s \in DOMAIN B : B (-) SetToBag({r}) = B (-) SetToBag({s}) => r = s
<1> DEFINE C == B (-) SetToBag({r})
<1>1. B[r] \in Nat
  BY DEF IsABag
<1>2. r \in DOMAIN C => C[r] = B[r] - 1
  BY BagWithout
<1>3. ASSUME NEW s, s # r
      PROVE  r \in DOMAIN (B (-) SetToBag({s})) /\ (B (-) SetToBag({s}))[r] = B[r]
  <2>1. \A e \in DOMAIN B \ {s} : e \in DOMAIN (B (-) SetToBag({s})) /\ (B (-) SetToBag({s}))[e] = B[e]
    BY BagWithout
  <2>2. r \in DOMAIN B \ {s}
    BY <1>3
  <2>. QED BY <2>1, <2>2, Zenon
<1> HIDE DEF C
<1>4. C # B
  BY <1>1, <1>2
<1>5. ASSUME NEW s \in DOMAIN B, C = B (-) SetToBag({s}), r # s PROVE FALSE
  <2>1. r \in DOMAIN C /\ C[r] = B[r]
    BY <1>3, <1>5, Zenon
  <2>. QED BY <1>1, <1>2, <2>1
<1>. QED BY <1>4, <1>5 DEF C

Copies(B, e) == [d \in DOMAIN B |-> IF Gone(d) = e THEN B[d] ELSE 0]

LEMMA AllGone ==
  ASSUME NEW B
  PROVE  /\ DOMAIN BagOfAll(Gone, B) = {Gone(d) : d \in DOMAIN B}
         /\ \A e \in DOMAIN BagOfAll(Gone, B) :
              BagOfAll(Gone, B)[e] = SumFunctionOnSet(Copies(B, e), DOMAIN B)
<1>1. DOMAIN BagOfAll(Gone, B) = {Gone(d) : d \in DOMAIN B}
  BY DEF BagOfAll, BagToSet
<1>2. ASSUME NEW e \in DOMAIN BagOfAll(Gone, B)
      PROVE  BagOfAll(Gone, B)[e] = SumFunctionOnSet(Copies(B, e), DOMAIN B)
  <2> DEFINE f == Copies(B, e)
  <2>1. BagOfAll(Gone, B)[e] = (CHOOSE it : Adds(f, SUBSET DOMAIN f, it))[DOMAIN f]
    BY <1>2 DEF BagOfAll, BagToSet, Copies, Adds, Chosen
  <2>2. DOMAIN f = DOMAIN B
    BY DEF Copies
  <2>. QED BY <2>1, <2>2, SumUnfolds
<1>. QED BY <1>1, <1>2

LEMMA SumAtLeast ==
  ASSUME NEW S, IsFiniteSet(S), NEW f, \A x \in S : f[x] \in Nat, NEW a \in S
  PROVE  /\ SumFunctionOnSet(f, S) \in Nat /\ SumFunctionOnSet(f, S) >= f[a]
         /\ \A b \in S \ {a} : SumFunctionOnSet(f, S) >= f[a] + f[b]
<1>1. /\ SumFunctionOnSet(f, S) \in Nat
      /\ SumFunctionOnSet(f, S) = f[a] + SumFunctionOnSet(f, S \ {a})
  BY SumNat, SumRemoves
<1>2. IsFiniteSet(S \ {a}) /\ SumFunctionOnSet(f, S \ {a}) \in Nat
  <2>1. IsFiniteSet(S \ {a})
    BY FS_Subset
  <2>. QED BY <2>1, SumNat
<1>3. ASSUME NEW b \in S \ {a} PROVE SumFunctionOnSet(f, S) >= f[a] + f[b]
  <2>1. SumFunctionOnSet(f, S \ {a}) = f[b] + SumFunctionOnSet(f, (S \ {a}) \ {b})
    BY <1>2, <1>3, SumRemoves
  <2>2. SumFunctionOnSet(f, (S \ {a}) \ {b}) \in Nat
    <3>1. IsFiniteSet((S \ {a}) \ {b})
      BY FS_Subset
    <3>. QED BY <3>1, SumNat
  <2>. QED BY <1>1, <1>3, <2>1, <2>2
<1>. QED BY <1>1, <1>2, <1>3

LEMMA GoneBag ==
  ASSUME NEW B, IsABag(B), IsFiniteSet(DOMAIN B)
  PROVE  /\ IsABag(BagOfAll(Gone, B)) /\ IsFiniteSet(DOMAIN BagOfAll(Gone, B))
         /\ \A d \in DOMAIN B :
              /\ Gone(d) \in DOMAIN BagOfAll(Gone, B) /\ BagOfAll(Gone, B)[Gone(d)] >= B[d]
              /\ \A b \in DOMAIN B \ {d} :
                   Gone(b) = Gone(d) => BagOfAll(Gone, B)[Gone(d)] >= B[d] + B[b]
<1> DEFINE C == BagOfAll(Gone, B)
<1>1. C = [e \in DOMAIN C |-> C[e]]
  BY DEF BagOfAll, BagToSet
<1>2. /\ DOMAIN C = {Gone(d) : d \in DOMAIN B}
      /\ \A e \in DOMAIN C : C[e] = SumFunctionOnSet(Copies(B, e), DOMAIN B)
  BY AllGone
<1>3. \A d \in DOMAIN B : B[d] \in Nat /\ B[d] > 0
  BY DEF IsABag
<1> HIDE DEF C
<1>4. ASSUME NEW d \in DOMAIN B
      PROVE  /\ Gone(d) \in DOMAIN C /\ C[Gone(d)] \in Nat /\ C[Gone(d)] >= B[d]
             /\ \A b \in DOMAIN B \ {d} : Gone(b) = Gone(d) => C[Gone(d)] >= B[d] + B[b]
  <2> DEFINE f == Copies(B, Gone(d))
  <2>1. /\ \A x \in DOMAIN B : f[x] \in Nat
        /\ \A x \in DOMAIN B : Gone(x) = Gone(d) => f[x] = B[x]
    BY <1>3 DEF Copies
  <2>2. Gone(d) \in DOMAIN C /\ C[Gone(d)] = SumFunctionOnSet(f, DOMAIN B)
    BY <1>2
  <2> HIDE DEF f
  <2>. QED BY <2>1, <2>2, SumAtLeast
<1>5. IsABag(C)
  <2>1. \A e \in DOMAIN C : C[e] \in Nat /\ C[e] > 0
    BY <1>2, <1>3, <1>4
  <2>. QED BY <1>1, <2>1 DEF IsABag
<1>6. IsFiniteSet(DOMAIN C)
  <2> DEFINE g == [d \in DOMAIN B |-> Gone(d)]
  <2>1. g \in Surjection(DOMAIN B, DOMAIN C)
    BY <1>2 DEF Surjection
  <2>. QED BY <2>1, FS_Surjection
<1>. QED BY <1>4, <1>5, <1>6 DEF C

\* Requests keep their fields.
LEMMA GoneIs ==
  ASSUME NEW r, Shaped(r)
  PROVE  /\ Shaped(Gone(r)) /\ Gone(r).gone = TRUE /\ Gone(r).served = r.served
         /\ Gone(r).kind = r.kind /\ Gone(r).key = r.key /\ Gone(r).cart = r.cart
         /\ Gone(r).reply = r.reply /\ (r.gone => Gone(r) = r)
BY DEF Shaped, Gone

Told(r, reply) == [r EXCEPT !.served = TRUE, !.reply = reply]

\* What is known stays known.
Grows ==
  /\ DOMAIN shifts \subseteq DOMAIN shifts' /\ DOMAIN sales \subseteq DOMAIN sales'
  /\ DOMAIN drawn \subseteq DOMAIN drawn'
  /\ \A i \in DOMAIN sales : sales'[i] = sales[i]
  /\ \A k \in DOMAIN drawn : drawn'[k] = drawn[k]

LEMMA RequestKept ==
  ASSUME NEW r, RequestOK(r), Grows
  PROVE  RequestOK(r)'
BY DEF RequestOK, Grows, Shaped

LEMMA Sending ==
  ASSUME TrafficOK, Grows, NEW r, Send(r), RequestOK(r)'
  PROVE  TrafficOK'
<1>1. /\ IsABag(requests') /\ IsFiniteSet(DOMAIN requests')
      /\ DOMAIN requests' = DOMAIN requests \cup {r}
  BY BagSent DEF TrafficOK, Send, Sent
<1>. QED BY <1>1, RequestKept DEF TrafficOK

LEMMA Hearing ==
  ASSUME TrafficOK, Grows, NEW r, requests' = Without(r)
  PROVE  TrafficOK'
<1>1. /\ IsABag(requests') /\ IsFiniteSet(DOMAIN requests')
      /\ DOMAIN requests' \subseteq DOMAIN requests
  BY BagWithout DEF TrafficOK, Without
<1>. QED BY <1>1, RequestKept DEF TrafficOK

LEMMA Serving ==
  ASSUME TrafficOK, Grows, NEW r, NEW reply, Serve(r, reply), ~r.gone => RequestOK(Told(r, reply))'
  PROVE  TrafficOK'
<1>1. CASE r.gone
  BY <1>1, Hearing DEF Serve
<1>2. CASE ~r.gone
  <2> DEFINE B == Without(r)
  <2>1. IsABag(B) /\ IsFiniteSet(DOMAIN B) /\ DOMAIN B \subseteq DOMAIN requests
    BY BagWithout DEF TrafficOK, Without
  <2>2. requests' = B (+) SetToBag({Told(r, reply)})
    BY <1>2 DEF Serve, Told
  <2> HIDE DEF B
  <2>3. /\ IsABag(requests') /\ IsFiniteSet(DOMAIN requests')
        /\ DOMAIN requests' = DOMAIN B \cup {Told(r, reply)}
    BY <2>1, <2>2, BagSent
  <2>. QED BY <1>2, <2>1, <2>3, RequestKept DEF TrafficOK
<1>. QED BY <1>1, <1>2

-----------------------------------------------------------------------------
(* The server.                                                             *)

LEMMA ServerStands ==
  ASSUME ServerOK, UNCHANGED <<shifts, sales, idem, drawn>>, catalog' \in Catalogs
  PROVE  ServerOK' /\ Grows
<1>1. ServerOK'
  BY DEF ServerOK, ChargedAsShown, IsSeq
<1>2. Grows
  BY DEF Grows
<1>. QED BY <1>1, <1>2

LEMMA PageStands ==
  ASSUME PageOK, Grows, UNCHANGED till
  PROVE  PageOK'
BY DEF PageOK, Grows, till, OneLineEach

LEMMA OpenShifts ==
  ASSUME ServerOK, UNCHANGED drawn, NEW u \in Users, NEW cash \in Nat,
         Shop!OpenShift(u, Location, cash)
  PROVE  ServerOK' /\ Grows /\ Len(shifts) + 1 \in DOMAIN shifts'
<1> DEFINE row == [user |-> u, location |-> Location, opening |-> cash, closing |-> None, open |-> TRUE]
<1>1. /\ shifts' = Append(shifts, row) /\ UNCHANGED <<catalog, sales, idem>>
      /\ row \in Shop!ShiftRow /\ shifts \in Seq(Shop!ShiftRow)
  BY DEF Shop!OpenShift, Shop!ShiftRow, ServerOK
<1> HIDE DEF row
<1>2. /\ shifts' \in Seq(Shop!ShiftRow) /\ DOMAIN shifts \subseteq DOMAIN shifts'
      /\ Len(shifts) + 1 \in DOMAIN shifts'
  BY <1>1, Appended
<1>3. ServerOK'
  BY <1>1, <1>2 DEF ServerOK, ChargedAsShown, IsSeq
<1>4. Grows
  BY <1>1, <1>2 DEF Grows
<1>. QED BY <1>2, <1>3, <1>4

LEMMA CloseShifts ==
  ASSUME ServerOK, UNCHANGED drawn, NEW u, NEW s, NEW cash \in Nat, Shop!CloseShift(u, s, cash)
  PROVE  ServerOK' /\ Grows
<1> DEFINE row == Shop!Closed(shifts[s], cash)
<1>1. /\ shifts' = [shifts EXCEPT ![s] = row] /\ UNCHANGED <<catalog, sales, idem>>
      /\ s \in DOMAIN shifts /\ shifts \in Seq(Shop!ShiftRow)
  BY DEF Shop!CloseShift, Shop!OpenShiftOf, ServerOK
<1>2. row \in Shop!ShiftRow
  <2>1. shifts[s] \in Shop!ShiftRow
    BY <1>1
  <2>. QED BY <2>1 DEF Shop!ShiftRow, Shop!Closed
<1> HIDE DEF row
<1>3. shifts' \in Seq(Shop!ShiftRow) /\ DOMAIN shifts' = DOMAIN shifts
  BY <1>1, <1>2, ExceptSeq
<1>4. ServerOK'
  BY <1>1, <1>3 DEF ServerOK, ChargedAsShown, IsSeq
<1>5. Grows
  BY <1>1, <1>3 DEF Grows
<1>. QED BY <1>4, <1>5

LEMMA PaidOnce ==
  ASSUME NEW a \in Int
  PROVE  Shop!Paid(<<[method |-> "CASH", amount |-> a]>>) = a
<1> DEFINE p == <<[method |-> "CASH", amount |-> a]>>
           f == [n \in DOMAIN p |-> p[n].amount]
<1>1. Shop!Paid(p) = Shop!SumFunction(f)
  BY DEF Shop!Paid
<1>2. Shop!SumFunction(f) = SumFunction(f)
  BY DEF Shop!SumFunction, Shop!SumFunctionOnSet, Shop!FoldFunctionOnSet, Shop!MapThenFoldSet,
         SumFunction, SumFunctionOnSet, FoldFunctionOnSet, MapThenFoldSet
<1>3. DOMAIN f = {1} /\ f[1] = a
  <2>1. DOMAIN p = {1} /\ p[1].amount = a
    OBVIOUS
  <2> HIDE DEF p
  <2>. QED BY <2>1
<1> HIDE DEF f
<1>. QED BY <1>1, <1>2, <1>3, SumSingle DEF SumFunction

\* What a checkout is answered, and what it leaves.
LEMMA Checkouts ==
  ASSUME ServerOK, PageOK, UNCHANGED drawn, NEW r, RequestOK(r), r.kind = "checkout",
         Shop!Checkout(r.user, r.key, r.shift, r.cart)
  PROVE  /\ ServerOK' /\ Grows
         /\ answer'.sale # None => answer'.sale \in DOMAIN sales' /\ sales'[answer'.sale].key = r.key
<1> DEFINE k == r.key
           q == r.cart
<1>1. /\ k \in DOMAIN drawn /\ k \in Keys /\ drawn[k].total \in Nat
      /\ q.payments = <<[method |-> "CASH", amount |-> drawn[k].total]>>
  <2>1. /\ k \in DOMAIN drawn /\ q.payments = <<[method |-> "CASH", amount |-> drawn[k].total]>>
    BY DEF RequestOK
  <2>2. drawn \in Seq([basket: Nat, total: Nat]) /\ Len(drawn) <= MaxClicks
    BY DEF PageOK
  <2>3. k \in Keys /\ drawn[k] \in [basket: Nat, total: Nat]
    BY <2>1, <2>2, BoundAssumption, Element DEF Keys
  <2>. QED BY <2>1, <2>3
<1>2. CASE Shop!Replay(k, q)
  <2>1. /\ answer'.sale = idem[k] /\ idem[k] # None
        /\ UNCHANGED <<catalog, shifts, sales, idem>>
    BY <1>2 DEF Shop!Replay, Shop!Answered
  <2>2. idem[k] \in DOMAIN sales /\ sales[idem[k]].key = k
    BY <1>1, <2>1 DEF ServerOK
  <2>3. catalog' \in Catalogs
    BY <2>1 DEF ServerOK
  <2>. QED BY <2>1, <2>2, <2>3, ServerStands
<1>3. CASE Shop!Refuse(k, q)
  <2>1. answer'.sale = None /\ UNCHANGED <<catalog, shifts, sales, idem>>
    BY <1>3 DEF Shop!Refuse, Shop!Answered
  <2>2. catalog' \in Catalogs
    BY <2>1 DEF ServerOK
  <2>. QED BY <2>1, <2>2, ServerStands
<1>4. CASE Shop!Sell(r.user, k, r.shift, q) /\ ~Shop!Refuse(k, q)
  <2> DEFINE total == Shop!Total(Shop!Lines(q))
             row == [key |-> k, cashier |-> r.user, shift |-> r.shift,
                     location |-> shifts[r.shift].location, cart |-> q, items |-> Shop!Lines(q),
                     total |-> total, payments |-> q.payments]
             new == Len(sales) + 1
  <2>1. /\ sales' = Append(sales, row) /\ idem' = [idem EXCEPT ![k] = new]
        /\ answer'.sale = new /\ UNCHANGED <<catalog, shifts>>
        /\ Shop!Settles(q)
    BY <1>4 DEF Shop!Sell, Shop!Remember, Shop!Answered, Shop!Acceptable
  <2>2. total = drawn[k].total
    <3>1. Shop!Paid(q.payments) = drawn[k].total
      BY <1>1, PaidOnce
    <3>. QED BY <2>1, <3>1 DEF Shop!Settles
  <2>3. row.key = k /\ row.total = drawn[k].total
    BY <2>2
  <2> HIDE DEF row, total
  <2>4. /\ IsSeq(sales') /\ Len(sales) \in Nat /\ DOMAIN sales = 1 .. Len(sales)
        /\ DOMAIN sales' = 1 .. new /\ sales'[new] = row
        /\ \A i \in 1 .. Len(sales) : sales'[i] = sales[i]
    BY <2>1, SeqAppended DEF ServerOK
  <2>5. /\ new \in DOMAIN sales' /\ DOMAIN sales \subseteq DOMAIN sales'
        /\ \A i \in DOMAIN sales' : i = new \/ i \in DOMAIN sales
    BY <2>4
  <2> HIDE DEF new
  <2>6. idem' \in [Keys -> DOMAIN sales' \cup {None}]
    BY <1>1, <2>1, <2>5 DEF ServerOK
  <2>7. ASSUME NEW j \in Keys, idem'[j] # None PROVE sales'[idem'[j]].key = j
    <3>1. CASE j = k
      BY <1>1, <2>1, <2>3, <2>4, <3>1 DEF ServerOK
    <3>2. CASE j # k
      BY <2>1, <2>4, <2>7, <3>2 DEF ServerOK
    <3>. QED BY <3>1, <3>2
  <2>8. \A i \in DOMAIN sales' :
          sales'[i].key \in DOMAIN drawn /\ sales'[i].total = drawn[sales'[i].key].total
    BY <1>1, <2>3, <2>4, <2>5 DEF ServerOK, ChargedAsShown
  <2>9. ServerOK'
    BY <2>1, <2>4, <2>6, <2>7, <2>8 DEF ServerOK, ChargedAsShown
  <2>10. Grows
    BY <2>1, <2>4, <2>5 DEF Grows
  <2>. QED BY <2>1, <2>3, <2>4, <2>5, <2>9, <2>10
<1>. QED BY <1>2, <1>3, <1>4 DEF Shop!Checkout, Shop!Reject

LEMMA Returns ==
  ASSUME ServerOK, UNCHANGED drawn, NEW sale, NEW rows, Shop!ReturnSale(sale, rows)
  PROVE  ServerOK' /\ Grows
BY ServerStands DEF Shop!ReturnSale, ServerOK

-----------------------------------------------------------------------------
(* The page.                                                               *)

\* A step that the server has no part in.
LEMMA Alone ==
  ASSUME ServerOK, UNCHANGED <<server, drawn>>
  PROVE  ServerOK' /\ Grows
BY ServerStands DEF server, ServerOK

\* The request of every click.
LEMMA Asked ==
  ASSUME NEW r
  PROVE  /\ \A u \in Users : r = [Blank EXCEPT !.user = u] =>
              Shaped(r) /\ r.kind = "shifts" /\ ~r.served /\ ~r.gone
         /\ token \in Users =>
              /\ \A cash \in Nat :
                   /\ r = [Asks("open") EXCEPT !.cash = cash] =>
                        Shaped(r) /\ r.kind = "open" /\ ~r.served
                   /\ r = [Asks("close") EXCEPT !.shift = shift, !.cash = cash] =>
                        Shaped(r) /\ r.kind = "close" /\ ~r.served
              /\ \A sale : r = [Asks("return") EXCEPT !.sale = sale] =>
                   Shaped(r) /\ r.kind = "return" /\ ~r.served
<1>1. ASSUME NEW u \in Users, r = [Blank EXCEPT !.user = u]
      PROVE  Shaped(r) /\ r.kind = "shifts" /\ ~r.served /\ ~r.gone
  BY <1>1 DEF Shaped, Blank
<1>2. ASSUME token \in Users, NEW cash \in Nat, r = [Asks("open") EXCEPT !.cash = cash]
      PROVE  Shaped(r) /\ r.kind = "open" /\ ~r.served
  BY <1>2 DEF Shaped, Blank, Asks
<1>3. ASSUME token \in Users, NEW cash \in Nat,
             r = [Asks("close") EXCEPT !.shift = shift, !.cash = cash]
      PROVE  Shaped(r) /\ r.kind = "close" /\ ~r.served
  BY <1>3 DEF Shaped, Blank, Asks
<1>4. ASSUME token \in Users, NEW sale, r = [Asks("return") EXCEPT !.sale = sale]
      PROVE  Shaped(r) /\ r.kind = "return" /\ ~r.served
  BY <1>4 DEF Shaped, Blank, Asks
<1>. QED BY <1>1, <1>2, <1>3, <1>4

\* A request that is no checkout and has no answer yet.
LEMMA AskedOK ==
  ASSUME NEW r, Shaped(r), r.kind # "checkout", ~r.served
  PROVE  RequestOK(r)'
BY DEF RequestOK, Shaped

\* The page sends a request that is no checkout.
LEMMA AskKeeps ==
  ASSUME Consistent, NEW r, Send(r), UNCHANGED <<server, till>>, RequestOK(r)'
  PROVE  Consistent'
<1>1. ServerOK' /\ Grows
  BY Alone DEF Consistent, till
<1>2. TrafficOK'
  BY <1>1, Sending DEF Consistent
<1>3. PageOK'
  BY <1>1, PageStands DEF Consistent
<1>. QED BY <1>1, <1>2, <1>3 DEF Consistent

LEMMA LoginKeeps ==
  ASSUME Consistent, NEW u \in Users, ClickLogin(u)
  PROVE  Consistent'
<1>1. PICK r : r = [Blank EXCEPT !.kind = "login", !.user = u]
  OBVIOUS
<1>2. Send(r) /\ UNCHANGED <<server, till>>
  BY <1>1 DEF ClickLogin
<1>3. Shaped(r) /\ r.kind = "login" /\ ~r.served
  BY <1>1 DEF Shaped, Blank
<1>. QED BY <1>2, <1>3, AskKeeps, AskedOK

LEMMA ClicksKeep ==
  ASSUME Consistent, NEW cash \in Nat, NEW sale,
         ClickOpenShift(cash) \/ ClickCloseShift(cash) \/ ClickReturn(sale)
  PROVE  Consistent'
<1>1. token \in Users /\ cash \in Nat /\ UNCHANGED <<server, till>>
  BY DEF Consistent, PageOK, ClickOpenShift, ClickCloseShift, ClickReturn, Selling
<1>2. PICK r : Send(r) /\ \/ r = [Asks("open") EXCEPT !.cash = cash]
                          \/ r = [Asks("close") EXCEPT !.shift = shift, !.cash = cash]
                          \/ r = [Asks("return") EXCEPT !.sale = sale]
  BY DEF ClickOpenShift, ClickCloseShift, ClickReturn
<1>3. Shaped(r) /\ r.kind # "checkout" /\ ~r.served
  BY <1>1, <1>2, Asked
<1>. QED BY <1>1, <1>2, <1>3, AskKeeps, AskedOK

LEMMA EmptiesPage ==
  ASSUME PageOK, Empties, UNCHANGED drawn
  PROVE  /\ cart' \in Seq(LinesUpTo(1)) /\ OneLineEach(cart')
         /\ basket' \in 0 .. Len(drawn')
<1>1. <<>> \in Seq(LinesUpTo(1)) /\ OneLineEach(<<>>)
  BY DEF OneLineEach
<1>2. Len(drawn) \in Nat
  BY DEF PageOK
<1>. QED BY <1>1, <1>2 DEF Empties

\* The next two only change what is shown.
LEMMA LogoutKeeps ==
  ASSUME Consistent, Logout
  PROVE  Consistent'
<1>1. ServerOK' /\ Grows
  BY Alone DEF Consistent, Logout
<1>2. TrafficOK'
  BY <1>1, RequestKept DEF Consistent, TrafficOK, Logout
<1>3. PageOK'
  BY <1>1, EmptiesPage DEF Consistent, PageOK, Logout, server
<1>. QED BY <1>1, <1>2, <1>3 DEF Consistent

LEMMA CartKeeps ==
  ASSUME Consistent, UNCHANGED <<server, token, shift, lastSale, drawn, requests>>,
         cart' \in Seq(LinesUpTo(1)), OneLineEach(cart'), basket' \in {basket, Len(drawn)}
  PROVE  Consistent'
<1>1. ServerOK' /\ Grows
  BY Alone DEF Consistent
<1>2. TrafficOK'
  BY <1>1, RequestKept DEF Consistent, TrafficOK
<1>3. PageOK'
  <2>1. Len(drawn) \in Nat
    BY DEF Consistent, PageOK
  <2>. QED BY <1>1, <2>1 DEF Consistent, PageOK, server
<1>. QED BY <1>1, <1>2, <1>3 DEF Consistent

LEMMA AddKeeps ==
  ASSUME Consistent, NEW p \in Products, Add(p)
  PROVE  Consistent'
<1>1. /\ cart \in Seq(LinesUpTo(1)) /\ OneLineEach(cart) /\ catalog \in Catalogs
      /\ UNCHANGED <<server, token, shift, lastSale, basket, drawn, requests>>
  BY DEF Consistent, PageOK, ServerOK, Add
<1>2. CASE LineOf(p) = {}
  <2> DEFINE l == [product |-> p, retail |-> catalog[p].retail,
                   wholesale |-> catalog[p].wholesale, quantity |-> 1]
  <2>1. cart' = Append(cart, l) /\ \A n \in DOMAIN cart : cart[n].product # l.product
    BY <1>2 DEF Add, LineOf
  <2>2. l \in LinesUpTo(1)
    <3>1. catalog[p] \in [retail: Nat, wholesale: Nat, active: BOOLEAN]
      BY <1>1, CatalogAssumption
    <3>2. l.retail = catalog[l.product].retail
      OBVIOUS
    <3>3. l \in [product: Products, retail: Nat, wholesale: Nat, quantity: 1 .. MaxQuantity]
      BY <3>1, BoundAssumption
    <3> HIDE DEF l
    <3>. QED BY <1>1, <3>2, <3>3 DEF LinesUpTo
  <2> HIDE DEF l
  <2>3. /\ cart' \in Seq(LinesUpTo(1)) /\ Len(cart) \in Nat /\ DOMAIN cart = 1 .. Len(cart)
        /\ DOMAIN cart' = 1 .. Len(cart) + 1 /\ cart'[Len(cart) + 1] = l
        /\ \A n \in 1 .. Len(cart) : cart'[n] = cart[n]
    BY <1>1, <2>1, <2>2, Appended
  <2>4. OneLineEach(cart')
    BY <1>1, <2>1, <2>3 DEF OneLineEach
  <2>. QED BY <1>1, <2>3, <2>4, CartKeeps
<1>3. CASE LineOf(p) # {}
  <2> DEFINE More(n) == [cart[n] EXCEPT !.quantity = @ + 1]
  <2>1. cart' = [n \in DOMAIN cart |-> IF n \in LineOf(p) THEN More(n) ELSE cart[n]]
    BY <1>3 DEF Add
  <2>2. ASSUME NEW n \in DOMAIN cart
        PROVE  cart'[n] \in LinesUpTo(1) /\ cart'[n].product = cart[n].product
    <3>1. cart[n] \in LinesUpTo(1)
      BY <1>1
    <3>2. CASE n \in LineOf(p)
      <4>1. cart'[n] = More(n) /\ cart[n].quantity < MaxQuantity
        BY <2>1, <3>2 DEF Add
      <4>. QED BY <3>1, <4>1, BoundAssumption DEF LinesUpTo
    <3>3. CASE n \notin LineOf(p)
      BY <2>1, <3>1, <3>3
    <3>. QED BY <3>2, <3>3
  <2>3. Len(cart) \in Nat /\ DOMAIN cart = 1 .. Len(cart) /\ DOMAIN cart' = DOMAIN cart
        /\ cart' = [n \in 1 .. Len(cart) |-> cart'[n]]
    BY <1>1, <2>1
  <2>4. cart' \in Seq(LinesUpTo(1))
    <3>1. cart' \in [1 .. Len(cart) -> LinesUpTo(1)]
      BY <2>2, <2>3
    <3>. QED BY <2>3, <3>1, FunctionIsSeq
  <2>5. OneLineEach(cart')
    BY <1>1, <2>2, <2>3 DEF OneLineEach
  <2>. QED BY <1>1, <2>4, <2>5, CartKeeps
<1>. QED BY <1>2, <1>3

LEMMA TakeOutKeeps ==
  ASSUME Consistent, NEW p \in Products, TakeOut(p)
  PROVE  Consistent'
<1>1. /\ cart \in Seq(LinesUpTo(1)) /\ OneLineEach(cart) /\ cart' = Filtered(Less(p))
      /\ UNCHANGED <<server, token, shift, lastSale, drawn, requests>>
      /\ basket' \in {basket, Len(drawn)}
  BY DEF Consistent, PageOK, TakeOut, OneLess
<1> DEFINE left == Less(p)
<1>2. ASSUME NEW n \in DOMAIN cart
      PROVE  left[n] \in LinesUpTo(0) /\ left[n].product = cart[n].product
  <2>1. cart[n] \in LinesUpTo(1)
    BY <1>1
  <2>2. left[n] = IF n \in LineOf(p) THEN [cart[n] EXCEPT !.quantity = @ - 1] ELSE cart[n]
    BY DEF Less
  <2>. QED BY <2>1, <2>2, BoundAssumption DEF LinesUpTo
<1>3. /\ Len(cart) \in Nat /\ DOMAIN cart = 1 .. Len(cart) /\ DOMAIN left = DOMAIN cart
      /\ left = [n \in 1 .. Len(cart) |-> left[n]]
  BY <1>1 DEF Less
<1> HIDE DEF left
<1>4. left \in Seq(LinesUpTo(0)) /\ OneLineEach(left)
  <2>1. left \in [1 .. Len(cart) -> LinesUpTo(0)]
    BY <1>2, <1>3
  <2>2. OneLineEach(left)
    BY <1>1, <1>2, <1>3 DEF OneLineEach
  <2>. QED BY <1>3, <2>1, <2>2, FunctionIsSeq
<1>5. /\ \A l \in LinesUpTo(0) : l.quantity \in Int
      /\ \A l \in LinesUpTo(0) : l.quantity > 0 => l \in LinesUpTo(1)
  BY BoundAssumption DEF LinesUpTo
<1>6. /\ cart' \in Seq({l \in LinesUpTo(0) : l.quantity > 0}) /\ OneLineEach(cart')
  BY <1>1, <1>4, <1>5, FilterKeeps DEF left
<1>7. cart' \in Seq(LinesUpTo(1))
  <2> DEFINE S == {l \in LinesUpTo(0) : l.quantity > 0}
  <2>1. S \subseteq LinesUpTo(1)
    BY <1>5
  <2>2. cart' \in Seq(S)
    BY <1>6
  <2> HIDE DEF S
  <2>. QED BY <2>1, <2>2
<1>. QED BY <1>1, <1>6, <1>7, CartKeeps

\* What the loaded page asks, and what asked before is gone.
LEMMA Reloaded ==
  ASSUME TrafficOK, token \in Users, Reload
  PROVE  \E r, B, C :
           /\ r = [Blank EXCEPT !.user = token] /\ IsABag(B) /\ IsFiniteSet(DOMAIN B)
           /\ DOMAIN B = {d \in DOMAIN requests : ~d.served}
           /\ \A d \in DOMAIN B : B[d] = requests[d]
           /\ C = BagOfAll(Gone, B) /\ requests' = C (+) SetToBag({r})
           /\ IsABag(requests') /\ IsFiniteSet(DOMAIN requests')
           /\ DOMAIN requests' = {Gone(d) : d \in DOMAIN B} \cup {r}
<1> DEFINE W == {d \in DOMAIN requests : ~d.served}
           B == [d \in W |-> requests[d]]
           C == BagOfAll(Gone, B)
           r == [Blank EXCEPT !.user = token]
<1>1. requests' = C (+) SetToBag({r})
  BY DEF Reload, Sent, BagToSet
<1>2. IsABag(B) /\ DOMAIN B = W /\ IsFiniteSet(W) /\ \A d \in DOMAIN B : B[d] = requests[d]
  <2>1. IsFiniteSet(W)
    BY FS_Subset DEF TrafficOK
  <2>. QED BY <2>1 DEF TrafficOK, IsABag
<1> HIDE DEF B, r
<1>3. IsABag(C) /\ IsFiniteSet(DOMAIN C) /\ DOMAIN C = {Gone(d) : d \in DOMAIN B}
  BY <1>2, GoneBag, AllGone
<1> HIDE DEF C
<1>4. /\ IsABag(requests') /\ IsFiniteSet(DOMAIN requests')
      /\ DOMAIN requests' = {Gone(d) : d \in DOMAIN B} \cup {r}
  BY <1>1, <1>3, BagSent
<1>. QED BY <1>1, <1>2, <1>4 DEF C, r

LEMMA ReloadKeeps ==
  ASSUME Consistent, Reload
  PROVE  Consistent'
<1>1. ServerOK' /\ Grows
  BY Alone DEF Consistent, Reload
<1>2. token \in Users
  BY DEF Consistent, PageOK, Reload
<1>3. PICK r, B : /\ r = [Blank EXCEPT !.user = token]
                  /\ DOMAIN B = {d \in DOMAIN requests : ~d.served}
                  /\ IsABag(requests') /\ IsFiniteSet(DOMAIN requests')
                  /\ DOMAIN requests' = {Gone(d) : d \in DOMAIN B} \cup {r}
  BY <1>2, Reloaded DEF Consistent
<1>4. RequestOK(r)'
  <2>1. Shaped(r) /\ r.kind = "shifts" /\ ~r.served
    BY <1>2, <1>3, Asked
  <2>. QED BY <2>1, AskedOK
<1>5. ASSUME NEW d \in DOMAIN B PROVE RequestOK(Gone(d))'
  <2>1. RequestOK(d) /\ ~d.served
    BY <1>3 DEF Consistent, TrafficOK
  <2>2. PICK g : g = Gone(d)
    OBVIOUS
  <2>3. /\ Shaped(g) /\ g.gone = TRUE /\ g.served = d.served /\ g.kind = d.kind
        /\ g.key = d.key /\ g.cart = d.cart
    BY <2>1, <2>2, GoneIs DEF RequestOK
  <2>4. RequestOK(g)
    BY <2>1, <2>3 DEF RequestOK
  <2>5. RequestOK(g)'
    BY <1>1, <2>4, RequestKept
  <2>. QED BY <2>2, <2>5
<1>6. TrafficOK'
  BY <1>3, <1>4, <1>5 DEF TrafficOK
<1>7. PageOK'
  BY <1>1, EmptiesPage DEF Consistent, PageOK, Reload, server
<1>. QED BY <1>1, <1>6, <1>7 DEF Consistent

LEMMA TotalShown ==
  ASSUME PageOK, NEW wholesale \in BOOLEAN
  PROVE  ShownTotal(wholesale) \in Nat
<1> DEFINE f == [n \in DOMAIN cart |->
                   (IF wholesale THEN cart[n].wholesale ELSE cart[n].retail) * cart[n].quantity]
<1>1. Len(cart) \in Nat /\ DOMAIN cart = 1 .. Len(cart)
  BY DEF PageOK
<1>2. ASSUME NEW n \in DOMAIN cart PROVE f[n] \in Nat
  <2>1. cart[n] \in LinesUpTo(1)
    BY DEF PageOK
  <2>2. /\ cart[n].wholesale \in Nat /\ cart[n].retail \in Nat /\ cart[n].quantity \in Nat
    BY <2>1, BoundAssumption DEF LinesUpTo
  <2>3. f[n] = (IF wholesale THEN cart[n].wholesale ELSE cart[n].retail) * cart[n].quantity
    OBVIOUS
  <2> HIDE DEF f
  <2>4. \A a, b \in Nat : a * b \in Nat
    OBVIOUS
  <2>. QED BY <2>2, <2>3, <2>4
<1>3. DOMAIN f = DOMAIN cart /\ IsFiniteSet(DOMAIN cart)
  BY <1>1, FS_Interval
<1>4. ShownTotal(wholesale) = SumFunctionOnSet(f, DOMAIN f)
  BY DEF ShownTotal, SumFunction
<1> HIDE DEF f
<1>. QED BY <1>2, <1>3, <1>4, SumNat

LEMMA CheckoutKeeps ==
  ASSUME Consistent, NEW wholesale \in BOOLEAN, ClickCheckout(wholesale)
  PROVE  Consistent'
<1>1. PICK total \in Nat : total = ShownTotal(wholesale)
  BY TotalShown DEF Consistent
<1>2. PICK key, order, b : /\ key = Len(drawn) + 1 /\ order = Order(wholesale) /\ b = basket
  OBVIOUS
<1>3. PICK r : r = [Asks("checkout") EXCEPT !.shift = shift, !.key = key, !.cart = order] /\ Send(r)
  BY <1>2 DEF ClickCheckout
<1> DEFINE row == [basket |-> b, total |-> total]
<1>4. /\ drawn' = Append(drawn, row) /\ UNCHANGED <<server, token, shift, cart, lastSale, basket>>
      /\ Len(drawn) < MaxClicks /\ token \in Users
  BY <1>1, <1>2 DEF ClickCheckout, Selling, Consistent, PageOK
<1>5. /\ drawn \in Seq([basket: Nat, total: Nat]) /\ Len(drawn) \in Nat /\ b \in 0 .. Len(drawn)
      /\ row \in [basket: Nat, total: Nat] /\ row.basket = b /\ row.total = total
  BY <1>1, <1>2 DEF Consistent, PageOK
<1> HIDE DEF row
<1>6. /\ drawn' \in Seq([basket: Nat, total: Nat]) /\ Len(drawn') = key /\ key = Len(drawn) + 1
      /\ DOMAIN drawn = 1 .. Len(drawn) /\ DOMAIN drawn' = 1 .. key /\ drawn'[key] = row
      /\ \A k \in 1 .. Len(drawn) : drawn'[k] = drawn[k]
  BY <1>2, <1>4, <1>5, Appended
<1>7. Grows
  BY <1>4, <1>5, <1>6 DEF Grows, server
<1>8. ServerOK'
  BY <1>4, <1>7 DEF Consistent, ServerOK, ChargedAsShown, Grows, server, IsSeq
<1>9. PageOK'
  <2>1. Len(drawn') <= MaxClicks /\ basket' \in 0 .. Len(drawn')
    BY <1>2, <1>4, <1>5, <1>6, BoundAssumption
  <2>2. \A k \in DOMAIN drawn' : drawn'[k].basket < k
    <3>1. \A k \in 1 .. Len(drawn) : drawn[k].basket < k
      BY <1>6 DEF Consistent, PageOK
    <3>2. \A k \in 1 .. key : k = key \/ k \in 1 .. Len(drawn)
      BY <1>5, <1>6
    <3>3. b < key
      BY <1>5, <1>6
    <3>. QED BY <1>5, <1>6, <3>1, <3>2, <3>3
  <2>. QED BY <1>4, <1>6, <2>1, <2>2 DEF Consistent, PageOK, server, OneLineEach
<1>10. RequestOK(r)'
  <2>1. Shaped(r) /\ r.kind = "checkout" /\ ~r.served /\ r.key = key /\ r.cart = order
    <3>1. Shaped(r) /\ r.kind = "checkout" /\ ~r.served
      BY <1>3, <1>4 DEF Shaped, Blank, Asks
    <3>2. r.key = key /\ r.cart = order
      BY <1>3, <1>4 DEF Shaped, Blank, Asks
    <3>. QED BY <3>1, <3>2
  <2>2. order.payments = <<[method |-> "CASH", amount |-> total]>>
    BY <1>1, <1>2 DEF Order
  <2>3. key \in DOMAIN drawn' /\ drawn'[key].total = total
    BY <1>5, <1>6
  <2>. QED BY <2>1, <2>2, <2>3 DEF RequestOK, Shaped
<1>11. TrafficOK'
  BY <1>3, <1>7, <1>10, Sending DEF Consistent
<1>. QED BY <1>8, <1>9, <1>11 DEF Consistent

-----------------------------------------------------------------------------
(* Requests served and answers heard.                                      *)

LEMMA MinIn ==
  ASSUME NEW n \in Nat, NEW S, S \subseteq 1 .. n, S # {}
  PROVE  Min(S) \in S
<1> DEFINE T == {n - x : x \in S}
<1>1. T \subseteq 0 .. n /\ T # {}
  <2>1. \A x \in 1 .. n : n - x \in 0 .. n
    OBVIOUS
  <2>2. \A x \in S : n - x \in 0 .. n
    BY <2>1
  <2>. QED BY <2>2
<1>2. IsFiniteSet(T)
  <2>1. IsFiniteSet(0 .. n)
    BY FS_Interval
  <2>. QED BY <1>1, <2>1, FS_Subset
<1>3. PICK m \in T : \A y \in T : m >= y
  <2>1. T \subseteq Int
    BY <1>1
  <2> HIDE DEF T
  <2>. QED BY <1>1, <1>2, <2>1, MaxExists
<1>4. PICK x \in S : m = n - x
  BY <1>3
<1>5. ASSUME NEW y \in S PROVE x <= y
  <2>1. n - y \in T
    OBVIOUS
  <2>2. n - x >= n - y
    BY <1>3, <1>4, <2>1
  <2>3. x \in Int /\ y \in Int
    OBVIOUS
  <2> HIDE DEF T
  <2>. QED BY <2>2, <2>3
<1>. QED BY <1>5 DEF Min

\* A request is served: what the server did stands, and the answer is sound.
LEMMA ServeKeeps ==
  ASSUME Consistent, NEW r \in DOMAIN requests, ~r.served,
         \/ ServeLogin(r) \/ ServeShifts(r) \/ ServeOpen(r) \/ ServeClose(r)
         \/ ServeCheckout(r) \/ ServeReturn(r)
  PROVE  Consistent'
<1>1. RequestOK(r) /\ Shaped(r) /\ r.user \in Users /\ r.cash \in Nat
  BY DEF Consistent, TrafficOK, RequestOK, Shaped
<1>2. UNCHANGED till /\ UNCHANGED drawn
  BY DEF ServeLogin, ServeShifts, ServeOpen, ServeClose, ServeCheckout, ServeReturn, till
<1>3. shifts \in Seq(Shop!ShiftRow) /\ Len(shifts) \in Nat /\ DOMAIN shifts = 1 .. Len(shifts)
  BY DEF Consistent, ServerOK
<1>4. \E reply :
        /\ Serve(r, reply) /\ ServerOK' /\ Grows
        /\ r.kind \in {"shifts", "open", "close"} => reply \in DOMAIN shifts' \cup {None, Refused}
        /\ r.kind = "checkout" /\ reply # Refused =>
             reply \in DOMAIN sales' /\ sales'[reply].key = r.key
        /\ r.kind = "login" => reply \in Users
  <2>0. CASE ServeLogin(r)
    <3>1. r.kind = "login" /\ Serve(r, r.user) /\ UNCHANGED server
      BY <2>0 DEF ServeLogin
    <3>2. ServerOK' /\ Grows
      BY <1>2, <3>1, Alone DEF Consistent
    <3>. QED BY <1>1, <3>1, <3>2
  <2>1. CASE ServeShifts(r)
    <3> DEFINE mine == {s \in DOMAIN shifts : shifts[s].user = r.user /\ shifts[s].open}
    <3>1. PICK reply \in {None, IF mine = {} THEN None ELSE Min(mine)} :
            r.kind = "shifts" /\ Serve(r, reply) /\ UNCHANGED server
      BY <2>1 DEF ServeShifts
    <3>2. reply \in DOMAIN shifts \cup {None}
      BY <1>3, <3>1, MinIn
    <3> HIDE DEF mine
    <3>3. ServerOK' /\ Grows
      BY <1>2, <3>1, Alone DEF Consistent
    <3>. QED BY <3>1, <3>2, <3>3 DEF server
  <2>2. CASE ServeOpen(r)
    <3>1. CASE Shop!HasOpenShift(r.user)
      <4>1. r.kind = "open" /\ Serve(r, Refused) /\ UNCHANGED server
        BY <2>2, <3>1 DEF ServeOpen
      <4>2. ServerOK' /\ Grows
        BY <1>2, <4>1, Alone DEF Consistent
      <4>. QED BY <4>1, <4>2
    <3>2. CASE ~Shop!HasOpenShift(r.user)
      <4>1. r.kind = "open" /\ Shop!OpenShift(r.user, Location, r.cash) /\ Serve(r, Len(shifts) + 1)
        BY <2>2, <3>2 DEF ServeOpen
      <4>2. ServerOK' /\ Grows /\ Len(shifts) + 1 \in DOMAIN shifts'
        BY <1>1, <1>2, <4>1, OpenShifts DEF Consistent
      <4>. QED BY <4>1, <4>2
    <3>. QED BY <3>1, <3>2
  <2>3. CASE ServeClose(r)
    <3>1. CASE Shop!OpenShiftOf(r.user, r.shift)
      <4>1. r.kind = "close" /\ Shop!CloseShift(r.user, r.shift, r.cash) /\ Serve(r, None)
        BY <2>3, <3>1 DEF ServeClose
      <4>2. ServerOK' /\ Grows
        BY <1>1, <1>2, <4>1, CloseShifts DEF Consistent
      <4>. QED BY <4>1, <4>2
    <3>2. CASE ~Shop!OpenShiftOf(r.user, r.shift)
      <4>1. /\ r.kind = "close" /\ Serve(r, IF shifts[r.shift].user = r.user THEN None ELSE Refused)
            /\ UNCHANGED server
        BY <2>3, <3>2 DEF ServeClose
      <4>2. ServerOK' /\ Grows
        BY <1>2, <4>1, Alone DEF Consistent
      <4>. QED BY <4>1, <4>2
    <3>. QED BY <3>1, <3>2
  <2>4. CASE ServeCheckout(r)
    <3>1. /\ r.kind = "checkout" /\ Shop!Checkout(r.user, r.key, r.shift, r.cart)
          /\ Serve(r, IF answer'.sale = None THEN Refused ELSE answer'.sale)
      BY <2>4 DEF ServeCheckout
    <3>2. /\ ServerOK' /\ Grows
          /\ answer'.sale # None => answer'.sale \in DOMAIN sales' /\ sales'[answer'.sale].key = r.key
      BY <1>1, <1>2, <3>1, Checkouts DEF Consistent
    <3>. QED BY <3>1, <3>2
  <2>5. CASE ServeReturn(r)
    <3> DEFINE rows == <<[item |-> 1, quantity |-> 1]>>
    <3>1. CASE Shop!Returnable(r.sale, rows)
      <4>1. r.kind = "return" /\ Shop!ReturnSale(r.sale, rows) /\ Serve(r, None)
        BY <2>5, <3>1 DEF ServeReturn
      <4>2. ServerOK' /\ Grows
        BY <1>2, <4>1, Returns DEF Consistent
      <4>. QED BY <4>1, <4>2
    <3>2. CASE ~Shop!Returnable(r.sale, rows)
      <4>1. r.kind = "return" /\ Serve(r, Refused) /\ UNCHANGED server
        BY <2>5, <3>2 DEF ServeReturn
      <4>2. ServerOK' /\ Grows
        BY <1>2, <4>1, Alone DEF Consistent
      <4>. QED BY <4>1, <4>2
    <3>. QED BY <3>1, <3>2
  <2>. QED BY <2>0, <2>1, <2>2, <2>3, <2>4, <2>5
<1>5. PICK reply :
        /\ Serve(r, reply) /\ ServerOK' /\ Grows
        /\ r.kind \in {"shifts", "open", "close"} => reply \in DOMAIN shifts' \cup {None, Refused}
        /\ r.kind = "checkout" /\ reply # Refused =>
             reply \in DOMAIN sales' /\ sales'[reply].key = r.key
        /\ r.kind = "login" => reply \in Users
  BY <1>4
<1>6. ASSUME ~r.gone PROVE RequestOK(Told(r, reply))'
  <2>1. PICK a : a = Told(r, reply)
    OBVIOUS
  <2>2. /\ Shaped(a) /\ a.served = TRUE /\ a.reply = reply /\ ~a.gone
        /\ a.kind = r.kind /\ a.key = r.key /\ a.cart = r.cart
    BY <1>1, <1>6, <2>1 DEF Shaped, Told
  <2>3. RequestOK(r)'
    BY <1>1, <1>5, RequestKept
  <2>4. RequestOK(a)'
    BY <1>5, <2>2, <2>3 DEF RequestOK, Shaped
  <2>. QED BY <2>1, <2>4
<1>7. TrafficOK'
  BY <1>5, <1>6, Serving DEF Consistent
<1>8. PageOK'
  BY <1>2, <1>5, PageStands DEF Consistent
<1>. QED BY <1>5, <1>7, <1>8 DEF Consistent

LEMMA HearKeeps ==
  ASSUME Consistent, NEW r \in DOMAIN requests, HearShift(r) \/ HearCheckout(r) \/ HearReturn(r) \/ Lose(r)
  PROVE  Consistent'
<1>1. requests' = Without(r) /\ UNCHANGED <<server, drawn, token>>
  BY DEF HearShift, HearCheckout, HearReturn, Lose, Hear, till
<1>2. ServerOK' /\ Grows
  BY <1>1, Alone DEF Consistent
<1>3. TrafficOK'
  BY <1>1, <1>2, Hearing DEF Consistent
<1>4. RequestOK(r) /\ PageOK
  BY DEF Consistent, TrafficOK
<1>5. PageOK'
  <2>1. CASE HearShift(r)
    <3>1. /\ UNCHANGED <<token, cart, lastSale, basket, drawn, server>>
          /\ shift' \in DOMAIN shifts \cup {None}
      BY <1>4, <2>1 DEF HearShift, Hear, RequestOK, PageOK
    <3>. QED BY <1>4, <3>1 DEF PageOK, OneLineEach, server
  <2>2. CASE HearCheckout(r)
    <3>1. /\ UNCHANGED <<token, shift, drawn, server>>
          /\ lastSale' \in DOMAIN sales \cup {None}
          /\ Empties \/ UNCHANGED <<cart, basket>>
      BY <1>4, <2>2 DEF HearCheckout, Hear, RequestOK, PageOK
    <3>2. /\ cart' \in Seq(LinesUpTo(1)) /\ OneLineEach(cart') /\ basket' \in 0 .. Len(drawn')
      <4>1. CASE Empties
        BY <1>4, <3>1, <4>1, EmptiesPage
      <4>2. CASE UNCHANGED <<cart, basket>>
        BY <1>4, <3>1, <4>2 DEF PageOK, OneLineEach
      <4>. QED BY <3>1, <4>1, <4>2
    <3>. QED BY <1>4, <3>1, <3>2 DEF PageOK, server
  <2>3. CASE UNCHANGED till
    BY <1>2, <1>4, <2>3, PageStands
  <2>. QED BY <2>1, <2>2, <2>3 DEF HearReturn, Lose
<1>. QED BY <1>2, <1>3, <1>5 DEF Consistent

\* The answer to a sign-in is followed by a request for the shifts.
LEMMA HearLoginKeeps ==
  ASSUME Consistent, NEW r \in DOMAIN requests, HearLogin(r)
  PROVE  Consistent'
<1>1. UNCHANGED <<server, shift, cart, lastSale, basket, drawn>> /\ token' = r.reply
  BY DEF HearLogin
<1>2. ServerOK' /\ Grows
  BY <1>1, Alone DEF Consistent
<1>3. r.reply \in Users
  BY DEF Consistent, TrafficOK, RequestOK, HearLogin
<1>4. PageOK'
  BY <1>1, <1>2, <1>3 DEF Consistent, PageOK, server, OneLineEach
<1>5. CASE token = r.reply
  <2>1. TrafficOK'
    BY <1>2, <1>5, Hearing DEF Consistent, HearLogin
  <2>. QED BY <1>2, <1>4, <2>1 DEF Consistent
<1>6. CASE token # r.reply
  <2>1. PICK a : a = [Blank EXCEPT !.user = r.reply]
    OBVIOUS
  <2>2. RequestOK(a)'
    BY <1>3, <2>1, Asked, AskedOK
  <2>3. PICK B : B = Without(r) /\ requests' = B (+) SetToBag({a})
    BY <1>6, <2>1 DEF HearLogin
  <2>4. IsABag(B) /\ IsFiniteSet(DOMAIN B) /\ DOMAIN B \subseteq DOMAIN requests
    BY <2>3, BagWithout DEF Consistent, TrafficOK, Without
  <2>5. /\ IsABag(requests') /\ IsFiniteSet(DOMAIN requests')
        /\ DOMAIN requests' = DOMAIN B \cup {a}
    BY <2>3, <2>4, BagSent
  <2>6. TrafficOK'
    BY <1>2, <2>2, <2>4, <2>5, RequestKept DEF Consistent, TrafficOK
  <2>. QED BY <1>2, <1>4, <2>6 DEF Consistent
<1>. QED BY <1>5, <1>6

-----------------------------------------------------------------------------
(* The theorems.                                                           *)

LEMMA InitConsistent == Init => Consistent
<1> SUFFICES ASSUME Init PROVE Consistent
  OBVIOUS
<1>1. /\ catalog \in Catalogs /\ shifts = <<>> /\ sales = <<>> /\ drawn = <<>> /\ cart = <<>>
      /\ token = None /\ shift = None /\ lastSale = None /\ basket = 0
      /\ idem = [k \in Keys |-> None]
  BY DEF Init, Shop!Init
<1>2. ServerOK
  BY <1>1 DEF ServerOK, IsSeq, ChargedAsShown
<1>3. PageOK
  BY <1>1, BoundAssumption DEF PageOK, OneLineEach
<1>4. TrafficOK
  <2>1. requests = SetToBag({})
    BY DEF Init, EmptyBag
  <2>2. IsABag(requests) /\ DOMAIN requests = {}
    BY <2>1 DEF IsABag, SetToBag
  <2>. QED BY <2>2, FS_EmptySet DEF TrafficOK
<1>. QED BY <1>2, <1>3, <1>4 DEF Consistent

LEMMA StutterKeeps ==
  ASSUME Consistent, UNCHANGED <<till, requests, shifts, sales, idem>>, catalog' \in Catalogs
  PROVE  Consistent'
<1>1. ServerOK' /\ Grows
  BY ServerStands DEF Consistent, till
<1>2. PageOK'
  BY <1>1, PageStands DEF Consistent
<1>3. TrafficOK'
  BY <1>1, RequestKept DEF Consistent, TrafficOK
<1>. QED BY <1>1, <1>2, <1>3 DEF Consistent

LEMMA NextConsistent == Consistent /\ [Next]_vars => Consistent'
<1> SUFFICES ASSUME Consistent, [Next]_vars PROVE Consistent'
  OBVIOUS
<1>1. ASSUME NEW u \in Users, ClickLogin(u) PROVE Consistent'
  BY <1>1, LoginKeeps
<1>2. CASE Reload \/ Logout
  BY <1>2, ReloadKeeps, LogoutKeeps
<1>3. ASSUME NEW cash \in Floats, ClickOpenShift(cash) \/ ClickCloseShift(cash) PROVE Consistent'
  BY <1>3, ClicksKeep, FloatAssumption
<1>4. ASSUME NEW p \in Products, Add(p) \/ TakeOut(p) PROVE Consistent'
  BY <1>4, AddKeeps, TakeOutKeeps
<1>5. ASSUME NEW wholesale \in BOOLEAN, ClickCheckout(wholesale) PROVE Consistent'
  BY <1>5, CheckoutKeeps
<1>6. ASSUME NEW sale, ClickReturn(sale) PROVE Consistent'
  BY <1>6, ClicksKeep
<1>7. ASSUME NEW r \in DOMAIN requests, Answers(r) PROVE Consistent'
  BY <1>7, ServeKeeps, HearLoginKeeps, HearKeeps DEF Answers
<1>8. CASE EditCatalog
  BY <1>8, StutterKeeps DEF EditCatalog, Shop!EditCatalog
<1>9. CASE UNCHANGED vars
  BY <1>9, StutterKeeps DEF vars, server, Consistent, ServerOK
<1>. QED BY <1>1, <1>2, <1>3, <1>4, <1>5, <1>6, <1>7, <1>8, <1>9 DEF Next, Click, BagToSet

\* Whatever is clicked, served, heard, lost and loaded anew in whatever order,
\* what the page shows, what is under way and what the server has fit together.
THEOREM ConsistencyInvariant == Spec => []Consistent
BY InitConsistent, NextConsistent, PTL DEF Spec

\* The page shows shifts and sales that exist, one line for each product, and
\* prices that once were.
THEOREM TypeCorrect == Spec => []TypeOK
<1>1. Consistent => TypeOK
  <2> SUFFICES ASSUME Consistent PROVE TypeOK
    OBVIOUS
  <2>1. ASSUME NEW n \in DOMAIN cart
        PROVE  /\ cart[n].quantity \in 1 .. MaxQuantity
               /\ \E c \in Catalogs : cart[n].retail = c[cart[n].product].retail
               /\ LineOf(cart[n].product) = {n}
    <3>1. cart[n] \in LinesUpTo(1)
      BY DEF Consistent, PageOK
    <3>2. LineOf(cart[n].product) = {n}
      BY DEF LineOf, Consistent, PageOK, OneLineEach
    <3>. QED BY <3>1, <3>2 DEF LinesUpTo
  <2>2. \A k \in DOMAIN drawn : drawn[k].basket < k /\ drawn[k].total \in Nat
    <3> DEFINE R == [basket: Nat, total: Nat]
    <3>1. drawn \in Seq(R) /\ \A l \in R : l.total \in Nat
      BY DEF Consistent, PageOK
    <3> HIDE DEF R
    <3>2. \A k \in DOMAIN drawn : drawn[k] \in R
      BY <3>1
    <3>. QED BY <3>1, <3>2 DEF Consistent, PageOK
  <2>. QED BY <2>1, <2>2 DEF TypeOK, Consistent, PageOK, TrafficOK, RequestOK, BagToSet
<1>. QED BY <1>1, ConsistencyInvariant, PTL

\* Every sale costs what the screen showed when it was clicked for.
THEOREM PaidAsShown == Spec => []ChargedAsShown
<1>1. Consistent => ChargedAsShown
  BY DEF Consistent, ServerOK
<1>. QED BY <1>1, ConsistencyInvariant, PTL

\* The requests a loaded page finds under way are not those it would find had
\* it heard an answer: one that it asks anew was there before, and then it has
\* one copy more that is gone.
LEMMA ReloadHearsNothing ==
  ASSUME Consistent, Reload, NEW r \in DOMAIN requests, requests' = Without(r)
  PROVE  FALSE
<1>1. TrafficOK /\ token \in Users /\ IsABag(requests) /\ IsFiniteSet(DOMAIN requests)
  BY DEF Consistent, PageOK, TrafficOK, Reload
<1>2. PICK n, B, C :
        /\ n = [Blank EXCEPT !.user = token] /\ IsABag(B) /\ IsFiniteSet(DOMAIN B)
        /\ DOMAIN B = {d \in DOMAIN requests : ~d.served}
        /\ \A d \in DOMAIN B : B[d] = requests[d]
        /\ C = BagOfAll(Gone, B) /\ requests' = C (+) SetToBag({n})
        /\ DOMAIN requests' = {Gone(d) : d \in DOMAIN B} \cup {n}
  BY <1>1, Reloaded
<1>3. Shaped(n) /\ ~n.served /\ ~n.gone
  BY <1>1, <1>2, Asked
<1>4. /\ DOMAIN requests' \subseteq DOMAIN requests
      /\ \A e \in DOMAIN requests' : requests'[e] <= requests[e]
  BY <1>1, BagWithout DEF Without
<1>5. n \in DOMAIN B /\ \A d \in DOMAIN B : B[d] \in Nat /\ B[d] > 0
  BY <1>2, <1>3, <1>4 DEF IsABag
<1>6. PICK g : g = Gone(n) /\ g.gone = TRUE /\ ~g.served /\ Gone(g) = g
  <2>1. PICK g : g = Gone(n)
    OBVIOUS
  <2>2. Shaped(g) /\ g.gone = TRUE /\ g.served = n.served
    BY <1>3, <2>1, GoneIs
  <2>3. Gone(g) = g
    BY <2>2, GoneIs
  <2>. QED BY <1>3, <2>1, <2>2, <2>3
<1>7. g # n
  BY <1>3, <1>6
<1>8. /\ g \in DOMAIN C /\ C[g] \in Nat
      /\ g \in DOMAIN B => C[g] >= B[n] + B[g]
  <2>1. IsABag(C) /\ g \in DOMAIN C /\ (g \in DOMAIN B => C[g] >= B[n] + B[g])
    BY <1>2, <1>5, <1>6, <1>7, GoneBag
  <2>. QED BY <2>1 DEF IsABag
<1>9. g \in DOMAIN requests' /\ requests'[g] = C[g]
  <2>1. PICK sent : sent = C (+) SetToBag({n})
    OBVIOUS
  <2>2. g \in DOMAIN sent /\ sent[g] = C[g]
    BY <1>7, <1>8, <2>1, SentBeside
  <2>3. requests' = sent
    BY <1>2, <2>1
  <2>. QED BY <2>2, <2>3
<1>10. g \in DOMAIN B /\ requests[g] = B[g]
  BY <1>2, <1>4, <1>6, <1>9
<1>11. C[g] <= B[g]
  BY <1>4, <1>9, <1>10
<1>12. B[n] \in Nat /\ B[n] > 0 /\ B[g] \in Nat /\ C[g] >= B[n] + B[g]
  BY <1>5, <1>8, <1>10
<1>. QED BY <1>8, <1>11, <1>12

\* The cart goes only with a sale of the key that was sent.
THEOREM CartGoesWithItsSale == Spec => CartLeavesWithASale
<1> DEFINE Leaves == \A r \in BagToSet(requests) : requests' = Without(r) /\ cart' # cart
                       => lastSale' \in DOMAIN sales /\ sales[lastSale'].key = r.key
<1>1. Consistent /\ Next => Leaves
  <2> SUFFICES ASSUME Consistent, Next, NEW r \in DOMAIN requests, requests' = Without(r), cart' # cart
               PROVE  lastSale' \in DOMAIN sales /\ sales[lastSale'].key = r.key
    BY DEF BagToSet
  <2>1. IsABag(requests) /\ IsFiniteSet(DOMAIN requests)
    BY DEF Consistent, TrafficOK
  <2>2. requests' # requests
    BY <2>1, WithoutTells DEF Without
  <2>3. ~Reload
    BY ReloadHearsNothing
  <2>4. \E s \in DOMAIN requests : HearCheckout(s)
    <3>1. ~Click
      BY <2>2, <2>3 DEF Click, ClickLogin, Logout, ClickOpenShift, ClickCloseShift, Add, TakeOut,
                        ClickCheckout, ClickReturn, till
    <3>2. ~EditCatalog
      BY <2>2 DEF EditCatalog
    <3>3. PICK s \in DOMAIN requests : Answers(s)
      BY <3>1, <3>2 DEF Next, BagToSet
    <3>4. HearCheckout(s)
      BY <3>3 DEF Answers, ServeLogin, ServeShifts, ServeOpen, ServeClose, ServeCheckout,
                  ServeReturn, HearLogin, HearShift, HearReturn, Lose, till
    <3>. QED BY <3>4
  <2>5. PICK s \in DOMAIN requests : HearCheckout(s)
    BY <2>4
  <2>6. requests' = Without(s) /\ s.served /\ s.kind = "checkout" /\ s.reply # Refused
        /\ lastSale' = s.reply
    BY <2>5 DEF HearCheckout, Hear, Sold
  <2>7. s = r
    BY <2>1, <2>6, WithoutTells DEF Without
  <2>8. RequestOK(s)
    BY DEF Consistent, TrafficOK
  <2>. QED BY <2>6, <2>7, <2>8 DEF RequestOK
<1>2. Consistent /\ [Next]_vars => [Leaves]_vars
  BY <1>1
<1>. QED BY <1>2, ConsistencyInvariant, PTL DEF Spec, CartLeavesWithASale
===============================================================================
