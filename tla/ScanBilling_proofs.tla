------------------------- MODULE ScanBilling_proofs -------------------------
(***************************************************************************)
(* Theorems about ScanBilling, for every number of scans, accounts and     *)
(* faults.  The strengthening follows one scan: while it runs and no       *)
(* deletion has touched its account, the account it looked up is still     *)
(* there (Undisturbed); and it follows the records of an account through   *)
(* the two orders in which accounts are deleted (Legacy).                  *)
(***************************************************************************)
EXTENDS ScanBilling, FiniteSetTheorems, WellFoundedInduction, TLAPS

Running(s) == pc[s] \in {"ask", "store", "charge"}

Busy(s) == pc[s] \notin {"new", "done"}

\* What the stage of a scan says about the rest of it.
Staged ==
    \A s \in Scans :
        /\ Busy(s) => scan[s].email \in Emails
        /\ charged[s] > 0 => pc[s] \in {"notify", "done"}
        /\ reply[s] /= "none" => pc[s] = "done"
        /\ s \in records => pc[s] \in {"charge", "notify", "done"}
        /\ pc[s] = "charge" => s \in records \union removed
        /\ charged[s] > 0 => s \in records \union removed
        /\ charged[s] > 0 => reply[s] \in {"none", "completed"}
        /\ pc[s] = "notify" \/ reply[s] = "completed" =>
                charged[s] > 0 \/ s \in disturbed \union uncharged

Generations == \A e \in live : account[e].generation > 0

\* Every account adds up, also one that was deleted.
AllAddUp ==
    \A e \in Emails :
        /\ account[e].remaining + account[e].used = FreeTokens + account[e].bought
        /\ account[e].wallet = account[e].remaining - FreeTokens

Undisturbed ==
    \A s \in Scans : Busy(s) =>
        /\ BeingDeleted(scan[s].email) => s \in disturbed
        /\ Running(s) /\ s \notin disturbed =>
                /\ scan[s].email \in live
                /\ scan[s].generation = account[scan[s].email].generation

Legacy ==
    \A s \in records :
        LET e == scan[s].email IN
        /\ <<"user", e>> \in deleting => s \in disturbed
        /\ e \notin live \/ scan[s].generation /= account[e].generation =>
                s \in disturbed \/ <<"admin", e>> \in deleting \/ e \in interrupted

-----------------------------------------------------------------------------
(* What a charge and a purchase make of an account.                        *)

AfterCharge(a, c) ==
    [generation |-> a.generation, remaining |-> a.remaining - c,
     used |-> a.used + c, wallet |-> a.wallet - c, bought |-> a.bought]

AfterPurchase(a, n) ==
    [generation |-> a.generation, remaining |-> a.remaining + n,
     used |-> a.used, wallet |-> a.wallet + n, bought |-> a.bought + n]

LEMMA ChargeEffect ==
    ASSUME TypeOK, NEW s \in Scans, ChargeUser(s), scan[s].email \in live
    PROVE  LET e == scan[s].email IN
           /\ account' = [account EXCEPT ![e] = AfterCharge(account[e], scan[s].cost)]
           /\ AfterCharge(account[e], scan[s].cost) \in Account
           /\ charged' = [charged EXCEPT ![s] = account[e].generation]
<1> DEFINE e == scan[s].email
           c == scan[s].cost
           a == account[e]
           r == a.remaining - c
           u == a.used + c
           w == a.wallet - c
           x == [a EXCEPT !.remaining = r, !.used = u, !.wallet = w]
<1>1. e \in Emails /\ a \in Account /\ c \in Nat
  BY DEF TypeOK, Scan
<1>2. /\ account' = [account EXCEPT ![e] = x]
      /\ charged' = [charged EXCEPT ![s] = a.generation]
  BY <1>1 DEF ChargeUser, TypeOK
<1>3. x = AfterCharge(a, c)
  <2> DEFINE y == [generation |-> a.generation, remaining |-> r, used |-> a.used,
                   wallet |-> a.wallet, bought |-> a.bought]
             z == [generation |-> a.generation, remaining |-> r, used |-> u,
                   wallet |-> a.wallet, bought |-> a.bought]
  <2> HIDE DEF a, r, u, w
  <2>1. a = [generation |-> a.generation, remaining |-> a.remaining,
             used |-> a.used, wallet |-> a.wallet, bought |-> a.bought]
    BY <1>1 DEF Account
  <2>2. [a EXCEPT !.remaining = r] = y
    BY <2>1
  <2>3. [y EXCEPT !.used = u] = z
    OBVIOUS
  <2>4. [z EXCEPT !.wallet = w]
        = [generation |-> a.generation, remaining |-> r, used |-> u,
           wallet |-> w, bought |-> a.bought]
    OBVIOUS
  <2> HIDE DEF y, z
  <2>5. x = [generation |-> a.generation, remaining |-> r, used |-> u,
             wallet |-> w, bought |-> a.bought]
    BY <2>2, <2>3, <2>4
  <2> QED
    BY <2>5 DEF AfterCharge, r, u, w
<1>4. AfterCharge(a, c) \in Account
  <2> HIDE DEF a, c
  <2> QED
    BY <1>1 DEF AfterCharge, Account
<1> HIDE DEF x
<1> QED
  BY <1>2, <1>3, <1>4

LEMMA PurchaseEffect ==
    ASSUME TypeOK, NEW e \in Emails, NEW n \in PlanTokens, CreditTokens(e, n)
    PROVE  /\ account' = [account EXCEPT ![e] = AfterPurchase(account[e], n)]
           /\ AfterPurchase(account[e], n) \in Account
<1> DEFINE a == account[e]
           r == a.remaining + n
           w == a.wallet + n
           b == a.bought + n
           x == [a EXCEPT !.remaining = r, !.wallet = w, !.bought = b]
<1>1. a \in Account /\ n \in Nat
  BY ScanAssumption DEF TypeOK
<1>2. account' = [account EXCEPT ![e] = x]
  BY <1>1 DEF CreditTokens, TypeOK
<1>3. x = AfterPurchase(a, n)
  <2> DEFINE y == [generation |-> a.generation, remaining |-> r, used |-> a.used,
                   wallet |-> a.wallet, bought |-> a.bought]
             z == [generation |-> a.generation, remaining |-> r, used |-> a.used,
                   wallet |-> w, bought |-> a.bought]
  <2> HIDE DEF a, r, w, b
  <2>1. a = [generation |-> a.generation, remaining |-> a.remaining,
             used |-> a.used, wallet |-> a.wallet, bought |-> a.bought]
    BY <1>1 DEF Account
  <2>2. [a EXCEPT !.remaining = r] = y
    BY <2>1
  <2>3. [y EXCEPT !.wallet = w] = z
    OBVIOUS
  <2>4. [z EXCEPT !.bought = b]
        = [generation |-> a.generation, remaining |-> r, used |-> a.used,
           wallet |-> w, bought |-> b]
    OBVIOUS
  <2> HIDE DEF y, z
  <2>5. x = [generation |-> a.generation, remaining |-> r, used |-> a.used,
             wallet |-> w, bought |-> b]
    BY <2>2, <2>3, <2>4
  <2> QED
    BY <2>5 DEF AfterPurchase, r, w, b
<1>4. AfterPurchase(a, n) \in Account
  <2> HIDE DEF a
  <2> QED
    BY <1>1 DEF AfterPurchase, Account
<1> HIDE DEF x
<1> QED
  BY <1>2, <1>3, <1>4

-----------------------------------------------------------------------------
(* What scans have cost together.  The sum of UsedIsCharged is a recursive  *)
(* function over the subsets of a finite set, and every law of it is proved *)
(* on a smallest set that would break it.                                   *)

\* The sum that UsedIsCharged speaks of, for the scans W as they stand in f.
Spent(f, W) == MapThenSumSet(LAMBDA s : f[s].cost, W)

First(T) == CHOOSE x \in T : TRUE

\* One unrolling of that sum: g gives the sum of every subset of W.
Unrolled(f, W, g) ==
    [T \in SUBSET W |->
        IF T = {} THEN 0 ELSE f[First(T)].cost + g[T \ {First(T)}]]

Unrolls(f, W, g) == g = Unrolled(f, W, g)

Sums(f, W) == CHOOSE g : Unrolls(f, W, g)

LEMMA SpentIsUnrolled ==
    ASSUME NEW f, NEW W
    PROVE  Spent(f, W) = Sums(f, W)[W]
BY DEF Spent, MapThenSumSet, MapThenFoldSet, Sums, Unrolls, Unrolled, First

LEMMA FirstIn == ASSUME NEW T, T /= {} PROVE First(T) \in T
BY DEF First

\* A set of subsets of a finite set has a minimal element.
LEMMA MinimalSubset ==
    ASSUME NEW W, IsFiniteSet(W), NEW B \in SUBSET SUBSET W, B /= {}
    PROVE  \E T \in B : \A U \in B : U \subseteq T => U = T
<1>1. IsWellFoundedOn(StrictSubsetOrdering(W), SUBSET W)
  BY FS_StrictSubsetOrderingWellFounded, FS_FiniteSubsetsOfFinite
<1>2. PICK T \in B : \A U \in B : ~ (<<U, T>> \in StrictSubsetOrdering(W))
  BY <1>1, WFMin
<1>3. ASSUME NEW U \in B, U \subseteq T PROVE U = T
  BY <1>2, <1>3 DEF StrictSubsetOrdering
<1> QED
  BY <1>3

LEMMA UnrollAt ==
    ASSUME NEW f, NEW W, NEW g, Unrolls(f, W, g), NEW T \in SUBSET W
    PROVE  g[T] = IF T = {} THEN 0 ELSE f[First(T)].cost + g[T \ {First(T)}]
<1> DEFINE h == Unrolled(f, W, g)
<1>1. h[T] = IF T = {} THEN 0 ELSE f[First(T)].cost + g[T \ {First(T)}]
  BY DEF Unrolled
<1>2. g = h
  BY DEF Unrolls
<1> HIDE DEF h
<1> QED
  BY <1>1, <1>2

\* Two unrollings agree on the sets they share.
LEMMA UnrollsAgree ==
    ASSUME NEW f, NEW V, NEW W, IsFiniteSet(W), V \subseteq W,
           NEW g, Unrolls(f, V, g), NEW h, Unrolls(f, W, h),
           NEW T \in SUBSET V
    PROVE  g[T] = h[T]
<1> DEFINE B == {U \in SUBSET V : g[U] /= h[U]}
<1>1. SUFFICES ASSUME B /= {} PROVE FALSE
  OBVIOUS
<1>2. B \in SUBSET SUBSET W
  OBVIOUS
<1>3. PICK U \in B : \A X \in B : X \subseteq U => X = U
  <2> HIDE DEF B
  <2> QED
    BY <1>1, <1>2, MinimalSubset
<1>4. /\ g[U] = IF U = {} THEN 0 ELSE f[First(U)].cost + g[U \ {First(U)}]
      /\ h[U] = IF U = {} THEN 0 ELSE f[First(U)].cost + h[U \ {First(U)}]
  <2>1. U \in SUBSET V /\ U \in SUBSET W
    BY <1>2
  <2> HIDE DEF B
  <2>2. g[U] = IF U = {} THEN 0 ELSE f[First(U)].cost + g[U \ {First(U)}]
    BY <2>1, UnrollAt, SMTT(30)
  <2>3. h[U] = IF U = {} THEN 0 ELSE f[First(U)].cost + h[U \ {First(U)}]
    BY <2>1, UnrollAt, SMTT(30)
  <2> QED
    BY <2>2, <2>3
<1>5. U /= {}
  BY <1>4
<1>6. U \ {First(U)} \notin B
  BY <1>3, <1>5, FirstIn
<1> QED
  BY <1>4, <1>6

LEMMA UnrollExists ==
    ASSUME NEW f, NEW W, IsFiniteSet(W)
    PROVE  \E g : Unrolls(f, W, g)
<1> DEFINE B == {T \in SUBSET W : ~ \E g : Unrolls(f, T, g)}
<1>1. SUFFICES ASSUME B /= {} PROVE FALSE
  OBVIOUS
<1>2. PICK T \in B : \A X \in B : X \subseteq T => X = T
  <2>1. B \in SUBSET SUBSET W
    OBVIOUS
  <2> HIDE DEF B
  <2> QED
    BY <1>1, <2>1, MinimalSubset
<1> DEFINE v(U) == Sums(f, U)[U]
           G == [U \in SUBSET T |->
                    IF U = {} THEN 0 ELSE f[First(U)].cost + v(U \ {First(U)})]
<1>3. ASSUME NEW U \in SUBSET T, U /= T PROVE Unrolls(f, U, Sums(f, U))
  <2>1. \E g : Unrolls(f, U, g)
    BY <1>2, <1>3
  <2> QED
    BY <2>1 DEF Sums
<1>4. ASSUME NEW U \in SUBSET T, U /= T PROVE v(U) = G[U]
  <2> DEFINE F == U \ {First(U)}
  <2>1. v(U) = IF U = {} THEN 0 ELSE f[First(U)].cost + Sums(f, U)[F]
    BY <1>3, <1>4, UnrollAt
  <2>2. CASE U = {}
    BY <2>1, <2>2
  <2>3. CASE U /= {}
    <3>1. F \in SUBSET U /\ F \in SUBSET T /\ F /= T
      BY <1>4, <2>3, FirstIn
    <3>2. IsFiniteSet(U)
      BY FS_Subset
    <3>3. Sums(f, F)[F] = Sums(f, U)[F]
      <4>1. Unrolls(f, F, Sums(f, F)) /\ Unrolls(f, U, Sums(f, U))
        BY <1>3, <1>4, <3>1
      <4> HIDE DEF F
      <4> QED
        BY <3>1, <3>2, <4>1, UnrollsAgree
    <3> QED
      BY <2>1, <2>3, <3>3
  <2> QED
    BY <2>2, <2>3
<1>5. ASSUME NEW U \in SUBSET T, U /= {} PROVE G[U \ {First(U)}] = v(U \ {First(U)})
  <2>1. U \ {First(U)} \in SUBSET T /\ U \ {First(U)} /= T
    BY <1>5, FirstIn
  <2> HIDE DEF G, v
  <2> QED
    BY <1>4, <2>1
<1>6. G = Unrolled(f, T, G)
  <2> DEFINE H == Unrolled(f, T, G)
  <2>1. ASSUME NEW U \in SUBSET T PROVE G[U] = H[U]
    BY <1>5 DEF Unrolled
  <2>2. G = [U \in SUBSET T |-> G[U]]
    OBVIOUS
  <2>3. H = [U \in SUBSET T |-> H[U]]
    BY DEF Unrolled
  <2>4. [U \in SUBSET T |-> G[U]] = [U \in SUBSET T |-> H[U]]
    <3> HIDE DEF G, H
    <3> QED
      BY <2>1
  <2> HIDE DEF G, H
  <2>5. G = H
    BY <2>2, <2>3, <2>4
  <2> QED
    BY <2>5 DEF H
<1>7. Unrolls(f, T, G)
  BY <1>6 DEF Unrolls
<1> QED
  BY <1>2, <1>7

\* The sum over a finite set, one scan at a time.
LEMMA SpentUnrolls ==
    ASSUME NEW f, NEW W, IsFiniteSet(W)
    PROVE  Spent(f, W) = IF W = {} THEN 0
                         ELSE f[First(W)].cost + Spent(f, W \ {First(W)})
<1> DEFINE F == W \ {First(W)}
<1>1. IsFiniteSet(F) /\ F \subseteq W
  BY FS_Subset
<1>2. Unrolls(f, W, Sums(f, W)) /\ Unrolls(f, F, Sums(f, F))
  BY <1>1, UnrollExists DEF Sums
<1>3. Sums(f, F)[F] = Sums(f, W)[F]
  <2> HIDE DEF F
  <2> QED
    BY <1>1, <1>2, UnrollsAgree
<1>4. Spent(f, W) = IF W = {} THEN 0 ELSE f[First(W)].cost + Sums(f, W)[F]
  <2>1. W \in SUBSET W
    OBVIOUS
  <2> DEFINE g == Sums(f, W)
  <2>2. Unrolls(f, W, g)
    BY <1>2
  <2> HIDE DEF g
  <2>3. g[W] = IF W = {} THEN 0 ELSE f[First(W)].cost + g[W \ {First(W)}]
    BY <2>1, <2>2, UnrollAt
  <2> QED
    BY <2>3, SpentIsUnrolled DEF g
<1>5. Spent(f, F) = Sums(f, F)[F]
  BY SpentIsUnrolled
<1> QED
  BY <1>3, <1>4, <1>5

LEMMA SpentType ==
    ASSUME NEW f, NEW W, IsFiniteSet(W), \A s \in W : f[s].cost \in Int
    PROVE  Spent(f, W) \in Int
<1> DEFINE B == {T \in SUBSET W : Spent(f, T) \notin Int}
<1>1. SUFFICES ASSUME B /= {} PROVE FALSE
  OBVIOUS
<1>2. PICK T \in B : \A X \in B : X \subseteq T => X = T
  <2>1. B \in SUBSET SUBSET W
    OBVIOUS
  <2> HIDE DEF B
  <2> QED
    BY <1>1, <2>1, MinimalSubset
<1>3. IsFiniteSet(T)
  BY FS_Subset
<1>4. Spent(f, T) = IF T = {} THEN 0 ELSE f[First(T)].cost + Spent(f, T \ {First(T)})
  BY <1>3, SpentUnrolls
<1>5. T /= {}
  BY <1>4
<1>6. Spent(f, T \ {First(T)}) \in Int /\ f[First(T)].cost \in Int
  BY <1>2, <1>5, FirstIn
<1> QED
  BY <1>4, <1>5, <1>6

\* Whichever scan is taken off first, the rest costs the same.
LEMMA SpentWithout ==
    ASSUME NEW f, NEW W, IsFiniteSet(W), \A s \in W : f[s].cost \in Int, NEW x \in W
    PROVE  Spent(f, W) = f[x].cost + Spent(f, W \ {x})
<1> DEFINE Splits(T, y) == Spent(f, T) = f[y].cost + Spent(f, T \ {y})
           B == {T \in SUBSET W : \E y \in T : ~ Splits(T, y)}
<1>1. SUFFICES ASSUME B /= {} PROVE FALSE
  OBVIOUS
<1>2. PICK T \in B : \A X \in B : X \subseteq T => X = T
  <2>1. B \in SUBSET SUBSET W
    OBVIOUS
  <2> HIDE DEF B
  <2> QED
    BY <1>1, <2>1, MinimalSubset
<1>3. PICK y \in T : ~ Splits(T, y)
  OBVIOUS
<1> DEFINE z == First(T)
           R == T \ {y, z}
<1>4. z \in T /\ y \in T
  BY <1>3, FirstIn
<1>5. Splits(T, z)
  BY FS_Subset, SpentUnrolls, <1>4
<1>6. y /= z
  BY <1>3, <1>5
<1>7. Splits(T \ {z}, y) /\ Splits(T \ {y}, z)
  <2>1. T \ {z} \notin B /\ T \ {y} \notin B
    BY <1>2, <1>4
  <2>2. T \ {z} \in SUBSET W /\ T \ {y} \in SUBSET W
    OBVIOUS
  <2> HIDE DEF Splits, z
  <2> QED
    BY <1>4, <1>6, <2>1, <2>2
<1>8. (T \ {z}) \ {y} = R /\ (T \ {y}) \ {z} = R
  OBVIOUS
<1>9. /\ Spent(f, T \ {z}) = f[y].cost + Spent(f, R)
      /\ Spent(f, T \ {y}) = f[z].cost + Spent(f, R)
      /\ Spent(f, T) = f[z].cost + Spent(f, T \ {z})
  BY <1>5, <1>7, <1>8
<1>10. Spent(f, R) \in Int /\ f[y].cost \in Int /\ f[z].cost \in Int
  BY <1>4, FS_Subset, SpentType
<1>11. Spent(f, T) = f[y].cost + Spent(f, T \ {y})
  <2> HIDE DEF R, z
  <2> QED
    BY <1>9, <1>10
<1> QED
  BY <1>3, <1>11

LEMMA SpentWith ==
    ASSUME NEW f, NEW W, IsFiniteSet(W), \A s \in W : f[s].cost \in Int,
           NEW x, x \notin W, f[x].cost \in Int
    PROVE  Spent(f, W \union {x}) = Spent(f, W) + f[x].cost
<1> DEFINE V == W \union {x}
<1>1. IsFiniteSet(V) /\ x \in V /\ \A s \in V : f[s].cost \in Int
  BY FS_AddElement
<1>2. V \ {x} = W
  OBVIOUS
<1>3. Spent(f, W) \in Int
  BY SpentType
<1>4. Spent(f, V) = f[x].cost + Spent(f, V \ {x})
  <2> HIDE DEF V
  <2> QED
    BY <1>1, SpentWithout
<1>5. Spent(f, V) = f[x].cost + Spent(f, W)
  BY <1>2, <1>4
<1> DEFINE a == Spent(f, W)
           c == f[x].cost
<1>6. c + a = a + c
  <2>1. a \in Int /\ c \in Int
    BY <1>3
  <2> HIDE DEF a, c
  <2> QED
    BY <2>1
<1> QED
  BY <1>5, <1>6

\* Only the costs of the scans in the set count.
LEMMA SpentSame ==
    ASSUME NEW f, NEW h, NEW W, IsFiniteSet(W), \A s \in W : f[s].cost = h[s].cost
    PROVE  Spent(f, W) = Spent(h, W)
<1> DEFINE B == {T \in SUBSET W : Spent(f, T) /= Spent(h, T)}
<1>1. SUFFICES ASSUME B /= {} PROVE FALSE
  OBVIOUS
<1>2. PICK T \in B : \A X \in B : X \subseteq T => X = T
  <2>1. B \in SUBSET SUBSET W
    OBVIOUS
  <2> HIDE DEF B
  <2> QED
    BY <1>1, <2>1, MinimalSubset
<1>3. IsFiniteSet(T)
  BY FS_Subset
<1>4. /\ Spent(f, T) = IF T = {} THEN 0 ELSE f[First(T)].cost + Spent(f, T \ {First(T)})
      /\ Spent(h, T) = IF T = {} THEN 0 ELSE h[First(T)].cost + Spent(h, T \ {First(T)})
  BY <1>3, SpentUnrolls
<1>5. T /= {}
  BY <1>4
<1>6. /\ Spent(f, T \ {First(T)}) = Spent(h, T \ {First(T)})
      /\ f[First(T)].cost = h[First(T)].cost
  BY <1>2, <1>5, FirstIn
<1> QED
  BY <1>4, <1>5, <1>6

-----------------------------------------------------------------------------
(* Types.                                                                  *)

LEMMA InitTypes == Init => TypeOK
BY ScanAssumption DEF Init, TypeOK, NewAccount, Account, Scan

LEMMA CostType == ASSUME NEW n \in Reported PROVE TokenCost(n) \in Nat
BY ScanAssumption DEF TokenCost

LEMMA TypesStep == TypeOK /\ Staged /\ [Next]_vars => TypeOK'
<1> SUFFICES ASSUME TypeOK, Staged, [Next]_vars PROVE TypeOK'
  OBVIOUS
<1> USE ScanAssumption
<1> USE DEF TypeOK, store, scans, history
<1>1. ASSUME NEW s \in Scans, ScanStep(s) PROVE TypeOK'
  <2>1. ASSUME NEW e \in Emails, ScanContent(s, e) PROVE TypeOK'
    <3>1. account[e].generation \in Nat
      BY DEF Account
    <3>2. [scan[s] EXCEPT !.email = e, !.generation = account[e].generation] \in Scan
      BY <3>1, ZenonT(60) DEF Scan
    <3>3. scan' \in [Scans -> Scan]
      BY <2>1, <3>2 DEF ScanContent
    <3> QED
      BY <2>1, <3>3 DEF ScanContent, Goto, Reply
  <2>2. CASE Investigate(s)
    <3>1. scan' \in [Scans -> Scan]
      BY <2>2, CostType DEF Investigate, Scan
    <3> QED
      BY <2>2, <3>1 DEF Investigate, Goto, Reply
  <2>3. CASE StoreScan(s)
    BY <2>3 DEF StoreScan, Goto
  <2>4. CASE ChargeUser(s)
    <3>1. scan[s].email \in Emails
      BY <2>4 DEF ChargeUser, Staged, Busy
    <3>2. account' \in [Emails -> Account] /\ charged' \in [Scans -> Nat]
      <4>1. CASE scan[s].email \in live
        <5>1. account[scan[s].email].generation \in Nat
          BY <3>1 DEF Account
        <5> QED
          BY <2>4, <3>1, <4>1, <5>1, ChargeEffect
      <4>2. CASE scan[s].email \notin live
        BY <2>4, <4>2 DEF ChargeUser
      <4> QED
        BY <4>1, <4>2
    <3> QED
      BY <2>4, <3>2 DEF ChargeUser, Goto
  <2>5. CASE NotifyComplete(s)
    BY <2>5 DEF NotifyComplete, Reply
  <2>6. CASE InsertFails(s)
    BY <2>6 DEF InsertFails, Fault, Reply
  <2>7. CASE ChargeFails(s)
    BY <2>7 DEF ChargeFails, Fault, Goto
  <2> QED
    BY <1>1, <2>1, <2>2, <2>3, <2>4, <2>5, <2>6, <2>7 DEF ScanStep
<1>2. ASSUME NEW e \in Emails, AccountStep(e) PROVE TypeOK'
  <2>1. CASE RegisterController(e)
    <3>1. account' \in [Emails -> Account]
      BY <2>1 DEF RegisterController, NewAccount, Account
    <3> QED
      BY <2>1, <3>1 DEF RegisterController
  <2>2. ASSUME NEW n \in PlanTokens, CreditTokens(e, n) PROVE TypeOK'
    <3>1. account' \in [Emails -> Account]
      BY <2>2, PurchaseEffect
    <3> QED
      BY <2>2, <3>1 DEF CreditTokens
  <2>3. CASE DeleteCurrentUser(e)
    BY <2>3 DEF DeleteCurrentUser, RecordsOf, RunningFor, Deletions
  <2>4. CASE DeleteUserByEmail(e)
    BY <2>4 DEF DeleteUserByEmail, RunningFor, Deletions
  <2>5. ASSUME NEW who \in {"user", "admin"}, FinishDelete(who, e) PROVE TypeOK'
    BY <2>5 DEF FinishDelete, RecordsOf
  <2>6. ASSUME NEW who \in {"user", "admin"}, DeletionFails(who, e) PROVE TypeOK'
    BY <2>6 DEF DeletionFails, Fault
  <2> QED
    BY <1>2, <2>1, <2>2, <2>3, <2>4, <2>5, <2>6 DEF AccountStep
<1>3. CASE Restart
  BY <1>3 DEF Restart, Fault
<1>4. CASE UNCHANGED vars
  BY <1>4 DEF vars
<1> QED
  BY <1>1, <1>2, <1>3, <1>4 DEF Next
-----------------------------------------------------------------------------
(* The same, point by point.                                               *)

SameGenerations ==
    \A e \in Emails : account'[e].generation = account[e].generation

LEMMA ChargePoints ==
    ASSUME TypeOK, Staged, NEW s \in Scans, ChargeUser(s)
    PROVE  /\ scan[s].email \in Emails
           /\ pc[s] = "charge"
           /\ pc' = [pc EXCEPT ![s] = "notify"]
           /\ SameGenerations
           /\ scan[s].email \in live =>
                charged' = [charged EXCEPT ![s] = account[scan[s].email].generation]
           /\ scan[s].email \notin live => charged' = charged
           /\ UNCHANGED <<live, records, deleting, scan, reply, disturbed, uncharged,
                          removed, interrupted>>
<1>1. /\ scan[s].email \in Emails
      /\ pc[s] = "charge"
      /\ pc' = [pc EXCEPT ![s] = "notify"]
      /\ scan[s].email \notin live => charged' = charged /\ account' = account
      /\ UNCHANGED <<live, records, deleting, scan, reply, disturbed, uncharged,
                     removed, interrupted>>
  BY DEF ChargeUser, Goto, Staged, Busy
<1>2. CASE scan[s].email \in live
  <2>1. SameGenerations
    <3> DEFINE q == scan[s].email
               z == AfterCharge(account[q], scan[s].cost)
    <3>1. account' = [account EXCEPT ![q] = z]
      BY <1>2, ChargeEffect
    <3>2. z.generation = account[q].generation
      BY DEF AfterCharge
    <3> HIDE DEF q, z
    <3> QED
      BY <3>1, <3>2 DEF TypeOK, SameGenerations
  <2> QED
    BY <1>1, <1>2, <2>1, ChargeEffect
<1>3. CASE scan[s].email \notin live
  BY <1>1, <1>3 DEF SameGenerations
<1> QED
  BY <1>2, <1>3

LEMMA PurchasePoints ==
    ASSUME TypeOK, NEW e \in Emails, NEW n \in PlanTokens, CreditTokens(e, n)
    PROVE  /\ SameGenerations
           /\ UNCHANGED <<live, records, deleting, scans, history>>
<1>1. UNCHANGED <<live, records, deleting, scans, history>>
  BY DEF CreditTokens
<1>2. SameGenerations
  <2> DEFINE z == AfterPurchase(account[e], n)
  <2>1. account' = [account EXCEPT ![e] = z]
    BY PurchaseEffect
  <2>2. z.generation = account[e].generation
    BY DEF AfterPurchase
  <2> HIDE DEF z
  <2> QED
    BY <2>1, <2>2 DEF TypeOK, SameGenerations
<1> QED
  BY <1>1, <1>2

-----------------------------------------------------------------------------
(* The stages of a scan.                                                  *)

LEMMA StagedStep == TypeOK /\ Generations /\ Undisturbed /\ Staged /\ [Next]_vars => Staged'
<1> SUFFICES ASSUME TypeOK, Generations, Undisturbed, Staged, [Next]_vars PROVE Staged'
  OBVIOUS
<1> USE DEF TypeOK, store, scans, history, Staged, Busy
<1>1. ASSUME NEW s \in Scans, ScanStep(s) PROVE Staged'
  <2>1. ASSUME NEW e \in Emails, ScanContent(s, e) PROVE Staged'
    BY <2>1 DEF ScanContent, Goto, Reply, Scan
  <2>2. CASE Investigate(s)
    BY <2>2 DEF Investigate, Goto, Reply, Scan
  <2>3. CASE StoreScan(s)
    BY <2>3 DEF StoreScan, Goto
  <2>4. CASE ChargeUser(s)
    BY <2>4, ChargePoints DEF SameGenerations, Generations, Undisturbed, Running
  <2>5. CASE NotifyComplete(s)
    BY <2>5 DEF NotifyComplete, Reply
  <2>6. CASE InsertFails(s)
    BY <2>6 DEF InsertFails, Reply
  <2>7. CASE ChargeFails(s)
    BY <2>7 DEF ChargeFails, Goto
  <2> QED
    BY <1>1, <2>1, <2>2, <2>3, <2>4, <2>5, <2>6, <2>7 DEF ScanStep
<1>2. ASSUME NEW e \in Emails, AccountStep(e) PROVE Staged'
  <2>1. CASE RegisterController(e)
    BY <2>1 DEF RegisterController, NewAccount
  <2>2. ASSUME NEW n \in PlanTokens, CreditTokens(e, n) PROVE Staged'
    BY <2>2, PurchasePoints DEF SameGenerations
  <2>3. CASE DeleteCurrentUser(e)
    BY <2>3 DEF DeleteCurrentUser, RecordsOf, RunningFor
  <2>4. CASE DeleteUserByEmail(e)
    BY <2>4 DEF DeleteUserByEmail, RunningFor
  <2>5. ASSUME NEW who \in {"user", "admin"}, FinishDelete(who, e) PROVE Staged'
    BY <2>5 DEF FinishDelete, RecordsOf
  <2>6. ASSUME NEW who \in {"user", "admin"}, DeletionFails(who, e) PROVE Staged'
    BY <2>6 DEF DeletionFails
  <2> QED
    BY <1>2, <2>1, <2>2, <2>3, <2>4, <2>5, <2>6 DEF AccountStep
<1>3. CASE Restart
  BY <1>3 DEF Restart
<1>4. CASE UNCHANGED vars
  BY <1>4 DEF vars
<1> QED
  BY <1>1, <1>2, <1>3, <1>4 DEF Next

-----------------------------------------------------------------------------
(* Every account with a document has a generation and adds up.            *)

LEMMA AccountsStep == TypeOK /\ Staged /\ Generations /\ AllAddUp /\ [Next]_vars => (Generations /\ AllAddUp)'
<1> SUFFICES ASSUME TypeOK, Staged, Generations, AllAddUp, [Next]_vars PROVE (Generations /\ AllAddUp)'
  OBVIOUS
<1> USE DEF TypeOK, store, scans, history, Generations, AllAddUp
<1>1. ASSUME NEW s \in Scans, ScanStep(s) PROVE (Generations /\ AllAddUp)'
  <2>1. ASSUME NEW e \in Emails, ScanContent(s, e) PROVE (Generations /\ AllAddUp)'
    BY <2>1 DEF ScanContent, Goto, Reply, Scan
  <2>2. CASE Investigate(s)
    BY <2>2 DEF Investigate, Goto, Reply, Scan
  <2>3. CASE StoreScan(s)
    BY <2>3 DEF StoreScan, Goto
  <2>4. CASE ChargeUser(s)
    <3>1. Generations'
      BY <2>4, ChargePoints DEF SameGenerations
    <3>2. CASE scan[s].email \in live
      <4> DEFINE q == scan[s].email
                 c == scan[s].cost
                 z == AfterCharge(account[q], c)
      <4>1. account' = [account EXCEPT ![q] = z] /\ q \in Emails
        BY <2>4, <3>2, ChargeEffect, ChargePoints
      <4>2. account[q] \in Account /\ c \in Nat
        BY <4>1 DEF Scan
      <4>3. /\ z.remaining + z.used = FreeTokens + z.bought
            /\ z.wallet = z.remaining - FreeTokens
        BY <4>1, <4>2, ScanAssumption DEF AfterCharge, Account
      <4> HIDE DEF z, q, c
      <4> QED
        BY <3>1, <4>1, <4>3
    <3>3. CASE scan[s].email \notin live
      BY <2>4, <3>1, <3>3 DEF ChargeUser
    <3> QED
      BY <3>2, <3>3
  <2>5. CASE NotifyComplete(s)
    BY <2>5 DEF NotifyComplete, Reply
  <2>6. CASE InsertFails(s)
    BY <2>6 DEF InsertFails, Reply
  <2>7. CASE ChargeFails(s)
    BY <2>7 DEF ChargeFails, Goto
  <2> QED
    BY <1>1, <2>1, <2>2, <2>3, <2>4, <2>5, <2>6, <2>7 DEF ScanStep
<1>2. ASSUME NEW e \in Emails, AccountStep(e) PROVE (Generations /\ AllAddUp)'
  <2>1. CASE RegisterController(e)
    <3> DEFINE z == NewAccount(account[e].generation + 1)
    <3>1. account' = [account EXCEPT ![e] = z] /\ live' = live \union {e}
      BY <2>1 DEF RegisterController
    <3>2. /\ z.generation > 0
          /\ z.remaining + z.used = FreeTokens + z.bought
          /\ z.wallet = z.remaining - FreeTokens
      BY ScanAssumption DEF NewAccount, Account
    <3> HIDE DEF z
    <3> QED
      BY <3>1, <3>2
  <2>2. ASSUME NEW n \in PlanTokens, CreditTokens(e, n) PROVE (Generations /\ AllAddUp)'
    <3> DEFINE z == AfterPurchase(account[e], n)
    <3>1. account' = [account EXCEPT ![e] = z] /\ live' = live
      BY <2>2, PurchaseEffect DEF CreditTokens
    <3>2. account[e] \in Account /\ n \in Nat
      BY ScanAssumption
    <3>3. /\ z.generation = account[e].generation
          /\ z.remaining + z.used = FreeTokens + z.bought
          /\ z.wallet = z.remaining - FreeTokens
      BY <3>2, ScanAssumption DEF AfterPurchase, Account
    <3> HIDE DEF z
    <3> QED
      BY <3>1, <3>3
  <2>3. CASE DeleteCurrentUser(e)
    BY <2>3 DEF DeleteCurrentUser, RecordsOf, RunningFor
  <2>4. CASE DeleteUserByEmail(e)
    BY <2>4 DEF DeleteUserByEmail, RunningFor
  <2>5. ASSUME NEW who \in {"user", "admin"}, FinishDelete(who, e) PROVE (Generations /\ AllAddUp)'
    BY <2>5 DEF FinishDelete, RecordsOf
  <2>6. ASSUME NEW who \in {"user", "admin"}, DeletionFails(who, e) PROVE (Generations /\ AllAddUp)'
    BY <2>6 DEF DeletionFails
  <2> QED
    BY <1>2, <2>1, <2>2, <2>3, <2>4, <2>5, <2>6 DEF AccountStep
<1>3. CASE Restart
  BY <1>3 DEF Restart
<1>4. CASE UNCHANGED vars
  BY <1>4 DEF vars
<1> QED
  BY <1>1, <1>2, <1>3, <1>4 DEF Next

-----------------------------------------------------------------------------
(* Scans and deletions.                                                   *)

LEMMA UndisturbedStep == TypeOK /\ Staged /\ Undisturbed /\ [Next]_vars => Undisturbed'
<1> SUFFICES ASSUME TypeOK, Staged, Undisturbed, [Next]_vars PROVE Undisturbed'
  OBVIOUS
<1> USE DEF TypeOK, store, scans, history, Undisturbed, Running, Busy, BeingDeleted
<1>1. ASSUME NEW s \in Scans, ScanStep(s) PROVE Undisturbed'
  <2>1. ASSUME NEW e \in Emails, ScanContent(s, e) PROVE Undisturbed'
    BY <2>1 DEF ScanContent, Goto, Reply, Scan
  <2>2. CASE Investigate(s)
    BY <2>2, SMTT(30) DEF Investigate, Goto, Reply, Scan
  <2>3. CASE StoreScan(s)
    BY <2>3 DEF StoreScan, Goto
  <2>4. CASE ChargeUser(s)
    BY <2>4, ChargePoints DEF SameGenerations
  <2>5. CASE NotifyComplete(s)
    BY <2>5 DEF NotifyComplete, Reply
  <2>6. CASE InsertFails(s)
    BY <2>6 DEF InsertFails, Reply
  <2>7. CASE ChargeFails(s)
    BY <2>7 DEF ChargeFails, Goto
  <2> QED
    BY <1>1, <2>1, <2>2, <2>3, <2>4, <2>5, <2>6, <2>7 DEF ScanStep
<1>2. ASSUME NEW e \in Emails, AccountStep(e) PROVE Undisturbed'
  <2>1. CASE RegisterController(e)
    BY <2>1 DEF RegisterController, NewAccount
  <2>2. ASSUME NEW n \in PlanTokens, CreditTokens(e, n) PROVE Undisturbed'
    BY <2>2, PurchasePoints DEF SameGenerations
  <2>3. CASE DeleteCurrentUser(e)
    BY <2>3 DEF DeleteCurrentUser, RecordsOf, RunningFor
  <2>4. CASE DeleteUserByEmail(e)
    BY <2>4 DEF DeleteUserByEmail, RunningFor
  <2>5. ASSUME NEW who \in {"user", "admin"}, FinishDelete(who, e) PROVE Undisturbed'
    BY <2>5 DEF FinishDelete, RecordsOf
  <2>6. ASSUME NEW who \in {"user", "admin"}, DeletionFails(who, e) PROVE Undisturbed'
    BY <2>6 DEF DeletionFails
  <2> QED
    BY <1>2, <2>1, <2>2, <2>3, <2>4, <2>5, <2>6 DEF AccountStep
<1>3. CASE Restart
  BY <1>3 DEF Restart
<1>4. CASE UNCHANGED vars
  BY <1>4 DEF vars
<1> QED
  BY <1>1, <1>2, <1>3, <1>4 DEF Next

-----------------------------------------------------------------------------
(* Records and deletions.                                                 *)

LEMMA LegacyStep == TypeOK /\ Staged /\ Undisturbed /\ Legacy /\ [Next]_vars => Legacy'
<1> SUFFICES ASSUME TypeOK, Staged, Undisturbed, Legacy, [Next]_vars PROVE Legacy'
  OBVIOUS
<1> USE DEF TypeOK, store, scans, history, Legacy, Staged, Busy, Running,
           BeingDeleted, Undisturbed
<1>1. ASSUME NEW s \in Scans, ScanStep(s) PROVE Legacy'
  <2>1. ASSUME NEW e \in Emails, ScanContent(s, e) PROVE Legacy'
    BY <2>1 DEF ScanContent, Goto, Reply, Scan
  <2>2. CASE Investigate(s)
    BY <2>2 DEF Investigate, Goto, Reply, Scan
  <2>3. CASE StoreScan(s)
    BY <2>3 DEF StoreScan, Goto
  <2>4. CASE ChargeUser(s)
    BY <2>4, ChargePoints DEF SameGenerations
  <2>5. CASE NotifyComplete(s)
    BY <2>5 DEF NotifyComplete, Reply
  <2>6. CASE InsertFails(s)
    BY <2>6 DEF InsertFails, Reply
  <2>7. CASE ChargeFails(s)
    BY <2>7 DEF ChargeFails, Goto
  <2> QED
    BY <1>1, <2>1, <2>2, <2>3, <2>4, <2>5, <2>6, <2>7 DEF ScanStep
<1>2. ASSUME NEW e \in Emails, AccountStep(e) PROVE Legacy'
  <2>1. CASE RegisterController(e)
    BY <2>1 DEF RegisterController, NewAccount
  <2>2. ASSUME NEW n \in PlanTokens, CreditTokens(e, n) PROVE Legacy'
    BY <2>2, PurchasePoints DEF SameGenerations
  <2>3. CASE DeleteCurrentUser(e)
    BY <2>3 DEF DeleteCurrentUser, RecordsOf, RunningFor
  <2>4. CASE DeleteUserByEmail(e)
    BY <2>4 DEF DeleteUserByEmail, RunningFor
  <2>5. ASSUME NEW who \in {"user", "admin"}, FinishDelete(who, e) PROVE Legacy'
    BY <2>5 DEF FinishDelete, RecordsOf
  <2>6. ASSUME NEW who \in {"user", "admin"}, DeletionFails(who, e) PROVE Legacy'
    BY <2>6 DEF DeletionFails
  <2> QED
    BY <1>2, <2>1, <2>2, <2>3, <2>4, <2>5, <2>6 DEF AccountStep
<1>3. CASE Restart
  <2>1. SUFFICES ASSUME NEW q \in records',
                        scan'[q].email \notin live'
                          \/ scan'[q].generation /= account'[scan'[q].email].generation,
                        q \notin disturbed'
                 PROVE  scan[q].email \in interrupted'
    BY <1>3 DEF Restart
  <2>2. <<"admin", scan[q].email>> \in deleting \/ scan[q].email \in interrupted
    BY <1>3, <2>1 DEF Restart
  <2>3. <<"admin", scan[q].email>> \in deleting => scan[q].email \in Emails
    BY DEF Deletions
  <2> QED
    BY <1>3, <2>2, <2>3 DEF Restart
<1>4. CASE UNCHANGED vars
  BY <1>4 DEF vars
<1> QED
  BY <1>1, <1>2, <1>3, <1>4 DEF Next

-----------------------------------------------------------------------------
(* Charges and deletions.                                                 *)

LEMMA OwnStep == TypeOK /\ Staged /\ Undisturbed /\ ChargedOwnAccount /\ [Next]_vars => ChargedOwnAccount'
<1> SUFFICES ASSUME TypeOK, Staged, Undisturbed, ChargedOwnAccount, [Next]_vars PROVE ChargedOwnAccount'
  OBVIOUS
<1> USE DEF TypeOK, store, scans, history, ChargedOwnAccount, Staged, Busy, Running, Undisturbed
<1>1. ASSUME NEW s \in Scans, ScanStep(s) PROVE ChargedOwnAccount'
  <2>1. ASSUME NEW e \in Emails, ScanContent(s, e) PROVE ChargedOwnAccount'
    BY <2>1 DEF ScanContent, Goto, Reply, Scan
  <2>2. CASE Investigate(s)
    BY <2>2 DEF Investigate, Goto, Reply, Scan
  <2>3. CASE StoreScan(s)
    BY <2>3 DEF StoreScan, Goto
  <2>4. CASE ChargeUser(s)
    BY <2>4, ChargePoints DEF SameGenerations
  <2>5. CASE NotifyComplete(s)
    BY <2>5 DEF NotifyComplete, Reply
  <2>6. CASE InsertFails(s)
    BY <2>6 DEF InsertFails, Reply
  <2>7. CASE ChargeFails(s)
    BY <2>7 DEF ChargeFails, Goto
  <2> QED
    BY <1>1, <2>1, <2>2, <2>3, <2>4, <2>5, <2>6, <2>7 DEF ScanStep
<1>2. ASSUME NEW e \in Emails, AccountStep(e) PROVE ChargedOwnAccount'
  <2>1. CASE RegisterController(e)
    BY <2>1 DEF RegisterController, NewAccount
  <2>2. ASSUME NEW n \in PlanTokens, CreditTokens(e, n) PROVE ChargedOwnAccount'
    BY <2>2, PurchasePoints DEF SameGenerations
  <2>3. CASE DeleteCurrentUser(e)
    BY <2>3 DEF DeleteCurrentUser, RecordsOf, RunningFor
  <2>4. CASE DeleteUserByEmail(e)
    BY <2>4 DEF DeleteUserByEmail, RunningFor
  <2>5. ASSUME NEW who \in {"user", "admin"}, FinishDelete(who, e) PROVE ChargedOwnAccount'
    BY <2>5 DEF FinishDelete, RecordsOf
  <2>6. ASSUME NEW who \in {"user", "admin"}, DeletionFails(who, e) PROVE ChargedOwnAccount'
    BY <2>6 DEF DeletionFails
  <2> QED
    BY <1>2, <2>1, <2>2, <2>3, <2>4, <2>5, <2>6 DEF AccountStep
<1>3. CASE Restart
  BY <1>3 DEF Restart
<1>4. CASE UNCHANGED vars
  BY <1>4 DEF vars
<1> QED
  BY <1>1, <1>2, <1>3, <1>4 DEF Next

-----------------------------------------------------------------------------
(* What an account has used is what the scans charged to it have cost.     *)

\* Every account that ever was, also one that was deleted.
AllPaid ==
    \A e \in Emails : account[e].generation > 0 =>
        account[e].used = Spent(scan, ChargedTo(e))

\* No charge is for an account that is yet to be registered.
ChargedKnown ==
    \A s \in Scans : charged[s] > 0 =>
        /\ scan[s].email \in Emails
        /\ charged[s] <= account[scan[s].email].generation

LEMMA ChargedFinite ==
    ASSUME TypeOK, NEW e
    PROVE  /\ IsFiniteSet(ChargedTo(e))
           /\ ChargedTo(e) \subseteq Scans
           /\ \A s \in ChargedTo(e) : scan[s].cost \in Int
<1>1. ChargedTo(e) \subseteq Scans
  BY DEF ChargedTo
<1>2. \A s \in Scans : scan[s].cost \in Int
  BY DEF TypeOK, Scan
<1> QED
  BY <1>1, <1>2, ScanAssumption, FS_Subset

\* A step that neither charges the account nor touches what its scans cost.
LEMMA PaidKept ==
    ASSUME TypeOK, AllPaid, NEW e \in Emails, account[e].generation > 0,
           account'[e].used = account[e].used,
           ChargedTo(e)' = ChargedTo(e),
           \A s \in ChargedTo(e) : scan'[s].cost = scan[s].cost
    PROVE  account'[e].used = Spent(scan', ChargedTo(e)')
<1> DEFINE W == ChargedTo(e)
           f == scan
           h == scan'
<1>1. IsFiniteSet(W) /\ \A s \in W : f[s].cost = h[s].cost
  BY ChargedFinite
<1>2. Spent(f, W) = Spent(h, W)
  <2> HIDE DEF W, f, h
  <2> QED
    BY <1>1, SpentSame
<1> QED
  BY <1>2 DEF AllPaid

\* Steps that leave scans and charges alone and no account used more.
SameBills ==
    /\ UNCHANGED <<scan, charged>>
    /\ \A e \in Emails :
        /\ account'[e].generation = account[e].generation
        /\ account'[e].used = account[e].used

LEMMA SameBillsStep ==
    ASSUME TypeOK, AllPaid, ChargedKnown, SameBills
    PROVE  (AllPaid /\ ChargedKnown)'
<1>1. ChargedKnown'
  BY DEF ChargedKnown, SameBills
<1>2. ASSUME NEW e \in Emails, account'[e].generation > 0
      PROVE  account'[e].used = Spent(scan', ChargedTo(e)')
  <2>1. ChargedTo(e)' = ChargedTo(e)
    BY DEF SameBills, ChargedTo
  <2>2. \A s \in ChargedTo(e) : scan'[s].cost = scan[s].cost
    BY DEF SameBills
  <2> QED
    BY <1>2, <2>1, <2>2, PaidKept DEF SameBills
<1>3. AllPaid'
  BY <1>2 DEF AllPaid
<1> QED
  BY <1>1, <1>3

\* A scan that was not charged yet may take any e-mail and cost.
LEMMA UnchargedScan ==
    ASSUME TypeOK, AllPaid, ChargedKnown, NEW s \in Scans, charged[s] = 0,
           UNCHANGED <<account, charged>>,
           \A t \in Scans \ {s} : scan'[t] = scan[t]
    PROVE  (AllPaid /\ ChargedKnown)'
<1>1. ChargedKnown'
  BY DEF ChargedKnown
<1>2. ASSUME NEW e \in Emails, account'[e].generation > 0
      PROVE  account'[e].used = Spent(scan', ChargedTo(e)')
  <2>1. s \notin ChargedTo(e) /\ s \notin ChargedTo(e)'
    BY <1>2 DEF ChargedTo
  <2>2. ChargedTo(e)' = ChargedTo(e)
    BY <2>1 DEF ChargedTo
  <2>3. \A t \in ChargedTo(e) : scan'[t].cost = scan[t].cost
    BY <2>1 DEF ChargedTo
  <2> QED
    BY <1>2, <2>2, <2>3, PaidKept
<1>3. AllPaid'
  BY <1>2 DEF AllPaid
<1> QED
  BY <1>1, <1>3

\* The $inc of a charge adds the scan to those the account paid for.
LEMMA PaidCharge ==
    ASSUME TypeOK, Staged, Generations, AllPaid, ChargedKnown,
           NEW s \in Scans, ChargeUser(s)
    PROVE  (AllPaid /\ ChargedKnown)'
<1> DEFINE q == scan[s].email
           c == scan[s].cost
           g == account[q].generation
<1>1. q \in Emails /\ pc[s] = "charge" /\ charged[s] = 0 /\ UNCHANGED scan
  BY ChargePoints DEF Staged, TypeOK
<1>2. CASE q \notin live
  BY <1>1, <1>2, SameBillsStep DEF ChargeUser, SameBills
<1>3. CASE q \in live
  <2> DEFINE z == AfterCharge(account[q], c)
  <2>1. account' = [account EXCEPT ![q] = z] /\ charged' = [charged EXCEPT ![s] = g]
    BY <1>3, ChargeEffect
  <2>2. z.generation = g /\ z.used = account[q].used + c
    BY DEF AfterCharge
  <2>3. g \in Nat /\ g > 0 /\ c \in Int
    BY <1>1, <1>3 DEF Generations, TypeOK, Account, Scan
  <2> HIDE DEF z
  <2>4. SameGenerations
    BY <2>1, <2>2 DEF SameGenerations, TypeOK
  <2>5. ChargedKnown'
    BY <1>1, <2>1, <2>3, <2>4 DEF ChargedKnown, SameGenerations, TypeOK
  <2>6. ASSUME NEW e \in Emails, account'[e].generation > 0
        PROVE  account'[e].used = Spent(scan', ChargedTo(e)')
    <3>1. CASE e /= q
      <4>1. ChargedTo(e)' = ChargedTo(e)
        BY <1>1, <2>1, <2>4, <3>1 DEF ChargedTo, SameGenerations, TypeOK
      <4>2. account'[e].used = account[e].used /\ account[e].generation > 0
        BY <2>1, <2>4, <2>6, <3>1 DEF SameGenerations, TypeOK
      <4>3. \A t \in ChargedTo(e) : scan'[t].cost = scan[t].cost
        BY <1>1
      <4> QED
        BY <4>1, <4>2, <4>3, PaidKept
    <3>2. CASE e = q
      <4> DEFINE W == ChargedTo(e)
                 f == scan
      <4>1. s \notin W
        BY <1>1, <2>3, <3>2 DEF ChargedTo
      <4>2. ChargedTo(e)' = W \union {s}
        BY <1>1, <2>1, <2>4, <3>2 DEF ChargedTo, SameGenerations, TypeOK
      <4>3. IsFiniteSet(W) /\ \A t \in W : f[t].cost \in Int
        BY ChargedFinite
      <4>4. f[s].cost \in Int
        BY <2>3
      <4>5. Spent(f, W \union {s}) = Spent(f, W) + f[s].cost
        <5> HIDE DEF W, f
        <5> QED
          BY <4>1, <4>3, <4>4, SpentWith
      <4>6. account'[e].used = account[e].used + c
        BY <1>1, <2>1, <2>2, <3>2 DEF TypeOK
      <4>7. account[e].used = Spent(f, W)
        BY <2>3, <3>2 DEF AllPaid
      <4> QED
        BY <1>1, <4>2, <4>5, <4>6, <4>7
    <3> QED
      BY <3>1, <3>2
  <2>7. AllPaid'
    BY <2>6 DEF AllPaid
  <2> QED
    BY <2>5, <2>7
<1> QED
  BY <1>2, <1>3

\* A new account has used nothing and no charge bears its number.
LEMMA PaidRegister ==
    ASSUME TypeOK, AllPaid, ChargedKnown, NEW e \in Emails, RegisterController(e)
    PROVE  (AllPaid /\ ChargedKnown)'
<1> DEFINE z == NewAccount(account[e].generation + 1)
<1>1. /\ account' = [account EXCEPT ![e] = z]
      /\ UNCHANGED <<scan, charged>>
  BY DEF RegisterController, scans, history
<1>2. account[e].generation \in Nat
  BY DEF TypeOK, Account
<1>3. z.generation = account[e].generation + 1 /\ z.used = 0
  BY DEF NewAccount
<1> HIDE DEF z
<1>4. account'[e] = z /\ \A d \in Emails \ {e} : account'[d] = account[d]
  BY <1>1 DEF TypeOK
<1>5. ChargedKnown'
  BY <1>1, <1>2, <1>3, <1>4 DEF ChargedKnown, TypeOK
<1>6. ASSUME NEW d \in Emails, account'[d].generation > 0
      PROVE  account'[d].used = Spent(scan', ChargedTo(d)')
  <2>1. CASE d = e
    <3>1. ChargedTo(d)' = {}
      BY <1>1, <1>2, <1>3, <1>4, <2>1 DEF ChargedTo, ChargedKnown, TypeOK
    <3>2. Spent(scan', {}) = 0
      BY SpentUnrolls, FS_EmptySet
    <3> QED
      BY <1>3, <1>4, <2>1, <3>1, <3>2
  <2>2. CASE d /= e
    <3>1. account'[d] = account[d]
      BY <1>4, <2>2
    <3>2. ChargedTo(d)' = ChargedTo(d)
      BY <1>1, <3>1 DEF ChargedTo
    <3>3. \A t \in ChargedTo(d) : scan'[t].cost = scan[t].cost
      BY <1>1
    <3> QED
      BY <1>6, <3>1, <3>2, <3>3, PaidKept
  <2> QED
    BY <2>1, <2>2
<1>7. AllPaid'
  BY <1>6 DEF AllPaid
<1> QED
  BY <1>5, <1>7

LEMMA PaidStep ==
    TypeOK /\ Staged /\ Generations /\ AllPaid /\ ChargedKnown /\ [Next]_vars
        => (AllPaid /\ ChargedKnown)'
<1> SUFFICES ASSUME TypeOK, Staged, Generations, AllPaid, ChargedKnown, [Next]_vars
             PROVE  (AllPaid /\ ChargedKnown)'
  OBVIOUS
<1> USE DEF store, scans, history
<1>1. ASSUME NEW s \in Scans, ScanStep(s) PROVE (AllPaid /\ ChargedKnown)'
  <2>1. ASSUME NEW e \in Emails, ScanContent(s, e) PROVE (AllPaid /\ ChargedKnown)'
    <3>1. charged[s] = 0
      BY <2>1 DEF ScanContent, Staged, TypeOK
    <3>2. \A t \in Scans \ {s} : scan'[t] = scan[t]
      BY <2>1 DEF ScanContent, TypeOK
    <3>3. UNCHANGED <<account, charged>>
      BY <2>1 DEF ScanContent
    <3> QED
      BY <3>1, <3>2, <3>3, UnchargedScan
  <2>2. CASE Investigate(s)
    <3>1. charged[s] = 0
      BY <2>2 DEF Investigate, Staged, TypeOK
    <3>2. \A t \in Scans \ {s} : scan'[t] = scan[t]
      BY <2>2 DEF Investigate, TypeOK
    <3>3. UNCHANGED <<account, charged>>
      BY <2>2 DEF Investigate
    <3> QED
      BY <3>1, <3>2, <3>3, UnchargedScan
  <2>3. CASE StoreScan(s)
    BY <2>3, SameBillsStep DEF StoreScan, SameBills
  <2>4. CASE ChargeUser(s)
    BY <2>4, PaidCharge
  <2>5. CASE NotifyComplete(s)
    BY <2>5, SameBillsStep DEF NotifyComplete, SameBills
  <2>6. CASE InsertFails(s)
    BY <2>6, SameBillsStep DEF InsertFails, SameBills
  <2>7. CASE ChargeFails(s)
    BY <2>7, SameBillsStep DEF ChargeFails, SameBills
  <2> QED
    BY <1>1, <2>1, <2>2, <2>3, <2>4, <2>5, <2>6, <2>7 DEF ScanStep
<1>2. ASSUME NEW e \in Emails, AccountStep(e) PROVE (AllPaid /\ ChargedKnown)'
  <2>1. CASE RegisterController(e)
    BY <2>1, PaidRegister
  <2>2. ASSUME NEW n \in PlanTokens, CreditTokens(e, n) PROVE (AllPaid /\ ChargedKnown)'
    <3> DEFINE z == AfterPurchase(account[e], n)
    <3>1. account' = [account EXCEPT ![e] = z]
      BY <2>2, PurchaseEffect
    <3>2. z.generation = account[e].generation /\ z.used = account[e].used
      BY DEF AfterPurchase
    <3>3. UNCHANGED <<scan, charged>>
      BY <2>2 DEF CreditTokens
    <3> HIDE DEF z
    <3>4. SameBills
      BY <3>1, <3>2, <3>3 DEF SameBills, TypeOK
    <3> QED
      BY <3>4, SameBillsStep
  <2>3. CASE DeleteCurrentUser(e)
    BY <2>3, SameBillsStep DEF DeleteCurrentUser, SameBills
  <2>4. CASE DeleteUserByEmail(e)
    BY <2>4, SameBillsStep DEF DeleteUserByEmail, SameBills
  <2>5. ASSUME NEW who \in {"user", "admin"}, FinishDelete(who, e)
        PROVE (AllPaid /\ ChargedKnown)'
    BY <2>5, SameBillsStep DEF FinishDelete, SameBills
  <2>6. ASSUME NEW who \in {"user", "admin"}, DeletionFails(who, e)
        PROVE (AllPaid /\ ChargedKnown)'
    BY <2>6, SameBillsStep DEF DeletionFails, SameBills
  <2> QED
    BY <1>2, <2>1, <2>2, <2>3, <2>4, <2>5, <2>6 DEF AccountStep
<1>3. CASE Restart
  BY <1>3, SameBillsStep DEF Restart, SameBills
<1>4. CASE UNCHANGED vars
  BY <1>4, SameBillsStep DEF vars, SameBills
<1> QED
  BY <1>1, <1>2, <1>3, <1>4 DEF Next

-----------------------------------------------------------------------------
(* Without failures the bill of an account is exact.                       *)

\* Where nothing failed yet, no charge did, and who was charged is answered.
Faultless ==
    faults = 0 =>
        /\ uncharged = {}
        /\ \A s \in Scans : charged[s] > 0 /\ pc[s] = "done" => reply[s] = "completed"

LEMMA FaultlessStep == TypeOK /\ Staged /\ Faultless /\ [Next]_vars => Faultless'
<1> SUFFICES ASSUME TypeOK, Staged, Faultless, [Next]_vars, faults' = 0
             PROVE  Faultless'
  BY DEF Faultless
<1>0. faults \in Nat
  BY DEF TypeOK
<1>n. ~Fault
  BY <1>0 DEF Fault
<1> USE DEF Faultless
<1>1. ASSUME NEW s \in Scans, ScanStep(s) PROVE Faultless'
  <2> USE DEF Staged, TypeOK
  <2>1. ASSUME NEW e \in Emails, ScanContent(s, e) PROVE Faultless'
    BY <2>1 DEF ScanContent, Goto, Reply
  <2>2. CASE Investigate(s)
    BY <2>2 DEF Investigate, Goto, Reply, history
  <2>3. CASE StoreScan(s)
    BY <2>3 DEF StoreScan, Goto, history
  <2>4. CASE ChargeUser(s)
    BY <2>4 DEF ChargeUser, Goto
  <2>5. CASE NotifyComplete(s)
    BY <2>5 DEF NotifyComplete, Reply, history
  <2> QED
    BY <1>1, <1>n, <2>1, <2>2, <2>3, <2>4, <2>5 DEF ScanStep, InsertFails, ChargeFails
<1>2. ASSUME NEW e \in Emails, AccountStep(e) PROVE Faultless'
  <2>1. UNCHANGED <<pc, reply, charged, uncharged, faults>>
    BY <1>2, <1>n
    DEF AccountStep, RegisterController, CreditTokens, DeleteCurrentUser,
        DeleteUserByEmail, FinishDelete, DeletionFails, scans, history
  <2> QED
    BY <2>1
<1>3. CASE UNCHANGED vars
  BY <1>3 DEF vars, scans, history
<1> QED
  BY <1>1, <1>2, <1>3, <1>n DEF Next, Restart

-----------------------------------------------------------------------------
(* The theorems.                                                           *)

Inductive ==
    TypeOK /\ Staged /\ Generations /\ AllAddUp /\ Undisturbed /\ Legacy
        /\ ChargedOwnAccount /\ AllPaid /\ ChargedKnown /\ Faultless

LEMMA InitInductive == Init => Inductive
<1> SUFFICES ASSUME Init PROVE Inductive
  OBVIOUS
<1>1. TypeOK
  BY InitTypes
<1>2. Staged /\ Undisturbed /\ Generations /\ Legacy /\ ChargedOwnAccount
  BY DEF Init, Staged, Busy, Running, Undisturbed, Generations, Legacy, ChargedOwnAccount
<1>3. AllAddUp
  BY ScanAssumption DEF Init, AllAddUp, NewAccount
<1>4. AllPaid /\ ChargedKnown
  BY DEF Init, AllPaid, ChargedKnown, NewAccount
<1>5. Faultless
  BY DEF Init, Faultless
<1> QED
  BY <1>1, <1>2, <1>3, <1>4, <1>5 DEF Inductive

LEMMA InductiveInvariant == Spec => []Inductive
<1>1. Inductive /\ [Next]_vars => Inductive'
  BY TypesStep, StagedStep, AccountsStep, UndisturbedStep, LegacyStep, OwnStep,
     PaidStep, FaultlessStep DEF Inductive
<1> QED
  BY InitInductive, <1>1, PTL DEF Spec

\* Every reachable state has the stated types.
THEOREM ScanTypes == Spec => []TypeOK
<1>1. Inductive => TypeOK
  BY DEF Inductive
<1> QED
  BY <1>1, InductiveInvariant, PTL

\* The counters of an account add up after any scans, purchases, deletions and
\* faults: the $inc of scan.go:113 and those of payment.go lose nothing.
THEOREM BalancesAddUp == Spec => []BalanceAddsUp
<1>1. Inductive => BalanceAddsUp
  BY DEF Inductive, AllAddUp, BalanceAddsUp, TypeOK
<1> QED
  BY <1>1, InductiveInvariant, PTL

\* The tokens an account has used are those its scans cost: the charges of
\* scan.go:113, in any order with registrations, purchases and deletions, are
\* counted once each and on one account only.
THEOREM UsedAddsUp == Spec => []UsedIsCharged
<1>1. Inductive => UsedIsCharged
  <2> SUFFICES ASSUME Inductive, NEW e \in live
               PROVE  account[e].used
                        = MapThenSumSet(LAMBDA s : scan[s].cost, ChargedTo(e))
    BY DEF UsedIsCharged
  <2>1. e \in Emails /\ account[e].generation > 0
    BY DEF Inductive, TypeOK, Generations
  <2>2. account[e].used = Spent(scan, ChargedTo(e))
    BY <2>1 DEF Inductive, AllPaid
  <2> QED
    BY <2>2 DEF Spent
<1> QED
  BY <1>1, InductiveInvariant, PTL

\* The scans of e, since the account was opened, that were answered in full.
CompletedFor(e) ==
    {s \in Scans : /\ scan[s].email = e
                   /\ scan[s].generation = account[e].generation
                   /\ reply[s] = "completed"}

\* The scans of e met no failure and no deletion, and are answered as far as
\* they were charged.
Smooth(e) ==
    /\ faults = 0
    /\ \A s \in Scans :
           scan[s].email = e => pc[s] /= "notify" /\ s \notin disturbed

\* The bill of such an account: it has used what its completed scans cost,
\* neither more nor less, and what is left follows (scan.go stores, then
\* charges, then answers).  A scan that ended in any other way cost nothing.
THEOREM BillsAreExact ==
    Spec => [](\A e \in live : Smooth(e) =>
        /\ account[e].used = Spent(scan, CompletedFor(e))
        /\ account[e].remaining
               = (FreeTokens + account[e].bought) - Spent(scan, CompletedFor(e)))
<1> DEFINE Exact ==
        \A e \in live : Smooth(e) =>
            /\ account[e].used = Spent(scan, CompletedFor(e))
            /\ account[e].remaining
                   = (FreeTokens + account[e].bought) - Spent(scan, CompletedFor(e))
<1>1. Inductive => Exact
  <2> SUFFICES ASSUME Inductive, NEW e \in live, Smooth(e)
               PROVE  /\ account[e].used = Spent(scan, CompletedFor(e))
                      /\ account[e].remaining
                             = (FreeTokens + account[e].bought)
                                   - Spent(scan, CompletedFor(e))
    OBVIOUS
  <2>1. /\ e \in Emails /\ account[e] \in Account /\ account[e].generation \in Nat
        /\ account[e].generation > 0
    BY DEF Inductive, TypeOK, Generations, Account
  <2>2. ASSUME NEW s \in ChargedTo(e) PROVE s \in CompletedFor(e)
    <3>1. /\ s \in Scans /\ scan[s].email = e
          /\ charged[s] = account[e].generation /\ charged[s] > 0
      BY <2>1 DEF ChargedTo
    <3>2. pc[s] = "done" /\ s \notin disturbed /\ faults = 0
      BY <3>1 DEF Smooth, Inductive, Staged
    <3>3. reply[s] = "completed" /\ charged[s] = scan[s].generation
      BY <3>1, <3>2 DEF Inductive, Faultless, ChargedOwnAccount
    <3> QED
      BY <3>1, <3>3 DEF CompletedFor
  <2>3. ASSUME NEW s \in CompletedFor(e) PROVE s \in ChargedTo(e)
    <3>1. /\ s \in Scans /\ scan[s].email = e /\ reply[s] = "completed"
          /\ scan[s].generation = account[e].generation
      BY DEF CompletedFor
    <3>2. s \notin disturbed /\ uncharged = {}
      BY <3>1 DEF Smooth, Inductive, Faultless
    <3>3. charged[s] > 0
      BY <3>1, <3>2 DEF Inductive, Staged
    <3>4. charged[s] = scan[s].generation
      BY <3>1, <3>2, <3>3 DEF Inductive, ChargedOwnAccount
    <3> QED
      BY <3>1, <3>4 DEF ChargedTo
  <2>4. CompletedFor(e) = ChargedTo(e)
    BY <2>2, <2>3
  <2>5. account[e].used = Spent(scan, CompletedFor(e))
    BY <2>1, <2>4 DEF Inductive, AllPaid
  <2>6. /\ account[e].remaining + account[e].used = FreeTokens + account[e].bought
        /\ account[e].remaining \in Int /\ account[e].used \in Int
    BY <2>1 DEF Inductive, AllAddUp, Account
  <2>7. account[e].remaining = (FreeTokens + account[e].bought) - account[e].used
    BY <2>1, <2>6, ScanAssumption DEF Account
  <2> QED
    BY <2>5, <2>7
<1> HIDE DEF Exact
<1>2. Spec => []Exact
  BY <1>1, InductiveInvariant, PTL
<1> QED
  BY <1>2 DEF Exact

\* Only a scan that was stored is charged, and never one that was answered
\* with an error: scan.go returns before the charge in every such case.
THEOREM OnlyStoredCharged == Spec => []OnlyStoredIsCharged
<1>1. Inductive => OnlyStoredIsCharged
  BY DEF Inductive, Staged, OnlyStoredIsCharged
<1> QED
  BY <1>1, InductiveInvariant, PTL

\* A completed scan was charged, unless a deletion overlapped it or its charge
\* failed, which scan.go:113 ignores.
THEOREM CompletedCharged == Spec => []CompletedIsCharged
<1>1. Inductive => CompletedIsCharged
  BY DEF Inductive, Staged, CompletedIsCharged
<1> QED
  BY <1>1, InductiveInvariant, PTL

\* A charge by e-mail (scan.go:113) hits the account the scan looked up, unless
\* the scan overlapped a deletion of that account.
THEOREM ChargesOwnAccount == Spec => []ChargedOwnAccount
<1>1. Inductive => ChargedOwnAccount
  BY DEF Inductive
<1> QED
  BY <1>1, InductiveInvariant, PTL

\* The history and the charges of an e-mail tell the same, whatever scans,
\* deletions and registrations overlap: the three theorems above together.
THEOREM ChargesAlwaysMatch == Spec => []ChargesMatchHistory
<1>1. OnlyStoredIsCharged /\ CompletedIsCharged /\ ChargedOwnAccount
        => ChargesMatchHistory
  BY DEF ChargesMatchHistory
<1> QED
  BY <1>1, OnlyStoredCharged, CompletedCharged, ChargesOwnAccount, PTL

\* Both orders of deletion (user.go:75, admin.go:242) keep the scans of an account
\* from a later one, unless they overlapped the deletion or it was broken off.
THEOREM HistoriesAreOwn == Spec => []HistoryIsOwn
<1>1. Inductive => HistoryIsOwn
  BY DEF Inductive, Legacy, HistoryIsOwn
<1> QED
  BY <1>1, InductiveInvariant, PTL
=============================================================================
