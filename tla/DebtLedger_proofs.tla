-------------------------- MODULE DebtLedger_proofs --------------------------
(***************************************************************************)
(* Proofs about the debt ledger, for every number of debts and payments,   *)
(* every set of companies and every amounts.                               *)
(***************************************************************************)
EXTENDS DebtLedger, FiniteSetTheorems, WellFoundedInduction, TLAPS

-----------------------------------------------------------------------------
(***************************************************************************)
(* What SumTo computes. Every lemma rests on induction over a set of       *)
(* naturals, which follows from the library's theorem that the strict      *)
(* inclusion of finite sets is well-founded: a set of naturals without a   *)
(* least element would make the intervals 0 .. n decrease for ever.        *)
(***************************************************************************)

\* Induction, stated over a set instead of a predicate.
LEMMA NatInductionSet ==
    ASSUME NEW S, 0 \in S, \A n \in Nat : n \in S => n + 1 \in S
    PROVE  Nat \subseteq S
<1> SUFFICES ASSUME ~ (Nat \subseteq S) PROVE FALSE
    OBVIOUS
<1> DEFINE B == Nat \ S
           T == {0 .. n : n \in B}
           R == StrictSubsetOrdering(Nat)
           F == FiniteSubsetsOf(Nat)
<1>1. T \subseteq F
  <2>1. \A n \in B : IsFiniteSet(0 .. n)
    BY FS_Interval
  <2> QED
    BY <2>1 DEF FiniteSubsetsOf
<1>2. T # {}
    OBVIOUS
<1>3. IsWellFoundedOn(R, F)
    BY FS_StrictSubsetOrderingWellFounded
<1> HIDE DEF R, F
<1>4. \E X \in T : \A Y \in T : ~ (<<Y, X>> \in R)
    BY <1>1, <1>2, <1>3, WFMin
<1>5. PICK n \in B : \A m \in B : ~ (<<0 .. m, 0 .. n>> \in R)
    BY <1>4
<1>6. n # 0 /\ n - 1 \in Nat /\ n - 1 \in B
  <2>1. n # 0 /\ n - 1 \in Nat
    OBVIOUS
  <2>2. n - 1 \notin S
    BY <2>1
  <2> QED
    BY <2>1, <2>2
<1>7. <<0 .. n - 1, 0 .. n>> \in R
  <2>1. 0 .. n - 1 \in SUBSET Nat /\ 0 .. n \in SUBSET Nat
    BY <1>6
  <2>2. 0 .. n - 1 \subseteq 0 .. n /\ n \in 0 .. n /\ n \notin 0 .. n - 1
    BY <1>6
  <2> QED
    BY <2>1, <2>2 DEF R, StrictSubsetOrdering
<1> QED
    BY <1>5, <1>6, <1>7

-----------------------------------------------------------------------------
(* The recursive function SumTo is made of exists: its restrictions to the  *)
(* intervals 0 .. n do, and they agree with each other.                     *)

Prefix(f, n, g) ==
    /\ g[0] = 0
    /\ \A i \in 1 .. n : g[i] = g[i - 1] + f[i]

LEMMA PrefixExists ==
    ASSUME NEW f
    PROVE  \A n \in Nat : \E g : Prefix(f, n, g)
<1> DEFINE S == {n \in Nat : \E g : Prefix(f, n, g)}
<1>1. 0 \in S
  <2>1. Prefix(f, 0, [i \in 0 .. 0 |-> 0])
    BY DEF Prefix
  <2> QED
    BY <2>1
<1>2. ASSUME NEW n \in Nat, n \in S PROVE n + 1 \in S
  <2>1. PICK g : Prefix(f, n, g)
    BY <1>2
  <2> DEFINE h == [i \in 0 .. n + 1 |-> IF i = n + 1 THEN g[n] + f[n + 1] ELSE g[i]]
  <2>2. h[0] = 0
    BY <2>1 DEF Prefix
  <2>3. ASSUME NEW i \in 1 .. n + 1 PROVE h[i] = h[i - 1] + f[i]
    <3>1. i \in 0 .. n + 1 /\ i - 1 \in 0 .. n + 1 /\ i - 1 # n + 1
      OBVIOUS
    <3>2. CASE i = n + 1
      <4>1. h[i] = g[n] + f[n + 1] /\ h[i - 1] = g[n]
        BY <3>1, <3>2
      <4> QED
        BY <4>1, <3>2
    <3>3. CASE i # n + 1
      <4>1. i \in 1 .. n
        BY <3>3
      <4>2. h[i] = g[i] /\ h[i - 1] = g[i - 1]
        BY <3>1, <3>3
      <4> QED
        BY <4>1, <4>2, <2>1 DEF Prefix
    <3> QED
      BY <3>2, <3>3
  <2>4. Prefix(f, n + 1, h)
    <3> HIDE DEF h
    <3> QED
      BY <2>2, <2>3 DEF Prefix
  <2> QED
    BY <2>4
<1> HIDE DEF S
<1>3. Nat \subseteq S
  BY <1>1, <1>2, NatInductionSet
<1> QED
  BY <1>3 DEF S

LEMMA PrefixUnique ==
    ASSUME NEW f, NEW m \in Nat, NEW n \in Nat, NEW g, NEW h,
           Prefix(f, m, g), Prefix(f, n, h)
    PROVE  \A i \in Nat : i <= m /\ i <= n => g[i] = h[i]
<1> DEFINE S == {i \in Nat : i <= m /\ i <= n => g[i] = h[i]}
<1>1. 0 \in S
  BY DEF Prefix
<1>2. ASSUME NEW i \in Nat, i \in S PROVE i + 1 \in S
  <2> SUFFICES ASSUME i + 1 <= m, i + 1 <= n PROVE g[i + 1] = h[i + 1]
    OBVIOUS
  <2>1. g[i] = h[i]
    BY <1>2
  <2>2. i + 1 \in 1 .. m /\ i + 1 \in 1 .. n /\ (i + 1) - 1 = i
    OBVIOUS
  <2>3. g[i + 1] = g[i] + f[i + 1] /\ h[i + 1] = h[i] + f[i + 1]
    BY <2>2 DEF Prefix
  <2> QED
    BY <2>1, <2>3
<1> HIDE DEF S
<1>3. Nat \subseteq S
  BY <1>1, <1>2, NatInductionSet
<1> QED
  BY <1>3 DEF S

\* The equations of SumTo.
LEMMA SumUnfold ==
    ASSUME NEW f
    PROVE  /\ SumTo(f, 0) = 0
           /\ \A n \in Nat \ {0} : SumTo(f, n) = SumTo(f, n - 1) + f[n]
<1> DEFINE P(n) == CHOOSE g : Prefix(f, n, g)
           G == [n \in Nat |-> P(n)[n]]
           s == CHOOSE s : s = [i \in Nat |-> IF i = 0 THEN 0 ELSE s[i - 1] + f[i]]
<1>1. \A n \in Nat : Prefix(f, n, P(n))
  BY PrefixExists
<1>2. G[0] = 0
  BY <1>1 DEF Prefix
<1>3. ASSUME NEW n \in Nat, n # 0 PROVE G[n] = G[n - 1] + f[n]
  <2>1. n - 1 \in Nat /\ n \in 1 .. n /\ n - 1 <= n
    BY <1>3
  <2>2. P(n)[n] = P(n)[n - 1] + f[n]
    BY <1>1, <2>1 DEF Prefix
  <2>3. P(n)[n - 1] = P(n - 1)[n - 1]
    <3> HIDE DEF P
    <3> QED
      BY <1>1, <2>1, PrefixUnique
  <2> HIDE DEF P
  <2> QED
    BY <2>1, <2>2, <2>3
<1>4. G = [i \in Nat |-> IF i = 0 THEN 0 ELSE G[i - 1] + f[i]]
  <2> HIDE DEF P
  <2> DEFINE H == [i \in Nat |-> IF i = 0 THEN 0 ELSE G[i - 1] + f[i]]
  <2>1. \A i \in Nat : G[i] = H[i]
    <3> HIDE DEF G
    <3> QED
      BY <1>2, <1>3
  <2> QED
    BY <2>1
<1>5. s = [i \in Nat |-> IF i = 0 THEN 0 ELSE s[i - 1] + f[i]]
  <2> HIDE DEF G
  <2> QED
    BY <1>4
<1>6. \A n : SumTo(f, n) = s[n]
  BY DEF SumTo
<1> HIDE DEF s, G, P
<1>7. \A i \in Nat : s[i] = IF i = 0 THEN 0 ELSE s[i - 1] + f[i]
  BY <1>5
<1> QED
  BY <1>6, <1>7

-----------------------------------------------------------------------------
(* Sums of columns of amounts. *)

\* A sum of amounts is an amount.
LEMMA SumNat ==
    ASSUME NEW N \in Nat, NEW f, \A i \in 1 .. N : f[i] \in Nat
    PROVE  SumTo(f, N) \in Nat
<1> DEFINE S == {n \in Nat : n <= N => SumTo(f, n) \in Nat}
<1>1. 0 \in S
  BY SumUnfold
<1>2. ASSUME NEW n \in Nat, n \in S PROVE n + 1 \in S
  <2> SUFFICES ASSUME n + 1 <= N PROVE SumTo(f, n + 1) \in Nat
    OBVIOUS
  <2>1. SumTo(f, n) \in Nat /\ f[n + 1] \in Nat
    BY <1>2
  <2>2. SumTo(f, n + 1) = SumTo(f, n) + f[n + 1]
    BY SumUnfold
  <2> QED
    BY <2>1, <2>2
<1> HIDE DEF S
<1>3. Nat \subseteq S
  BY <1>1, <1>2, NatInductionSet
<1> QED
  BY <1>3 DEF S

\* Columns that agree on the rows have the same sum.
LEMMA SumSame ==
    ASSUME NEW N \in Nat, NEW f, NEW g, \A i \in 1 .. N : f[i] = g[i]
    PROVE  SumTo(f, N) = SumTo(g, N)
<1> DEFINE S == {n \in Nat : n <= N => SumTo(f, n) = SumTo(g, n)}
<1>1. 0 \in S
  BY SumUnfold
<1>2. ASSUME NEW n \in Nat, n \in S PROVE n + 1 \in S
  <2> SUFFICES ASSUME n + 1 <= N PROVE SumTo(f, n + 1) = SumTo(g, n + 1)
    OBVIOUS
  <2>1. SumTo(f, n) = SumTo(g, n) /\ f[n + 1] = g[n + 1]
    BY <1>2
  <2>2. /\ SumTo(f, n + 1) = SumTo(f, n) + f[n + 1]
        /\ SumTo(g, n + 1) = SumTo(g, n) + g[n + 1]
    BY SumUnfold
  <2> QED
    BY <2>1, <2>2
<1> HIDE DEF S
<1>3. Nat \subseteq S
  BY <1>1, <1>2, NatInductionSet
<1> QED
  BY <1>3 DEF S

\* Adding rows one by one adds the sums.
LEMMA SumPlus ==
    ASSUME NEW N \in Nat, NEW f, NEW g, NEW h,
           \A i \in 1 .. N : f[i] \in Nat /\ g[i] \in Nat /\ h[i] = f[i] + g[i]
    PROVE  SumTo(h, N) = SumTo(f, N) + SumTo(g, N)
<1> DEFINE S == {n \in Nat : n <= N => /\ SumTo(f, n) \in Nat /\ SumTo(g, n) \in Nat
                                       /\ SumTo(h, n) = SumTo(f, n) + SumTo(g, n)}
<1>1. 0 \in S
  BY SumUnfold
<1>2. ASSUME NEW n \in Nat, n \in S PROVE n + 1 \in S
  <2> SUFFICES ASSUME n + 1 <= N
               PROVE  /\ SumTo(f, n + 1) \in Nat /\ SumTo(g, n + 1) \in Nat
                      /\ SumTo(h, n + 1) = SumTo(f, n + 1) + SumTo(g, n + 1)
    OBVIOUS
  <2>1. /\ SumTo(f, n) \in Nat /\ SumTo(g, n) \in Nat
        /\ SumTo(h, n) = SumTo(f, n) + SumTo(g, n)
    BY <1>2
  <2>2. f[n + 1] \in Nat /\ g[n + 1] \in Nat /\ h[n + 1] = f[n + 1] + g[n + 1]
    OBVIOUS
  <2>3. /\ SumTo(f, n + 1) = SumTo(f, n) + f[n + 1]
        /\ SumTo(g, n + 1) = SumTo(g, n) + g[n + 1]
        /\ SumTo(h, n + 1) = SumTo(h, n) + h[n + 1]
    BY SumUnfold
  <2> QED
    BY <2>1, <2>2, <2>3
<1> HIDE DEF S
<1>3. Nat \subseteq S
  BY <1>1, <1>2, NatInductionSet
<1> QED
  BY <1>3 DEF S

\* A column with at most one row that is not 0 sums to that row.
LEMMA SumOne ==
    ASSUME NEW N \in Nat, NEW k \in Nat, NEW v \in Nat, NEW f,
           \A i \in 1 .. N : f[i] = IF i = k THEN v ELSE 0
    PROVE  SumTo(f, N) = IF k \in 1 .. N THEN v ELSE 0
<1> DEFINE S == {n \in Nat : n <= N => SumTo(f, n) = IF k \in 1 .. n THEN v ELSE 0}
<1>1. 0 \in S
  BY SumUnfold
<1>2. ASSUME NEW n \in Nat, n \in S PROVE n + 1 \in S
  <2> SUFFICES ASSUME n + 1 <= N
               PROVE  SumTo(f, n + 1) = IF k \in 1 .. n + 1 THEN v ELSE 0
    OBVIOUS
  <2>1. /\ SumTo(f, n) = IF k \in 1 .. n THEN v ELSE 0
        /\ f[n + 1] = IF n + 1 = k THEN v ELSE 0
    BY <1>2
  <2>2. SumTo(f, n + 1) = SumTo(f, n) + f[n + 1]
    BY SumUnfold
  <2> QED
    BY <2>1, <2>2
<1> HIDE DEF S
<1>3. Nat \subseteq S
  BY <1>1, <1>2, NatInductionSet
<1> QED
  BY <1>3 DEF S

-----------------------------------------------------------------------------
(* The tables. *)

PaymentTable == [Payments -> Payment]
AllocationTable == [Payments -> [Documents -> Nat]]

LEMMA BoundsNat == MaxDocuments \in Nat /\ MaxPayments \in Nat
BY LedgerAssumption

-----------------------------------------------------------------------------
(* What the queries return. *)

\* What a payment brings to a debt is an amount.
LEMMA ContributionNat ==
    ASSUME NEW ps \in PaymentTable, NEW al \in AllocationTable,
           NEW p \in Payments, NEW d \in Documents
    PROVE  Contribution(ps, al, p, d) \in Nat
<1>1. ps[p] \in Payment /\ al[p][d] \in Nat
  BY DEF PaymentTable, AllocationTable
<1> QED
  BY <1>1 DEF Contribution, Payment

\* PaidTotal is an amount.
LEMMA PaidTotalNat ==
    ASSUME NEW ps \in PaymentTable, NEW al \in AllocationTable, NEW d \in Documents
    PROVE  PaidTotal(ps, al, d) \in Nat
<1> DEFINE f == [p \in Payments |-> Contribution(ps, al, p, d)]
<1>1. \A p \in 1 .. MaxPayments : f[p] \in Nat
  BY ContributionNat DEF Payments
<1> HIDE DEF f
<1>2. SumTo(f, MaxPayments) \in Nat
  BY <1>1, BoundsNat, SumNat
<1> QED
  BY <1>2 DEF PaidTotal, f

\* If no payment changes what it brings to a debt, the debt has received the same.
LEMMA PaidTotalSame ==
    ASSUME NEW ps, NEW al, NEW qs, NEW bl, NEW d,
           \A p \in Payments : Contribution(ps, al, p, d) = Contribution(qs, bl, p, d)
    PROVE  PaidTotal(ps, al, d) = PaidTotal(qs, bl, d)
<1> DEFINE f == [p \in Payments |-> Contribution(ps, al, p, d)]
           g == [p \in Payments |-> Contribution(qs, bl, p, d)]
<1>1. f = g
  OBVIOUS
<1> QED
  BY <1>1 DEF PaidTotal

\* PersistBalanceAndStatus writes a debt back; only its balance and status move.
LEMMA PersistType ==
    ASSUME NEW doc \in Document, NEW paid \in Nat
    PROVE  /\ PersistBalanceAndStatus(doc, paid) \in Document
           /\ PersistBalanceAndStatus(doc, paid).life = doc.life
           /\ PersistBalanceAndStatus(doc, paid).company = doc.company
           /\ PersistBalanceAndStatus(doc, paid).total = doc.total
           /\ IsTerminalWriteoffStatus(doc.status) => PersistBalanceAndStatus(doc, paid) = doc
           /\ ~ IsTerminalWriteoffStatus(doc.status)
              => ~ IsTerminalWriteoffStatus(PersistBalanceAndStatus(doc, paid).status)
           /\ ~ IsTerminalWriteoffStatus(doc.status)
              => /\ PersistBalanceAndStatus(doc, paid).balance = BalanceFromTotalPaid(doc.total, paid)
                 /\ PersistBalanceAndStatus(doc, paid).status
                       = ComputeStatusFromPaid(paid, doc.total, doc.status)
<1>1. BalanceFromTotalPaid(doc.total, paid) \in Nat
  BY DEF BalanceFromTotalPaid, Document
<1>2. ~ IsTerminalWriteoffStatus(doc.status)
      => ComputeStatusFromPaid(paid, doc.total, doc.status) \in {Pending, Partial, Paid}
  BY DEF ComputeStatusFromPaid, ComputeStatusFromAmounts
<1>3. {Pending, Partial, Paid} \subseteq Statuses
  BY DEF Statuses
<1>4. \A st \in {Pending, Partial, Paid} : ~ IsTerminalWriteoffStatus(st)
  BY DEF IsTerminalWriteoffStatus, Pending, Partial, Paid, Cancelled, Exonerado
<1>5. CASE IsTerminalWriteoffStatus(doc.status)
  BY <1>5 DEF PersistBalanceAndStatus
<1>6. CASE ~ IsTerminalWriteoffStatus(doc.status)
  <2>1. PersistBalanceAndStatus(doc, paid) =
          [doc EXCEPT !.balance = BalanceFromTotalPaid(doc.total, paid),
                      !.status = ComputeStatusFromPaid(paid, doc.total, doc.status)]
    BY <1>6 DEF PersistBalanceAndStatus, WithBalance
  <2> QED
    BY <2>1, <1>1, <1>2, <1>3, <1>4, <1>6 DEF Document
<1> QED
  BY <1>5, <1>6

\* The debts table after a payment handler.
LEMMA PersistedFacts ==
    ASSUME docs \in [Documents -> Document], NEW touched,
           NEW ps \in PaymentTable, NEW al \in AllocationTable, NEW table,
           table = Persisted(touched, ps, al)
    PROVE  /\ table \in [Documents -> Document]
           /\ \A d \in Documents :
                 /\ table[d].life = docs[d].life
                 /\ table[d].company = docs[d].company
                 /\ table[d].total = docs[d].total
                 /\ d \notin touched => table[d] = docs[d]
                 /\ IsTerminalWriteoffStatus(docs[d].status) => table[d] = docs[d]
                 /\ ~ IsTerminalWriteoffStatus(docs[d].status)
                    => ~ IsTerminalWriteoffStatus(table[d].status)
                 /\ d \in touched /\ ~ IsTerminalWriteoffStatus(docs[d].status)
                    => /\ table[d].balance = BalanceFromTotalPaid(docs[d].total, PaidTotal(ps, al, d))
                       /\ table[d].status = ComputeStatusFromPaid(PaidTotal(ps, al, d),
                                                docs[d].total, docs[d].status)
<1>1. \A d \in Documents : PaidTotal(ps, al, d) \in Nat
  BY PaidTotalNat
<1>2. \A d \in Documents : docs[d] \in Document
  OBVIOUS
<1>3. \A d \in Documents :
         Persisted(touched, ps, al)[d] = IF d \in touched
                                         THEN PersistBalanceAndStatus(docs[d], PaidTotal(ps, al, d))
                                         ELSE docs[d]
  BY DEF Persisted
<1>4. \A d \in Documents : Persisted(touched, ps, al)[d] \in Document
  BY <1>1, <1>2, <1>3, PersistType
<1>5. Persisted(touched, ps, al) \in [Documents -> Document]
  <2>1. Persisted(touched, ps, al) = [d \in Documents |-> Persisted(touched, ps, al)[d]]
    BY DEF Persisted
  <2> QED
    BY <2>1, <1>4
<1>6. ASSUME NEW d \in Documents, d \in touched
      PROVE  Persisted(touched, ps, al)[d] = PersistBalanceAndStatus(docs[d], PaidTotal(ps, al, d))
  BY <1>3, <1>6
<1>7. ASSUME NEW d \in Documents, d \notin touched
      PROVE  Persisted(touched, ps, al)[d] = docs[d]
  BY <1>3, <1>7
<1> QED
  BY <1>1, <1>2, <1>5, <1>6, <1>7, PersistType

\* The dual read of a live debt is an amount.
LEMMA OpenBalanceNat ==
    ASSUME docs \in [Documents -> Document], pays \in PaymentTable,
           alloc \in AllocationTable, NEW d \in Documents
    PROVE  OpenBalance(d) \in Nat
<1>1. PaidTotal(pays, alloc, d) \in Nat
  BY PaidTotalNat
<1>2. docs[d].total \in Nat /\ docs[d].balance \in Nat
  BY DEF Document
<1>3. BalanceFromTotalPaid(docs[d].total, PaidTotal(pays, alloc, d)) \in Nat
  BY <1>1, <1>2 DEF BalanceFromTotalPaid
<1> QED
  BY <1>2, <1>3 DEF OpenBalance, EffectiveBalance

LEMMA LineSumNat ==
    ASSUME NEW lines \in [Documents -> Nat]
    PROVE  LineSum(lines) \in Nat
<1>1. \A i \in 1 .. MaxDocuments : lines[i] \in Nat
  BY DEF Documents
<1> QED
  BY <1>1, BoundsNat, SumNat DEF LineSum

-----------------------------------------------------------------------------
(* FIFO imputation: what is left of the amount after each debt, in the order *)
(* of the issue dates, and the sums by that order.                           *)

OwedBy(c, d) == IF d \in FifoCandidates(c) THEN OpenBalance(d) ELSE 0

AtRank(rank, i) == CHOOSE d \in Documents : rank[d] = i

\* left[i] is what the i oldest debts leave of the amount.
IsLeft(c, amount, rank, left) ==
    /\ left[0] = amount
    /\ \A i \in Nat : /\ left[i] \in Nat
                      /\ left[i + 1] = left[i] - Take(OwedBy(c, AtRank(rank, i + 1)), left[i])

\* o[i] is what the i-th oldest debt owes, h[i] what its line takes.
InOrder(c, rank, left, o, h) ==
    \A i \in Nat : /\ o[i] = OwedBy(c, AtRank(rank, i))
                   /\ h[i + 1] = Take(o[i + 1], left[i])

LEMMA OwedByNat ==
    ASSUME docs \in [Documents -> Document], pays \in PaymentTable,
           alloc \in AllocationTable, NEW c, NEW d
    PROVE  OwedBy(c, d) \in Nat
BY OpenBalanceNat DEF OwedBy, FifoCandidates

\* The order of the issue dates numbers the debts without gaps.
LEMMA RanksAreFull ==
    ASSUME NEW rank \in IssueOrders, NEW i \in Documents
    PROVE  AtRank(rank, i) \in Documents /\ rank[AtRank(rank, i)] = i
<1>1. IsFiniteSet(Documents)
  BY BoundsNat, FS_Interval DEF Documents
<1>2. rank \in Injection(Documents, Documents)
  BY DEF IssueOrders, Injection, IsInjective
<1>3. rank \in Surjection(Documents, Documents)
  BY <1>1, <1>2, FS_Injection
<1>4. \E d \in Documents : rank[d] = i
  BY <1>3 DEF Surjection
<1> QED
  BY <1>4 DEF AtRank

LEMMA RankOf ==
    ASSUME NEW rank \in IssueOrders, NEW d \in Documents
    PROVE  /\ rank[d] \in Documents /\ rank[d] \in Nat /\ rank[d] - 1 \in Nat
           /\ AtRank(rank, rank[d]) = d
<1>1. rank[d] \in Documents /\ rank[d] \in Nat /\ rank[d] - 1 \in Nat
  BY BoundsNat DEF IssueOrders, Documents
<1>2. AtRank(rank, rank[d]) \in Documents /\ rank[AtRank(rank, rank[d])] = rank[d]
  BY <1>1, RanksAreFull
<1> QED
  BY <1>1, <1>2 DEF IssueOrders

\* A sum over the debts can be taken in the order of their issue dates.
LEMMA SumByRank ==
    ASSUME NEW rank \in IssueOrders, NEW f \in [Documents -> Nat], NEW h,
           \A i \in Documents : h[i] = f[AtRank(rank, i)]
    PROVE  LineSum(f) = SumTo(h, MaxDocuments)
<1> DEFINE N == MaxDocuments
           upTo(i) == [d \in Documents |-> IF rank[d] <= i THEN f[d] ELSE 0]
           S == {i \in Nat : i <= N => SumTo(upTo(i), N) = SumTo(h, i)}
<1>1. 0 \in S
  <2>1. \A d \in 1 .. N : upTo(0)[d] = IF d = 0 THEN 0 ELSE 0
    BY RankOf, BoundsNat DEF Documents
  <2>2. SumTo(upTo(0), N) = 0
    <3> HIDE DEF upTo
    <3> QED
      BY <2>1, BoundsNat, SumOne
  <2>3. SumTo(h, 0) = 0
    BY SumUnfold
  <2> QED
    BY <2>2, <2>3
<1>2. ASSUME NEW i \in Nat, i \in S PROVE i + 1 \in S
  <2> SUFFICES ASSUME i + 1 <= N PROVE SumTo(upTo(i + 1), N) = SumTo(h, i + 1)
    OBVIOUS
  <2> DEFINE d == AtRank(rank, i + 1)
             one == [e \in Documents |-> IF e = d THEN f[d] ELSE 0]
  <2>1. i + 1 \in Documents
    BY BoundsNat DEF Documents
  <2>2. d \in Documents /\ rank[d] = i + 1 /\ f[d] \in Nat /\ d \in Nat /\ d \in 1 .. N
    BY <2>1, RanksAreFull DEF Documents
  <2>3. \A e \in 1 .. N : /\ upTo(i)[e] \in Nat /\ one[e] \in Nat
                          /\ upTo(i + 1)[e] = upTo(i)[e] + one[e]
    <3> SUFFICES ASSUME NEW e \in Documents
                 PROVE  /\ upTo(i)[e] \in Nat /\ one[e] \in Nat
                        /\ upTo(i + 1)[e] = upTo(i)[e] + one[e]
      BY DEF Documents
    <3>1. rank[e] \in Nat /\ f[e] \in Nat
      BY RankOf
    <3>2. rank[e] = i + 1 <=> e = d
      BY <2>2, RankOf
    <3> QED
      BY <3>1, <3>2, <2>2
  <2>4. \A e \in 1 .. N : one[e] = IF e = d THEN f[d] ELSE 0
    BY DEF Documents
  <2>5. SumTo(one, N) = f[d]
    <3> HIDE DEF one, d
    <3> QED
      BY <2>2, <2>4, BoundsNat, SumOne
  <2>6. SumTo(upTo(i + 1), N) = SumTo(upTo(i), N) + SumTo(one, N)
    <3> HIDE DEF upTo, one
    <3> QED
      BY <2>3, BoundsNat, SumPlus
  <2>7. SumTo(h, i + 1) = SumTo(h, i) + f[d]
    <3>1. i + 1 \in Nat \ {0} /\ (i + 1) - 1 = i
      OBVIOUS
    <3>2. SumTo(h, i + 1) = SumTo(h, i) + h[i + 1]
      BY <3>1, SumUnfold
    <3> QED
      BY <2>1, <3>2
  <2>8. SumTo(upTo(i), N) = SumTo(h, i)
    BY <1>2, BoundsNat
  <2> QED
    BY <2>5, <2>6, <2>7, <2>8
<1> HIDE DEF S
<1>3. N \in S
  BY <1>1, <1>2, BoundsNat, NatInductionSet
<1>4. \A d \in 1 .. N : upTo(N)[d] = f[d]
  BY RankOf DEF Documents
<1>5. SumTo(upTo(N), N) = SumTo(f, N)
  <2> HIDE DEF upTo
  <2> QED
    BY <1>4, BoundsNat, SumSame
<1> QED
  BY <1>3, <1>5, BoundsNat DEF S, LineSum

\* What is left follows its recursive definition, and each line takes from it: after
\* the first n debts the payment minus what they owe, and never less than nothing.
LEMMA FifoUnfold ==
    ASSUME docs \in [Documents -> Document], pays \in PaymentTable,
           alloc \in AllocationTable, NEW c, NEW amount \in Nat, NEW rank
    PROVE  \E left : /\ IsLeft(c, amount, rank, left)
                     /\ FifoLines(c, amount, rank)
                        = [d \in Documents |-> Take(OwedBy(c, d), left[rank[d] - 1])]
<1> DEFINE owed(d) == IF d \in FifoCandidates(c) THEN OpenBalance(d) ELSE 0
           at(i) == CHOOSE d \in Documents : rank[d] = i
           left == CHOOSE left : left = [i \in Nat |->
                      IF i = 0 THEN amount
                      ELSE left[i - 1] - Take(owed(at(i)), left[i - 1])]
           o == [i \in Nat |-> owed(at(i))]
           w == [i \in Nat |-> IF SumTo(o, i) >= amount THEN 0 ELSE amount - SumTo(o, i)]
<1>1. \A x : owed(x) \in Nat
  BY OpenBalanceNat DEF FifoCandidates
<1>2. FifoLines(c, amount, rank) = [d \in Documents |-> Take(owed(d), left[rank[d] - 1])]
  BY DEF FifoLines
<1>3. \A i \in Nat : o[i] = owed(at(i)) /\ o[i] \in Nat
  BY <1>1
<1>4. \A i \in Nat : w[i] = IF SumTo(o, i) >= amount THEN 0 ELSE amount - SumTo(o, i)
  OBVIOUS
<1>5. \E f : f = [i \in Nat |-> IF i = 0 THEN amount
                                ELSE f[i - 1] - Take(owed(at(i)), f[i - 1])]
  <2> HIDE DEF owed, at, o
  <2>1. \A i \in Nat : SumTo(o, i) \in Nat
    BY <1>3, SumNat
  <2>2. SumTo(o, 0) = 0 /\ \A i \in Nat \ {0} : SumTo(o, i) = SumTo(o, i - 1) + o[i]
    BY SumUnfold
  <2>3. w[0] = amount
    BY <1>4, <2>2
  <2>4. ASSUME NEW i \in Nat, i # 0
        PROVE  w[i] = w[i - 1] - Take(owed(at(i)), w[i - 1])
    <3> HIDE DEF w
    <3>1. i - 1 \in Nat
      BY <2>4
    <3>2. SumTo(o, i) = SumTo(o, i - 1) + owed(at(i)) /\ owed(at(i)) \in Nat
      BY <2>2, <2>4, <1>3
    <3>3. SumTo(o, i - 1) \in Nat
      BY <2>1, <3>1
    <3>4. w[i] = IF SumTo(o, i) >= amount THEN 0 ELSE amount - SumTo(o, i)
      BY <1>4
    <3>5. w[i - 1] = IF SumTo(o, i - 1) >= amount THEN 0 ELSE amount - SumTo(o, i - 1)
      BY <1>4, <3>1
    <3> QED
      BY <3>2, <3>3, <3>4, <3>5 DEF Take
  <2>5. w = [i \in Nat |-> IF i = 0 THEN amount
                           ELSE w[i - 1] - Take(owed(at(i)), w[i - 1])]
    BY <2>3, <2>4
  <2> QED
    BY <2>5
<1>6. left = [i \in Nat |-> IF i = 0 THEN amount
                            ELSE left[i - 1] - Take(owed(at(i)), left[i - 1])]
  BY <1>5, Zenon
<1> HIDE DEF left, owed, at
<1>7. \A i \in Nat : left[i] \in Nat
  <2> DEFINE S == {i \in Nat : left[i] \in Nat}
  <2>1. 0 \in S
    BY <1>6
  <2>2. ASSUME NEW i \in Nat, i \in S PROVE i + 1 \in S
    <3>1. left[i + 1] = left[i] - Take(owed(at(i + 1)), left[i])
      BY <1>6
    <3> QED
      BY <3>1, <2>2, <1>1 DEF Take
  <2> HIDE DEF S
  <2>3. Nat \subseteq S
    BY <2>1, <2>2, NatInductionSet
  <2> QED
    BY <2>3 DEF S
<1>8. IsLeft(c, amount, rank, left)
  <2>1. \A x : OwedBy(c, x) = owed(x)
    BY DEF OwedBy, owed
  <2>2. \A i : AtRank(rank, i) = at(i)
    BY DEF AtRank, at
  <2>3. \A i \in Nat : left[i + 1] = left[i] - Take(owed(at(i + 1)), left[i])
    BY <1>6
  <2> QED
    BY <1>6, <1>7, <2>1, <2>2, <2>3 DEF IsLeft
<1>9. FifoLines(c, amount, rank) = [d \in Documents |-> Take(OwedBy(c, d), left[rank[d] - 1])]
  BY <1>2 DEF OwedBy, owed
<1> QED
  BY <1>8, <1>9

\* FIFO lines are amounts.
LEMMA FifoLinesType ==
    ASSUME docs \in [Documents -> Document], pays \in PaymentTable,
           alloc \in AllocationTable, NEW c, NEW amount \in Nat, NEW rank \in IssueOrders
    PROVE  FifoLines(c, amount, rank) \in [Documents -> Nat]
<1>1. PICK left : /\ IsLeft(c, amount, rank, left)
                  /\ FifoLines(c, amount, rank)
                     = [d \in Documents |-> Take(OwedBy(c, d), left[rank[d] - 1])]
  BY FifoUnfold
<1>2. \A d \in Documents : Take(OwedBy(c, d), left[rank[d] - 1]) \in Nat
  BY <1>1, OwedByNat, RankOf DEF IsLeft, Take
<1> QED
  BY <1>1, <1>2

\* What is left never grows.
LEMMA LeftShrinks ==
    ASSUME docs \in [Documents -> Document], pays \in PaymentTable,
           alloc \in AllocationTable, NEW c, NEW amount, NEW rank, NEW left,
           IsLeft(c, amount, rank, left), NEW i \in Nat
    PROVE  \A j \in Nat : i <= j => left[j] <= left[i]
<1> DEFINE S == {j \in Nat : i <= j => left[j] <= left[i]}
<1>1. 0 \in S
  BY DEF IsLeft
<1>2. ASSUME NEW j \in Nat, j \in S PROVE j + 1 \in S
  <2>1. OwedBy(c, AtRank(rank, j + 1)) \in Nat
    BY OwedByNat
  <2>2. left[j + 1] <= left[j] /\ left[j] \in Nat /\ left[j + 1] \in Nat /\ left[i] \in Nat
    BY <2>1 DEF IsLeft, Take
  <2>3. CASE i = j + 1
    BY <2>2, <2>3
  <2>4. CASE i # j + 1
    BY <1>2, <2>2, <2>4
  <2> QED
    BY <2>3, <2>4
<1> HIDE DEF S
<1>3. Nat \subseteq S
  BY <1>1, <1>2, NatInductionSet
<1> QED
  BY <1>3 DEF S

\* What the lines took and what is left make up the amount, and nothing is left
\* while a debt is open.
LEMMA LeftAndTaken ==
    ASSUME docs \in [Documents -> Document], pays \in PaymentTable,
           alloc \in AllocationTable, NEW c, NEW amount \in Nat, NEW rank, NEW left,
           IsLeft(c, amount, rank, left), NEW o, NEW h, InOrder(c, rank, left, o, h)
    PROVE  \A i \in Nat : /\ SumTo(o, i) \in Nat /\ left[i] \in Nat
                          /\ SumTo(h, i) + left[i] = amount
                          /\ left[i] = IF SumTo(o, i) >= amount THEN 0 ELSE amount - SumTo(o, i)
<1> DEFINE S == {i \in Nat : /\ SumTo(o, i) \in Nat /\ left[i] \in Nat
                            /\ SumTo(h, i) + left[i] = amount
                            /\ left[i] = IF SumTo(o, i) >= amount THEN 0 ELSE amount - SumTo(o, i)}
<1>1. 0 \in S
  <2>1. SumTo(o, 0) = 0 /\ SumTo(h, 0) = 0
    BY SumUnfold
  <2> QED
    BY <2>1 DEF IsLeft, InOrder
<1>2. ASSUME NEW i \in Nat, i \in S PROVE i + 1 \in S
  <2>1. i + 1 \in Nat \ {0} /\ (i + 1) - 1 = i
    OBVIOUS
  <2>2. SumTo(o, i + 1) = SumTo(o, i) + o[i + 1] /\ SumTo(h, i + 1) = SumTo(h, i) + h[i + 1]
    BY <2>1, SumUnfold
  <2>3. o[i + 1] \in Nat /\ h[i + 1] = Take(o[i + 1], left[i])
    BY <2>1, OwedByNat DEF InOrder
  <2>4. left[i + 1] = left[i] - Take(o[i + 1], left[i])
    BY <2>1 DEF IsLeft, InOrder
  <2>5. SumTo(h, i) = amount - left[i]
    <3>1. SumTo(h, i) \in Nat
      <4>1. \A j \in 1 .. i : h[j] \in Nat
        <5> SUFFICES ASSUME NEW j \in 1 .. i PROVE h[j] \in Nat
          OBVIOUS
        <5>1. j - 1 \in Nat /\ (j - 1) + 1 = j
          OBVIOUS
        <5>2. h[j] = Take(o[j], left[j - 1]) /\ o[j] \in Nat /\ left[j - 1] \in Nat
          BY <5>1, OwedByNat DEF IsLeft, InOrder
        <5> QED
          BY <5>2 DEF Take
      <4> QED
        BY <4>1, SumNat
    <3> QED
      BY <3>1, <1>2
  <2>6. /\ SumTo(o, i) \in Nat /\ left[i] \in Nat
        /\ left[i] = IF SumTo(o, i) >= amount THEN 0 ELSE amount - SumTo(o, i)
    BY <1>2
  <2> HIDE DEF S
  <2>7. SumTo(o, i + 1) \in Nat /\ left[i + 1] \in Nat
    BY <2>2, <2>3, <2>4, <2>6 DEF Take
  <2>8. SumTo(h, i + 1) + left[i + 1] = amount
    BY <2>2, <2>3, <2>4, <2>5, <2>6 DEF Take
  <2>9. left[i + 1] = IF SumTo(o, i + 1) >= amount THEN 0 ELSE amount - SumTo(o, i + 1)
    BY <2>2, <2>3, <2>4, <2>6 DEF Take
  <2> QED
    BY <2>1, <2>7, <2>8, <2>9 DEF S
<1> HIDE DEF S
<1>3. Nat \subseteq S
  BY <1>1, <1>2, NatInductionSet
<1> QED
  BY <1>3 DEF S

\* FIFO lines pay the oldest debts first and waste nothing.
LEMMA FifoLinesFacts ==
    ASSUME docs \in [Documents -> Document], pays \in PaymentTable,
           alloc \in AllocationTable, NEW c, NEW amount \in Nat, NEW rank \in IssueOrders,
           NEW lines, lines = FifoLines(c, amount, rank),
           NEW owed, owed = [d \in Documents |-> OwedBy(c, d)]
    PROVE  /\ \A d, e \in Documents : lines[d] > 0 /\ rank[e] < rank[d] => lines[e] = owed[e]
           /\ LineSum(lines) = IF LineSum(owed) < amount THEN LineSum(owed) ELSE amount
<1>1. PICK left : /\ IsLeft(c, amount, rank, left)
                  /\ lines = [d \in Documents |-> Take(OwedBy(c, d), left[rank[d] - 1])]
  BY FifoUnfold
<1>2. lines \in [Documents -> Nat]
  BY FifoLinesType
<1>3. owed \in [Documents -> Nat]
  BY OwedByNat
<1>4. ASSUME NEW d \in Documents, NEW e \in Documents, lines[d] > 0, rank[e] < rank[d]
      PROVE  lines[e] = owed[e]
  <2>1. /\ rank[e] \in Nat /\ rank[e] - 1 \in Nat /\ rank[d] - 1 \in Nat
        /\ rank[e] <= rank[d] - 1 /\ AtRank(rank, rank[e]) = e /\ (rank[e] - 1) + 1 = rank[e]
    BY <1>4, RankOf
  <2>2. left[rank[d] - 1] > 0
    <3>1. lines[d] = Take(OwedBy(c, d), left[rank[d] - 1]) /\ left[rank[d] - 1] \in Nat
      BY <1>1, <2>1 DEF IsLeft
    <3> QED
      BY <1>4, <3>1, OwedByNat DEF Take
  <2>3. left[rank[e]] > 0
    <3>1. left[rank[d] - 1] <= left[rank[e]]
      BY <1>1, <2>1, LeftShrinks
    <3>2. left[rank[d] - 1] \in Nat /\ left[rank[e]] \in Nat
      BY <1>1, <2>1 DEF IsLeft
    <3> QED
      BY <2>2, <3>1, <3>2
  <2>4. left[rank[e]] = left[rank[e] - 1] - Take(OwedBy(c, e), left[rank[e] - 1])
    BY <1>1, <2>1 DEF IsLeft
  <2>5. lines[e] = Take(OwedBy(c, e), left[rank[e] - 1]) /\ owed[e] = OwedBy(c, e)
    BY <1>1
  <2>6. left[rank[e] - 1] \in Nat /\ OwedBy(c, e) \in Nat
    BY <1>1, <2>1, OwedByNat DEF IsLeft
  <2> QED
    BY <2>3, <2>4, <2>5, <2>6 DEF Take
<1>5. LineSum(lines) = IF LineSum(owed) < amount THEN LineSum(owed) ELSE amount
  <2> DEFINE o == [i \in Nat |-> OwedBy(c, AtRank(rank, i))]
             h == [i \in Nat |-> Take(o[i], left[i - 1])]
  <2>1. InOrder(c, rank, left, o, h)
    BY DEF InOrder
  <2>2. \A i \in Documents : o[i] = owed[AtRank(rank, i)] /\ h[i] = lines[AtRank(rank, i)]
    <3> SUFFICES ASSUME NEW i \in Documents
                 PROVE  o[i] = owed[AtRank(rank, i)] /\ h[i] = lines[AtRank(rank, i)]
      OBVIOUS
    <3>1. AtRank(rank, i) \in Documents /\ rank[AtRank(rank, i)] = i /\ i \in Nat
      BY RanksAreFull DEF Documents
    <3> QED
      BY <1>1, <3>1
  <2> HIDE DEF o, h
  <2>3. LineSum(owed) = SumTo(o, MaxDocuments) /\ LineSum(lines) = SumTo(h, MaxDocuments)
    BY <1>2, <1>3, <2>2, SumByRank
  <2>4. /\ SumTo(o, MaxDocuments) \in Nat /\ left[MaxDocuments] \in Nat
        /\ SumTo(h, MaxDocuments) + left[MaxDocuments] = amount
        /\ left[MaxDocuments] = IF SumTo(o, MaxDocuments) >= amount THEN 0
                                ELSE amount - SumTo(o, MaxDocuments)
    <3>1. \A i \in Nat : /\ SumTo(o, i) \in Nat /\ left[i] \in Nat
                         /\ SumTo(h, i) + left[i] = amount
                         /\ left[i] = IF SumTo(o, i) >= amount THEN 0 ELSE amount - SumTo(o, i)
      BY <1>1, <2>1, LeftAndTaken
    <3> QED
      BY <3>1, BoundsNat
  <2>5. SumTo(h, MaxDocuments) \in Nat
    BY <1>2, <2>3, LineSumNat
  <2> QED
    BY <2>3, <2>4, <2>5
<1> QED
  BY <1>4, <1>5

-----------------------------------------------------------------------------
(* The inductive invariant. MoneyCountedOnce and the step properties do not *)
(* follow from the types alone: they need what is allocated to be within    *)
(* the payment's funds, the rows of other payments to be gone, and the debt *)
(* a write-off closed to owe nothing.                                       *)

AllocationsWithinFunds == \A p \in Payments : LineSum(alloc[p]) <= Funds(p)

RowsOfActivePayments == \A p \in Payments, d \in Documents : ~ ActivePayment(p) => alloc[p][d] = 0

AbsentIsPending == \A d \in Documents : docs[d].life = "absent" => docs[d].status = Pending

ExoneratedOwesNothing == \A d \in Documents : docs[d].status = Exonerado => docs[d].balance = 0

IInv == /\ TypeOK
        /\ AllocationsWithinFunds
        /\ RowsOfActivePayments
        /\ AbsentIsPending
        /\ ExoneratedOwesNothing
        /\ MoneyRestsOnOwnDebts

LEMMA NoLinesSum == LineSum(NoLines) = 0
<1>1. \A i \in 1 .. MaxDocuments : NoLines[i] = IF i = 0 THEN 0 ELSE 0
  BY DEF NoLines, Documents
<1>2. SumTo(NoLines, MaxDocuments) = 0
  BY <1>1, BoundsNat, SumOne
<1> QED
  BY <1>2 DEF LineSum

\* Amounts all 0 add up to 0.
LEMMA EmptySum ==
    ASSUME NEW f, \A d \in Documents : f[d] = 0
    PROVE  LineSum(f) = 0
<1>1. \A i \in 1 .. MaxDocuments : f[i] = IF i = 0 THEN 0 ELSE 0
  BY DEF Documents
<1>2. SumTo(f, MaxDocuments) = 0
  BY <1>1, BoundsNat, SumOne
<1> QED
  BY <1>2 DEF LineSum

LEMMA InitIInv == Init => IInv
<1> SUFFICES ASSUME Init PROVE IInv
    OBVIOUS
<1> USE DEF Init
<1>1. NoDocument \in Document /\ NoPayment \in Payment
  BY DEF NoDocument, NoPayment, Document, Payment, Statuses
<1>2. TypeOK
  BY <1>1 DEF TypeOK, NoLines
<1>3. AllocationsWithinFunds
  <2>1. \A p \in Payments : alloc[p] = NoLines /\ Funds(p) = 0
    BY DEF Funds, ActivePayment, NoPayment
  <2>2. \A p \in Payments : LineSum(alloc[p]) = 0
    BY <2>1, NoLinesSum
  <2> QED
    BY <2>1, <2>2 DEF AllocationsWithinFunds
<1>4. RowsOfActivePayments /\ AbsentIsPending /\ ExoneratedOwesNothing
  BY DEF RowsOfActivePayments, AbsentIsPending, ExoneratedOwesNothing, NoLines, NoDocument,
         Pending, Exonerado
<1>5. MoneyRestsOnOwnDebts
  <2>1. \A p \in Payments, d \in Documents : alloc[p][d] = 0 /\ pays[p].life = "absent"
    BY DEF NoLines, NoPayment
  <2> QED
    BY <2>1 DEF MoneyRestsOnOwnDebts, ActivePayment
<1> QED
  BY <1>2, <1>3, <1>4, <1>5 DEF IInv

-----------------------------------------------------------------------------
(* Debts. A request on one debt leaves payments and allocations alone. *)

\* What is left to show when a step changes the debt d and nothing else.
LEMMA DocumentStep ==
    ASSUME IInv, NEW d \in Documents, NEW new \in Document,
           docs' = [docs EXCEPT ![d] = new], UNCHANGED <<pays, alloc>>,
           new.life # "absent",
           new.status = Exonerado => new.balance = 0,
           \A p \in Payments : alloc[p][d] > 0 \/ (ActivePayment(p) /\ pays[p].document = d)
               => new.life = "live" /\ new.company = docs[d].company
    PROVE  IInv'
<1>1. TypeOK'
  BY DEF IInv, TypeOK
<1>2. AllocationsWithinFunds' /\ RowsOfActivePayments'
  BY DEF IInv, AllocationsWithinFunds, RowsOfActivePayments, Funds, ActivePayment
<1>3. \A e \in Documents : docs'[e] = IF e = d THEN new ELSE docs[e]
  BY DEF IInv, TypeOK
<1>4. AbsentIsPending'
  BY <1>3 DEF IInv, AbsentIsPending
<1>5. ExoneratedOwesNothing'
  BY <1>3 DEF IInv, ExoneratedOwesNothing
<1>6. MoneyRestsOnOwnDebts'
  BY <1>3 DEF IInv, MoneyRestsOnOwnDebts, LiveDocument, ActivePayment
<1> QED
  BY <1>1, <1>2, <1>4, <1>5, <1>6 DEF IInv

LEMMA CreateDocumentIInv ==
    ASSUME IInv, NEW c \in Companies, NEW total \in Totals, NEW st \in Statuses \ {Exonerado},
           CreateDocument(c, total, st)
    PROVE  IInv'
<1>1. PICK d \in Documents :
         /\ NextDocument(d)
         /\ docs' = [docs EXCEPT ![d] =
                       [life |-> "live", company |-> c, total |-> total, status |-> st,
                        balance |-> IF st = Cancelled THEN 0 ELSE total]]
         /\ UNCHANGED <<pays, alloc>>
  BY DEF CreateDocument
<1> DEFINE new == [life |-> "live", company |-> c, total |-> total, status |-> st,
                   balance |-> IF st = Cancelled THEN 0 ELSE total]
<1>2. new \in Document /\ new.life = "live" /\ new.status # Exonerado
  BY LedgerAssumption DEF Document
<1>3. \A p \in Payments : ~ (alloc[p][d] > 0 \/ (ActivePayment(p) /\ pays[p].document = d))
  BY <1>1 DEF IInv, MoneyRestsOnOwnDebts, LiveDocument, NextDocument
<1>4. docs' = [docs EXCEPT ![d] = new] /\ UNCHANGED <<pays, alloc>>
  BY <1>1
<1>5. new.life # "absent" /\ (new.status = Exonerado => new.balance = 0)
  BY <1>2
<1> HIDE DEF new
<1> QED
  BY <1>2, <1>3, <1>4, <1>5, DocumentStep

LEMMA EnsureMonthlyChargeIInv ==
    ASSUME IInv, NEW c \in Companies, NEW price \in PlanPrices, EnsureMonthlyCharge(c, price)
    PROVE  IInv'
<1>1. PICK d \in Documents :
         /\ NextDocument(d)
         /\ docs' = [docs EXCEPT ![d] =
                       [life |-> "live", company |-> c, total |-> price, status |-> Pending,
                        balance |-> 0]]
         /\ UNCHANGED <<pays, alloc>>
  BY DEF EnsureMonthlyCharge
<1> DEFINE new == [life |-> "live", company |-> c, total |-> price, status |-> Pending,
                   balance |-> 0]
<1>2. new \in Document /\ new.life = "live" /\ new.balance = 0
  BY LedgerAssumption DEF Document, Statuses
<1>3. \A p \in Payments : ~ (alloc[p][d] > 0 \/ (ActivePayment(p) /\ pays[p].document = d))
  BY <1>1 DEF IInv, MoneyRestsOnOwnDebts, LiveDocument, NextDocument
<1>4. docs' = [docs EXCEPT ![d] = new] /\ UNCHANGED <<pays, alloc>>
  BY <1>1
<1> HIDE DEF new
<1> QED
  BY <1>2, <1>3, <1>4, DocumentStep

LEMMA UpdateDocumentIInv ==
    ASSUME IInv, NEW d \in Documents, NEW total \in Totals, NEW st \in Statuses \ {Exonerado},
           UpdateDocument(d, total, st)
    PROVE  IInv'
<1> DEFINE new == [docs[d] EXCEPT !.total = total, !.status = st]
<1>1. docs[d] \in Document
  BY DEF IInv, TypeOK
<1>2. /\ new \in Document /\ new.life = docs[d].life /\ new.company = docs[d].company
      /\ new.status # Exonerado
  BY <1>1, LedgerAssumption DEF Document
<1>3. docs' = [docs EXCEPT ![d] = new] /\ UNCHANGED <<pays, alloc>> /\ docs[d].life = "live"
  BY DEF UpdateDocument, LiveDocument, IInv, TypeOK
<1>4. new.life # "absent" /\ (new.status = Exonerado => new.balance = 0)
  BY <1>2, <1>3
<1>5. new \in Document /\ new.life = "live" /\ new.company = docs[d].company
  BY <1>2, <1>3
<1> HIDE DEF new
<1> QED
  BY <1>3, <1>4, <1>5, DocumentStep

LEMMA DeleteDocumentIInv ==
    ASSUME IInv, NEW d \in Documents, DeleteDocument(d)
    PROVE  IInv'
<1> DEFINE new == [docs[d] EXCEPT !.life = "deleted"]
<1>1. docs[d] \in Document
  BY DEF IInv, TypeOK
<1>2. /\ new \in Document /\ new.life = "deleted" /\ new.status = docs[d].status
      /\ new.balance = docs[d].balance
  BY <1>1 DEF Document
<1>3. docs' = [docs EXCEPT ![d] = new] /\ UNCHANGED <<pays, alloc>>
  BY DEF DeleteDocument, IInv, TypeOK
<1>4. \A p \in Payments : ~ (alloc[p][d] > 0 \/ (ActivePayment(p) /\ pays[p].document = d))
  BY DEF DeleteDocument, HasPayments
<1>5. new.status = Exonerado => new.balance = 0
  BY <1>2 DEF IInv, ExoneratedOwesNothing
<1> HIDE DEF new
<1> QED
  BY <1>2, <1>3, <1>4, <1>5, DocumentStep

LEMMA WriteOffIInv ==
    ASSUME IInv, NEW d \in Documents, NEW st \in {Exonerado, Cancelled},
           WriteOffUnlinkedDebt(d, st)
    PROVE  IInv'
<1> DEFINE new == [docs[d] EXCEPT !.status = st, !.balance = 0]
<1>1. docs[d] \in Document
  BY DEF IInv, TypeOK
<1>2. st \in Statuses
  BY DEF Statuses
<1>3. /\ new \in Document /\ new.life = docs[d].life /\ new.company = docs[d].company
      /\ new.balance = 0
  BY <1>1, <1>2 DEF Document
<1>4. docs' = [docs EXCEPT ![d] = new] /\ UNCHANGED <<pays, alloc>> /\ docs[d].life = "live"
  BY DEF WriteOffUnlinkedDebt, CanWriteOff, LiveDocument, IInv, TypeOK
<1> HIDE DEF new
<1> QED
  BY <1>3, <1>4, DocumentStep

-----------------------------------------------------------------------------
(* Payments. A request on one payment writes its row and its allocations,   *)
(* and recomputes the debts it touched.                                     *)

\* What is left to show when a step writes payment p, its allocations, and the
\* debts PersistBalanceAndStatus was called for.
LEMMA PaymentStep ==
    ASSUME IInv, NEW p \in Payments, NEW new \in Payment,
           NEW lines \in [Documents -> Nat], NEW touched,
           pays' = [pays EXCEPT ![p] = new],
           alloc' = [alloc EXCEPT ![p] = lines],
           docs' = Persisted(touched, pays', alloc'),
           new.life # "active" => \A d \in Documents : lines[d] = 0,
           LineSum(lines) <= IF new.life = "active" THEN new.amount + new.discount ELSE 0,
           \A d \in Documents : lines[d] > 0 \/ (new.life = "active" /\ new.document = d)
               => LiveDocument(d) /\ docs[d].company = new.company,
           \A d \in Documents : d \in touched => LiveDocument(d)
    PROVE  IInv'
<1>1. pays' \in PaymentTable /\ alloc' \in AllocationTable /\ docs \in [Documents -> Document]
  BY DEF IInv, TypeOK, PaymentTable, AllocationTable
<1>2. \A q \in Payments : /\ pays'[q] = IF q = p THEN new ELSE pays[q]
                          /\ alloc'[q] = IF q = p THEN lines ELSE alloc[q]
  BY DEF IInv, TypeOK
<1>3. \A d \in Documents : /\ docs'[d].life = docs[d].life
                           /\ docs'[d].company = docs[d].company
                           /\ d \notin touched => docs'[d] = docs[d]
                           /\ IsTerminalWriteoffStatus(docs[d].status) => docs'[d] = docs[d]
                           /\ ~ IsTerminalWriteoffStatus(docs[d].status)
                              => ~ IsTerminalWriteoffStatus(docs'[d].status)
  BY <1>1, PersistedFacts
<1>4. TypeOK'
  <2>1. docs' \in [Documents -> Document]
    BY <1>1, PersistedFacts
  <2> QED
    BY <1>1, <2>1 DEF TypeOK, PaymentTable, AllocationTable
<1>5. AllocationsWithinFunds'
  BY <1>2 DEF IInv, AllocationsWithinFunds, Funds, ActivePayment
<1>6. RowsOfActivePayments'
  BY <1>2 DEF IInv, RowsOfActivePayments, ActivePayment
<1>7. AbsentIsPending'
  <2> SUFFICES ASSUME NEW d \in Documents, docs'[d].life = "absent"
               PROVE  docs'[d].status = Pending
    BY DEF AbsentIsPending
  <2>1. docs[d].life = "absent" /\ docs[d].status = Pending
    BY <1>3 DEF IInv, AbsentIsPending
  <2>2. docs'[d] = docs[d]
    BY <1>3, <2>1 DEF LiveDocument
  <2> QED
    BY <2>1, <2>2
<1>8. ExoneratedOwesNothing'
  <2> SUFFICES ASSUME NEW d \in Documents, docs'[d].status = Exonerado
               PROVE  docs'[d].balance = 0
    BY DEF ExoneratedOwesNothing
  <2>1. IsTerminalWriteoffStatus(docs'[d].status)
    BY DEF IsTerminalWriteoffStatus
  <2>2. docs'[d] = docs[d]
    BY <1>3, <2>1
  <2> QED
    BY <2>2 DEF IInv, ExoneratedOwesNothing
<1>9. MoneyRestsOnOwnDebts'
  <2> SUFFICES ASSUME NEW q \in Payments, NEW d \in Documents,
                      alloc'[q][d] > 0 \/ (pays'[q].life = "active" /\ pays'[q].document = d)
               PROVE  docs'[d].life = "live" /\ docs'[d].company = pays'[q].company
    BY DEF MoneyRestsOnOwnDebts, LiveDocument, ActivePayment
  <2>1. docs[d].life = "live" /\ docs[d].company = pays'[q].company
    BY <1>2 DEF IInv, MoneyRestsOnOwnDebts, LiveDocument, ActivePayment
  <2> QED
    BY <2>1, <1>3
<1> QED
  BY <1>4, <1>5, <1>6, <1>7, <1>8, <1>9 DEF IInv

\* What ValidAllocations says of the debts that get money.
LEMMA LinesRest ==
    ASSUME NEW c, NEW lines \in [Documents -> Nat], ValidAllocations(c, lines)
    PROVE  /\ \A d \in Documents : lines[d] > 0 => LiveDocument(d) /\ docs[d].company = c
           /\ \A d \in Documents : d \in LineDocuments(lines) => LiveDocument(d)
BY DEF ValidAllocations, LineDocuments

\* A payment row that does not exist has no allocations.
LEMMA FreshPayment ==
    ASSUME IInv, NEW p \in Payments, NextPayment(p)
    PROVE  ~ ActivePayment(p) /\ alloc[p] \in [Documents -> Nat] /\ \A d \in Documents : alloc[p][d] = 0
BY DEF IInv, TypeOK, NextPayment, ActivePayment, RowsOfActivePayments

LEMMA CreateOnAccountIInv ==
    ASSUME IInv, NEW c \in Companies, NEW amount \in Amounts, NEW purpose \in Purposes,
           CreateOnAccount(c, amount, purpose)
    PROVE  IInv'
<1> DEFINE new == NewPayment("on_account", c, amount, 0, purpose)
<1>1. PICK p \in Payments : /\ NextPayment(p)
                            /\ pays' = [pays EXCEPT ![p] = new]
                            /\ UNCHANGED <<docs, alloc>>
  BY DEF CreateOnAccount
<1>2. /\ new \in Payment /\ new.life = "active" /\ new.document = 0
      /\ new.amount \in Nat /\ new.discount \in Nat
  BY LedgerAssumption DEF NewPayment, NoPayment, Payment
<1> DEFINE rows == alloc[p]
           none == {}
<1>3. rows \in [Documents -> Nat] /\ \A d \in Documents : rows[d] = 0
  BY <1>1, FreshPayment
<1>4. LineSum(rows) = 0
  BY <1>3, EmptySum
<1>5. docs' = Persisted(none, pays', alloc')
  BY <1>1 DEF Persisted, IInv, TypeOK
<1>6. alloc' = [alloc EXCEPT ![p] = rows]
  BY <1>1 DEF IInv, TypeOK
<1>7. ASSUME NEW d \in Documents, rows[d] > 0 \/ (new.life = "active" /\ new.document = d)
      PROVE  LiveDocument(d) /\ docs[d].company = new.company
  <2>1. new.document = 0 /\ d # 0 /\ rows[d] = 0
    BY <1>2, <1>3 DEF Documents
  <2> QED
    BY <1>7, <2>1
<1>8. /\ new.life # "active" => \A d \in Documents : rows[d] = 0
      /\ LineSum(rows) <= IF new.life = "active" THEN new.amount + new.discount ELSE 0
  BY <1>2, <1>4
<1>9. pays' = [pays EXCEPT ![p] = new]
  BY <1>1
<1>10. \A d \in Documents : d \in none => LiveDocument(d)
  OBVIOUS
<1> HIDE DEF new, rows, none
<1> QED
  BY <1>2, <1>3, <1>5, <1>6, <1>7, <1>8, <1>9, <1>10, PaymentStep

LEMMA ApplyPaymentIInv ==
    ASSUME IInv, NEW c \in Companies, NEW amount \in Amounts, NEW discount \in Nat,
           NEW purpose \in Purposes, NEW lines \in [Documents -> Nat],
           ApplyPayment(c, amount, discount, purpose, lines)
    PROVE  IInv'
<1> DEFINE new == NewPayment("applied", c, amount, discount, purpose)
<1>1. PICK p \in Payments : /\ pays' = [pays EXCEPT ![p] = new]
                            /\ alloc' = [alloc EXCEPT ![p] = lines]
                            /\ docs' = Persisted(LineDocuments(lines), pays', alloc')
  BY DEF ApplyPayment
<1>2. ValidAmounts(amount, discount, lines) /\ ValidAllocations(c, lines)
  BY DEF ApplyPayment
<1>3. /\ new \in Payment /\ new.life = "active" /\ new.document = 0 /\ new.company = c
      /\ new.amount = amount /\ new.discount = discount
  BY LedgerAssumption DEF NewPayment, NoPayment, Payment
<1>4. LineSum(lines) \in Nat /\ amount \in Nat
  BY LineSumNat, LedgerAssumption
<1>5. LineSum(lines) <= amount + discount
  BY <1>2, <1>4 DEF ValidAmounts
<1>6. LineSum(lines) <= IF new.life = "active" THEN new.amount + new.discount ELSE 0
  BY <1>3, <1>5
<1>7. ASSUME NEW d \in Documents, lines[d] > 0 \/ (new.life = "active" /\ new.document = d)
      PROVE  LiveDocument(d) /\ docs[d].company = new.company
  <2>1. new.document = 0 /\ d # 0 /\ new.company = c
    BY <1>3 DEF Documents
  <2>2. lines[d] > 0
    BY <1>7, <2>1
  <2> HIDE DEF new
  <2> QED
    BY <1>2, <2>1, <2>2, LinesRest
<1>8. \A d \in Documents : d \in LineDocuments(lines) => LiveDocument(d)
  BY <1>2, LinesRest
<1>9. new.life # "active" => \A d \in Documents : lines[d] = 0
  BY <1>3
<1>10. pays' = [pays EXCEPT ![p] = new]
  BY <1>1
<1> HIDE DEF new
<1> QED
  BY <1>1, <1>3, <1>6, <1>7, <1>8, <1>9, <1>10, PaymentStep

LEMMA CreateSingleIInv ==
    ASSUME IInv, NEW c \in Companies, NEW d \in Documents, NEW amount \in Amounts,
           NEW discount \in Discounts, NEW purpose \in Purposes,
           CreateSingle(c, d, amount, discount, purpose)
    PROVE  IInv'
<1>1. OpenBalance(d) \in Nat
  BY OpenBalanceNat DEF IInv, TypeOK, PaymentTable, AllocationTable
<1>2. SingleLine(d, amount, discount) \in [Documents -> Nat] /\ discount \in Nat
  BY <1>1, LedgerAssumption DEF SingleLine, NoLines
<1> QED
  BY <1>2, ApplyPaymentIInv DEF CreateSingle

LEMMA CreateFifoIInv ==
    ASSUME IInv, NEW c \in Companies, NEW amount \in Amounts, NEW purpose \in Purposes,
           NEW rank \in IssueOrders, CreateFifo(c, amount, purpose, rank)
    PROVE  IInv'
<1>1. FifoLines(c, amount, rank) \in [Documents -> Nat]
  BY FifoLinesType, LedgerAssumption DEF IInv, TypeOK, PaymentTable, AllocationTable
<1> QED
  BY <1>1, ApplyPaymentIInv DEF CreateFifo

LEMMA AllocateExistingIInv ==
    ASSUME IInv, NEW p \in Payments, NEW lines \in [Documents -> Nat], AllocateExisting(p, lines)
    PROVE  IInv'
<1> DEFINE new == [pays[p] EXCEPT !.type = "applied"]
           rows == [d \in Documents |-> alloc[p][d] + lines[d]]
<1>1. pays[p] \in Payment /\ alloc[p] \in [Documents -> Nat] /\ pays[p].life = "active"
  BY DEF AllocateExisting, CanAllocate, ActivePayment, IInv, TypeOK
<1>2. /\ new \in Payment /\ new.life = "active" /\ new.document = pays[p].document
      /\ new.company = pays[p].company /\ new.amount = pays[p].amount
      /\ new.discount = pays[p].discount /\ new.amount \in Nat /\ new.discount \in Nat
  BY <1>1 DEF Payment
<1>3. rows \in [Documents -> Nat] /\ \A d \in Documents : rows[d] = alloc[p][d] + lines[d]
  BY <1>1
<1>4. LineSum(rows) = LineSum(alloc[p]) + LineSum(lines)
  <2>1. \A i \in 1 .. MaxDocuments : /\ alloc[p][i] \in Nat /\ lines[i] \in Nat
                                     /\ rows[i] = alloc[p][i] + lines[i]
    BY <1>1, <1>3 DEF Documents
  <2> HIDE DEF rows
  <2> QED
    BY <2>1, BoundsNat, SumPlus DEF LineSum
<1>5. LineSum(lines) \in Nat /\ LineSum(alloc[p]) \in Nat
  BY <1>1, LineSumNat
<1>6. LineSum(lines) <= pays[p].amount - LineSum(alloc[p])
  BY DEF AllocateExisting, CanAllocate, Available
<1>7. LineSum(rows) <= IF new.life = "active" THEN new.amount + new.discount ELSE 0
  BY <1>2, <1>4, <1>5, <1>6
<1>8. ValidAllocations(pays[p].company, lines)
  BY DEF AllocateExisting
<1>9. ASSUME NEW d \in Documents, rows[d] > 0 \/ (new.life = "active" /\ new.document = d)
      PROVE  LiveDocument(d) /\ docs[d].company = new.company
  <2>1. CASE lines[d] > 0
    BY <2>1, <1>2, <1>8, LinesRest
  <2>2. CASE ~ (lines[d] > 0)
    <3>1. alloc[p][d] > 0 \/ pays[p].document = d
      BY <2>2, <1>9, <1>1, <1>2, <1>3
    <3> QED
      BY <3>1, <1>1, <1>2 DEF IInv, MoneyRestsOnOwnDebts, ActivePayment
  <2> QED
    BY <2>1, <2>2
<1>10. \A d \in Documents : d \in LineDocuments(lines) => LiveDocument(d)
  BY <1>8, LinesRest
<1>11. pays' = [pays EXCEPT ![p] = new] /\ alloc' = [alloc EXCEPT ![p] = rows]
  BY DEF AllocateExisting, IInv, TypeOK
<1>12. docs' = Persisted(LineDocuments(lines), pays', alloc')
  BY DEF AllocateExisting
<1>13. new.life # "active" => \A d \in Documents : rows[d] = 0
  BY <1>2
<1> HIDE DEF new, rows
<1> QED
  BY <1>2, <1>3, <1>7, <1>9, <1>10, <1>11, <1>12, <1>13, PaymentStep

LEMMA UpdatePaymentIInv ==
    ASSUME IInv, NEW p \in Payments, NEW amount \in Amounts, NEW d \in Documents \cup {0},
           UpdatePayment(p, amount, d)
    PROVE  IInv'
<1> DEFINE new == EditedPayment(pays[p], amount, d)
           rows == alloc[p]
           touched == {d} \ {0}
<1>1. pays[p] \in Payment /\ rows \in [Documents -> Nat]
  BY DEF IInv, TypeOK
<1>2. /\ new \in Payment /\ new.life = pays[p].life /\ new.document = d /\ new.amount = amount
      /\ new.company = pays[p].company /\ amount \in Nat /\ new.discount \in Nat
  BY <1>1, LedgerAssumption DEF EditedPayment, Payment
<1>3. pays[p].life = "active" /\ \A e \in Documents : rows[e] = 0
  <2>1. ActivePayment(p) /\ ~ HasAllocations(alloc, p)
    BY DEF UpdatePayment, Editable
  <2> QED
    BY <2>1, <1>1 DEF ActivePayment, HasAllocations
<1>4. d # 0 => LiveDocument(d) /\ docs[d].company = pays[p].company
  BY DEF UpdatePayment, TieFits, LiveDocument
<1>5. LineSum(rows) = 0
  BY <1>3, EmptySum
<1>6. /\ new.life # "active" => \A e \in Documents : rows[e] = 0
      /\ LineSum(rows) <= IF new.life = "active" THEN new.amount + new.discount ELSE 0
  BY <1>2, <1>3, <1>5
<1>7. ASSUME NEW e \in Documents, rows[e] > 0 \/ (new.life = "active" /\ new.document = e)
      PROVE  LiveDocument(e) /\ docs[e].company = new.company
  <2>1. new.document = d /\ new.company = pays[p].company /\ e # 0 /\ rows[e] = 0
    BY <1>2, <1>3 DEF Documents
  <2>2. e = d
    BY <1>7, <2>1
  <2> QED
    BY <2>1, <2>2, <1>4
<1>8. \A e \in Documents : e \in touched => LiveDocument(e)
  BY <1>4
<1>9. pays' = [pays EXCEPT ![p] = new]
  BY DEF UpdatePayment, IInv, TypeOK
<1>10. alloc' = [alloc EXCEPT ![p] = rows]
  BY DEF UpdatePayment, IInv, TypeOK
<1>11. docs' = Persisted(touched, pays', alloc')
  BY DEF UpdatePayment
<1> HIDE DEF new, rows, touched
<1> QED
  BY <1>1, <1>2, <1>6, <1>7, <1>8, <1>9, <1>10, <1>11, PaymentStep

LEMMA VoidPaymentIInv ==
    ASSUME IInv, NEW p \in Payments, VoidPayment(p)
    PROVE  IInv'
<1> DEFINE new == [pays[p] EXCEPT !.life = "voided"]
           touched == TouchedBy(p)
<1>1. new \in Payment /\ new.life = "voided"
  BY DEF IInv, TypeOK, Payment
<1>2. NoLines \in [Documents -> Nat] /\ \A d \in Documents : NoLines[d] = 0
  BY DEF NoLines
<1>3. /\ new.life # "active" => \A d \in Documents : NoLines[d] = 0
      /\ LineSum(NoLines) <= IF new.life = "active" THEN new.amount + new.discount ELSE 0
  BY <1>1, <1>2, NoLinesSum
<1>4. ASSUME NEW d \in Documents, NoLines[d] > 0 \/ (new.life = "active" /\ new.document = d)
      PROVE  LiveDocument(d) /\ docs[d].company = new.company
  BY <1>1, <1>2, <1>4
<1>5. \A d \in Documents : d \in touched => LiveDocument(d)
  BY DEF VoidPayment
<1>6. /\ pays' = [pays EXCEPT ![p] = new] /\ alloc' = [alloc EXCEPT ![p] = NoLines]
      /\ docs' = Persisted(touched, pays', alloc')
  BY DEF VoidPayment, IInv, TypeOK
<1> HIDE DEF new, touched
<1> QED
  BY <1>1, <1>2, <1>3, <1>4, <1>5, <1>6, PaymentStep

\* The rows the backfill leaves: those of an unconverted legacy payment become
\* one row, of its amount, on the debt its document_id names.
LEMMA BackfillRows ==
    ASSUME IInv, BackfillPaymentAllocations, NEW p \in Payments
    PROVE  /\ alloc'[p] \in [Documents -> Nat]
           /\ ~ NeedsBackfill(p) => alloc'[p] = alloc[p]
           /\ NeedsBackfill(p)
              => /\ pays[p].life = "active" /\ pays[p].document \in Documents
                 /\ \A d \in Documents : alloc[p][d] = 0
                 /\ \A d \in Documents :
                       alloc'[p][d] = IF d = pays[p].document THEN pays[p].amount ELSE 0
<1>1. pays[p] \in Payment /\ alloc[p] \in [Documents -> Nat]
  BY DEF IInv, TypeOK
<1>2. alloc'[p] = IF NeedsBackfill(p)
                  THEN [alloc[p] EXCEPT ![pays[p].document] = @ + pays[p].amount]
                  ELSE alloc[p]
  BY DEF BackfillPaymentAllocations
<1>3. CASE ~ NeedsBackfill(p)
  BY <1>1, <1>2, <1>3
<1>4. CASE NeedsBackfill(p)
  <2>1. pays[p].life = "active" /\ pays[p].document \in Documents /\ pays[p].amount \in Nat
    BY <1>1, <1>4 DEF NeedsBackfill, ActivePayment, Payment
  <2>2. \A d \in Documents : alloc[p][d] = 0
    BY <1>1, <1>4 DEF NeedsBackfill, HasAllocations
  <2> QED
    BY <1>1, <1>2, <1>4, <2>1, <2>2
<1> QED
  BY <1>3, <1>4

LEMMA BackfillIInv ==
    ASSUME IInv, BackfillPaymentAllocations
    PROVE  IInv'
<1> USE BackfillRows
<1>1. UNCHANGED <<docs, pays>>
  BY DEF BackfillPaymentAllocations
<1>2. TypeOK'
  <2>1. alloc' = [p \in Payments |-> alloc'[p]]
    BY DEF BackfillPaymentAllocations
  <2> QED
    BY <1>1, <2>1 DEF IInv, TypeOK
<1>3. AllocationsWithinFunds'
  <2> SUFFICES ASSUME NEW p \in Payments PROVE LineSum(alloc'[p]) <= Funds(p)'
    BY DEF AllocationsWithinFunds
  <2>1. CASE ~ NeedsBackfill(p)
    BY <1>1, <2>1 DEF IInv, AllocationsWithinFunds, Funds, ActivePayment
  <2>2. CASE NeedsBackfill(p)
    <3> DEFINE rows == alloc'[p]
               k == pays[p].document
               v == pays[p].amount
    <3>1. v \in Nat /\ pays[p].discount \in Nat
      BY DEF IInv, TypeOK, Payment
    <3>2. /\ pays[p].life = "active" /\ k \in 1 .. MaxDocuments /\ k \in Nat
          /\ \A i \in 1 .. MaxDocuments : rows[i] = IF i = k THEN v ELSE 0
      BY <2>2, BoundsNat DEF Documents
    <3>3. SumTo(rows, MaxDocuments) = v
      <4> HIDE DEF rows, k, v
      <4> QED
        BY <3>1, <3>2, BoundsNat, SumOne
    <3>4. Funds(p)' = v + pays[p].discount
      BY <1>1, <3>2 DEF Funds, ActivePayment
    <3> QED
      BY <3>1, <3>3, <3>4 DEF LineSum
  <2> QED
    BY <2>1, <2>2
<1>4. RowsOfActivePayments'
  BY <1>1 DEF IInv, RowsOfActivePayments, ActivePayment
<1>5. AbsentIsPending' /\ ExoneratedOwesNothing'
  BY <1>1 DEF IInv, AbsentIsPending, ExoneratedOwesNothing
<1>6. MoneyRestsOnOwnDebts'
  BY <1>1 DEF IInv, MoneyRestsOnOwnDebts, LiveDocument, ActivePayment
<1> QED
  BY <1>2, <1>3, <1>4, <1>5, <1>6 DEF IInv

-----------------------------------------------------------------------------
LEMMA NextIInv == IInv /\ [Next]_vars => IInv'
<1> SUFFICES ASSUME IInv, [Next]_vars PROVE IInv'
    OBVIOUS
<1>1. CASE DocumentNext
  BY <1>1, CreateDocumentIInv, EnsureMonthlyChargeIInv, UpdateDocumentIInv, DeleteDocumentIInv,
     WriteOffIInv DEF DocumentNext
<1>2. CASE PaymentNext
  <2>1. Lines \subseteq [Documents -> Nat] /\ Discounts \subseteq Nat
    <3>1. (\A a \in Amounts \cup {0} : a \in Nat) /\ Discounts \subseteq Nat
      <4>1. \A a \in Amounts : a \in Nat
        BY LedgerAssumption
      <4>2. \A a \in Amounts \cup {0} : a \in Nat
        BY <4>1
      <4>3. Discounts \subseteq Nat
        BY LedgerAssumption
      <4> QED
        BY <4>2, <4>3
    <3>2. ASSUME NEW lines \in [Documents -> Amounts \cup {0}]
          PROVE  lines \in [Documents -> Nat]
      BY <3>1
    <3> QED
      BY <3>1, <3>2 DEF Lines
  <2>2. ASSUME NEW c \in Companies, NEW amount \in Amounts, NEW purpose \in Purposes,
               NEW rank \in IssueOrders, CreateFifoNothingOwed(c, amount, purpose, rank)
        PROVE  IInv'
    BY <2>2, CreateOnAccountIInv DEF CreateFifoNothingOwed
  <2> QED
    BY <1>2, <2>1, <2>2, CreateOnAccountIInv, ApplyPaymentIInv, CreateSingleIInv, CreateFifoIInv,
       AllocateExistingIInv, UpdatePaymentIInv, VoidPaymentIInv
       DEF PaymentNext
<1>3. CASE BackfillPaymentAllocations
  BY <1>3, BackfillIInv
<1>4. CASE UNCHANGED vars
  BY <1>4 DEF vars, IInv, TypeOK, AllocationsWithinFunds, RowsOfActivePayments, AbsentIsPending,
              ExoneratedOwesNothing, MoneyRestsOnOwnDebts, Funds, ActivePayment, LiveDocument
<1> QED
  BY <1>1, <1>2, <1>3, <1>4 DEF Next

\* The inductive invariant holds in every reachable state of the ledger.
THEOREM Inductive == Spec => []IInv
<1> QED
  BY InitIInv, NextIInv, PTL DEF Spec

\* Every row keeps its type: no request writes a negative balance or amount, or
\* a status outside the five of the code (TypeOK, for every bound and amount).
THEOREM TypeCorrect == Spec => []TypeOK
<1>1. IInv => TypeOK
  BY DEF IInv
<1> QED
  BY <1>1, Inductive, PTL

\* Neither an allocation nor a legacy link ever points to a deleted debt or to a
\* debt of another company, for every bound and amount.
THEOREM OwnDebts == Spec => []MoneyRestsOnOwnDebts
<1>1. IInv => MoneyRestsOnOwnDebts
  BY DEF IInv
<1> QED
  BY <1>1, Inductive, PTL

\* FIFO imputation pays the oldest debts first and wastes nothing, for every number of
\* debts and every order of issue dates (buildFIFOAllocations).
THEOREM FifoOldestFirst == Spec => []FifoPaysOldestFirst
<1>1. IInv => FifoPaysOldestFirst
  <2> SUFFICES ASSUME IInv, NEW c \in Companies, NEW amount \in Amounts, NEW rank \in IssueOrders
               PROVE  LET lines == FifoLines(c, amount, rank)
                          owed == [d \in Documents |-> IF d \in FifoCandidates(c)
                                                       THEN OpenBalance(d) ELSE 0]
                      IN  /\ \A d, e \in Documents :
                                lines[d] > 0 /\ rank[e] < rank[d] => lines[e] = owed[e]
                          /\ LineSum(lines) = IF LineSum(owed) < amount THEN LineSum(owed) ELSE amount
    BY DEF FifoPaysOldestFirst
  <2> DEFINE lines == FifoLines(c, amount, rank)
             owed == [d \in Documents |-> OwedBy(c, d)]
  <2>1. /\ docs \in [Documents -> Document] /\ pays \in PaymentTable /\ alloc \in AllocationTable
        /\ amount \in Nat
    BY LedgerAssumption DEF IInv, TypeOK, PaymentTable, AllocationTable
  <2>2. owed = [d \in Documents |-> IF d \in FifoCandidates(c) THEN OpenBalance(d) ELSE 0]
    BY DEF OwedBy
  <2>3. /\ \A d, e \in Documents : lines[d] > 0 /\ rank[e] < rank[d] => lines[e] = owed[e]
        /\ LineSum(lines) = IF LineSum(owed) < amount THEN LineSum(owed) ELSE amount
    <3> HIDE DEF owed, lines
    <3>1. owed = [d \in Documents |-> OwedBy(c, d)] /\ lines = FifoLines(c, amount, rank)
      BY DEF owed, lines
    <3> QED
      BY <2>1, <3>1, FifoLinesFacts
  <2> QED
    BY <2>2, <2>3
<1> QED
  BY <1>1, Inductive, PTL

-----------------------------------------------------------------------------
(* No cent pays two debts. *)

LEMMA CountedOnce == TypeOK /\ AllocationsWithinFunds => MoneyCountedOnce
<1> SUFFICES ASSUME TypeOK, AllocationsWithinFunds, NEW p \in Payments
             PROVE  SumTo([d \in Documents |-> Contribution(pays, alloc, p, d)], MaxDocuments) <= Funds(p)
    BY DEF MoneyCountedOnce
<1> DEFINE f == [d \in Documents |-> Contribution(pays, alloc, p, d)]
           lines == alloc[p]
           k == pays[p].document
           v == pays[p].amount
<1>1. v \in Nat /\ k \in Nat /\ pays[p].discount \in Nat
  <2>1. pays[p] \in Payment
    BY DEF TypeOK
  <2>2. v \in Nat /\ k \in Documents \cup {0} /\ pays[p].discount \in Nat
    BY <2>1 DEF Payment
  <2> QED
    BY <2>2, BoundsNat DEF Documents
<1>2. \A i \in 1 .. MaxDocuments : f[i] = Contribution(pays, alloc, p, i)
  BY DEF Documents
<1>3. CASE ~ ActivePayment(p)
  <2>1. \A d \in Documents : f[d] = 0
    BY <1>2, <1>3 DEF Contribution, ActivePayment, Documents
  <2> HIDE DEF f
  <2>2. SumTo(f, MaxDocuments) = 0
    BY <2>1, EmptySum DEF LineSum
  <2> QED
    BY <2>2, <1>3 DEF Funds, f
<1>4. CASE ActivePayment(p) /\ HasAllocations(alloc, p)
  <2>1. \A i \in 1 .. MaxDocuments : f[i] = lines[i]
    BY <1>2, <1>4 DEF Contribution, ActivePayment
  <2> HIDE DEF f, lines
  <2>2. SumTo(f, MaxDocuments) = SumTo(lines, MaxDocuments)
    BY <2>1, BoundsNat, SumSame
  <2> QED
    BY <2>2 DEF f, lines, LineSum, AllocationsWithinFunds
<1>5. CASE ActivePayment(p) /\ ~ HasAllocations(alloc, p)
  <2>1. \A i \in 1 .. MaxDocuments : f[i] = IF i = k THEN v ELSE 0
    BY <1>2, <1>5 DEF Contribution, ActivePayment
  <2>2. Funds(p) = v + pays[p].discount
    BY <1>5 DEF Funds
  <2> HIDE DEF f, k, v
  <2>3. SumTo(f, MaxDocuments) = IF k \in 1 .. MaxDocuments THEN v ELSE 0
    BY <1>1, <2>1, BoundsNat, SumOne
  <2> QED
    BY <1>1, <2>2, <2>3 DEF f
<1> QED
  BY <1>3, <1>4, <1>5

\* What a payment brings to all the debts together, by allocation rows or by its
\* legacy document_id, never exceeds its funds, for every bound and amount.
THEOREM CountedOnceAlways == Spec => []MoneyCountedOnce
<1> QED
  BY CountedOnce, Inductive, PTL DEF IInv

-----------------------------------------------------------------------------
(* What each request does to the debts and to what they have received. *)

\* The requests on payments that write debts, by the payment p they write and the
\* debts they call PersistBalanceAndStatus for.
Recomputes(p, touched) ==
    /\ docs' = Persisted(touched, pays', alloc')
    /\ \A q \in Payments \ {p} : pays'[q] = pays[q] /\ alloc'[q] = alloc[q]
    /\ \A d \in Documents \ touched :
          Contribution(pays', alloc', p, d) = Contribution(pays, alloc, p, d)

LEMMA ApplyRecomputes ==
    ASSUME IInv, NEW c \in Companies, NEW amount, NEW discount, NEW purpose,
           NEW lines \in [Documents -> Nat], ApplyPayment(c, amount, discount, purpose, lines)
    PROVE  \E p \in Payments : Recomputes(p, LineDocuments(lines))
<1> DEFINE new == NewPayment("applied", c, amount, discount, purpose)
<1>1. PICK p \in Payments : /\ NextPayment(p)
                            /\ pays' = [pays EXCEPT ![p] = new]
                            /\ alloc' = [alloc EXCEPT ![p] = lines]
                            /\ docs' = Persisted(LineDocuments(lines), pays', alloc')
  BY DEF ApplyPayment
<1>2. new.document = 0
  BY DEF NewPayment, NoPayment
<1>3. /\ pays'[p] = new /\ alloc'[p] = lines
      /\ \A q \in Payments \ {p} : pays'[q] = pays[q] /\ alloc'[q] = alloc[q]
  BY <1>1 DEF IInv, TypeOK
<1>4. ASSUME NEW d \in Documents \ LineDocuments(lines)
      PROVE  Contribution(pays', alloc', p, d) = Contribution(pays, alloc, p, d)
  <2>1. lines[d] = 0 /\ d # 0
    BY DEF LineDocuments, Documents
  <2>2. Contribution(pays, alloc, p, d) = 0
    BY <1>1, FreshPayment DEF Contribution, ActivePayment
  <2>3. alloc'[p][d] = 0 /\ pays'[p].document = 0
    BY <1>2, <1>3, <2>1
  <2>4. Contribution(pays', alloc', p, d) = 0
    BY <2>1, <2>3 DEF Contribution
  <2> QED
    BY <2>2, <2>4
<1> HIDE DEF new
<1> QED
  BY <1>1, <1>3, <1>4 DEF Recomputes

LEMMA AllocateRecomputes ==
    ASSUME IInv, NEW p \in Payments, NEW lines \in [Documents -> Nat], AllocateExisting(p, lines)
    PROVE  Recomputes(p, LineDocuments(lines))
<1>1. pays[p] \in Payment /\ alloc[p] \in [Documents -> Nat]
  BY DEF IInv, TypeOK
<1>2. /\ pays'[p].life = pays[p].life /\ pays'[p].document = pays[p].document
      /\ \A d \in Documents : alloc'[p][d] = alloc[p][d] + lines[d]
      /\ \A q \in Payments \ {p} : pays'[q] = pays[q] /\ alloc'[q] = alloc[q]
      /\ docs' = Persisted(LineDocuments(lines), pays', alloc')
  BY <1>1 DEF AllocateExisting, IInv, TypeOK, Payment
<1>3. ASSUME NEW d \in Documents \ LineDocuments(lines)
      PROVE  Contribution(pays', alloc', p, d) = Contribution(pays, alloc, p, d)
  <2>1. lines[d] = 0 /\ d # 0
    BY DEF LineDocuments, Documents
  <2>2. alloc'[p][d] = alloc[p][d]
    BY <1>1, <1>2, <2>1
  <2>3. CASE HasAllocations(alloc, p)
    <3>1. PICK e \in Documents : alloc[p][e] > 0
      BY <2>3 DEF HasAllocations
    <3>2. alloc'[p][e] > 0
      BY <3>1, <1>1, <1>2
    <3>3. HasAllocations(alloc', p)
      BY <3>2 DEF HasAllocations
    <3> QED
      BY <3>3, <2>3, <2>2, <1>2 DEF Contribution
  <2>4. CASE ~ HasAllocations(alloc, p)
    <3>1. pays[p].document = 0
      BY <2>4 DEF AllocateExisting, CanAllocate
    <3>2. alloc[p][d] = 0
      BY <2>4, <1>1 DEF HasAllocations
    <3> QED
      BY <3>1, <3>2, <2>1, <2>2, <1>2 DEF Contribution
  <2> QED
    BY <2>3, <2>4
<1> QED
  BY <1>2, <1>3 DEF Recomputes

LEMMA UpdateRecomputes ==
    ASSUME IInv, NEW p \in Payments, NEW amount, NEW d \in Documents \cup {0},
           UpdatePayment(p, amount, d)
    PROVE  Recomputes(p, {d} \ {0})
<1>1. pays[p] \in Payment /\ alloc[p] \in [Documents -> Nat]
  BY DEF IInv, TypeOK
<1>2. /\ pays[p].document = 0 /\ ~ HasAllocations(alloc, p)
      /\ pays'[p].document = d /\ alloc' = alloc
      /\ \A q \in Payments \ {p} : pays'[q] = pays[q] /\ alloc'[q] = alloc[q]
      /\ docs' = Persisted({d} \ {0}, pays', alloc')
  BY <1>1 DEF UpdatePayment, Editable, EditedPayment, IInv, TypeOK, Payment
<1>3. ASSUME NEW e \in Documents \ ({d} \ {0})
      PROVE  Contribution(pays', alloc', p, e) = Contribution(pays, alloc, p, e)
  <2>1. e # 0 /\ e # d
    BY DEF Documents
  <2>2. Contribution(pays, alloc, p, e) = 0
    BY <1>2, <2>1 DEF Contribution
  <2>3. Contribution(pays', alloc', p, e) = 0
    BY <1>2, <2>1 DEF Contribution
  <2> QED
    BY <2>2, <2>3
<1> QED
  BY <1>2, <1>3 DEF Recomputes

LEMMA VoidRecomputes ==
    ASSUME IInv, NEW p \in Payments, VoidPayment(p)
    PROVE  Recomputes(p, TouchedBy(p))
<1>1. pays[p] \in Payment /\ alloc[p] \in [Documents -> Nat]
  BY DEF IInv, TypeOK
<1>2. /\ pays'[p].life = "voided"
      /\ \A q \in Payments \ {p} : pays'[q] = pays[q] /\ alloc'[q] = alloc[q]
      /\ docs' = Persisted(TouchedBy(p), pays', alloc')
  BY <1>1 DEF VoidPayment, IInv, TypeOK, Payment
<1>3. ASSUME NEW d \in Documents \ TouchedBy(p)
      PROVE  Contribution(pays', alloc', p, d) = Contribution(pays, alloc, p, d)
  <2>1. alloc[p][d] = 0 /\ pays[p].document # d
    <3>1. d # 0 /\ ~ (alloc[p][d] > 0) /\ d # pays[p].document
      BY DEF TouchedBy, LineDocuments, Documents
    <3> QED
      BY <3>1, <1>1
  <2>2. Contribution(pays, alloc, p, d) = 0
    BY <2>1 DEF Contribution
  <2>3. Contribution(pays', alloc', p, d) = 0
    BY <1>2 DEF Contribution
  <2> QED
    BY <2>2, <2>3
<1> QED
  BY <1>2, <1>3 DEF Recomputes

\* The requests on debts: payments stand still, and so does a write-off.
KeepsWriteOffs ==
    /\ UNCHANGED <<pays, alloc>>
    /\ \A d \in Documents : IsTerminalWriteoffStatus(docs[d].status)
           => docs'[d].status = docs[d].status /\ docs'[d].balance = docs[d].balance

\* The requests that move no money to or from a debt.
MovesNoMoney ==
    /\ docs' = docs
    /\ \A p \in Payments, d \in Documents :
          Contribution(pays', alloc', p, d) = Contribution(pays, alloc, p, d)

LEMMA DocumentNextKind ==
    ASSUME IInv, DocumentNext
    PROVE  KeepsWriteOffs
<1>1. ASSUME NEW c \in Companies, NEW total \in Totals, NEW st \in Statuses \ {Exonerado},
             CreateDocument(c, total, st)
      PROVE  KeepsWriteOffs
  <2>1. PICK d \in Documents : /\ docs[d].life = "absent"
                               /\ \A e \in Documents \ {d} : docs'[e] = docs[e]
                               /\ UNCHANGED <<pays, alloc>>
    BY <1>1 DEF CreateDocument, NextDocument, IInv, TypeOK
  <2>2. ~ IsTerminalWriteoffStatus(docs[d].status)
    BY <2>1 DEF IInv, AbsentIsPending, IsTerminalWriteoffStatus, Pending, Cancelled, Exonerado
  <2> QED
    BY <2>1, <2>2 DEF KeepsWriteOffs
<1>2. ASSUME NEW d \in Documents, NEW st, NEW total, UpdateDocument(d, total, st)
      PROVE  KeepsWriteOffs
  <2>1. /\ ~ IsTerminalWriteoffStatus(docs[d].status) /\ UNCHANGED <<pays, alloc>>
        /\ \A e \in Documents \ {d} : docs'[e] = docs[e]
    BY <1>2 DEF UpdateDocument, IInv, TypeOK
  <2> QED
    BY <2>1 DEF KeepsWriteOffs
<1>3. ASSUME NEW d \in Documents, DeleteDocument(d)
      PROVE  KeepsWriteOffs
  <2>1. docs[d] \in Document
    BY DEF IInv, TypeOK
  <2>2. /\ docs'[d].status = docs[d].status /\ docs'[d].balance = docs[d].balance
        /\ \A e \in Documents \ {d} : docs'[e] = docs[e]
        /\ UNCHANGED <<pays, alloc>>
    BY <1>3, <2>1 DEF DeleteDocument, IInv, TypeOK, Document
  <2> QED
    BY <2>2 DEF KeepsWriteOffs
<1>4. ASSUME NEW d \in Documents, NEW st, WriteOffUnlinkedDebt(d, st)
      PROVE  KeepsWriteOffs
  <2>1. /\ ~ IsTerminalWriteoffStatus(docs[d].status) /\ UNCHANGED <<pays, alloc>>
        /\ \A e \in Documents \ {d} : docs'[e] = docs[e]
    BY <1>4 DEF WriteOffUnlinkedDebt, CanWriteOff, IInv, TypeOK
  <2> QED
    BY <2>1 DEF KeepsWriteOffs
<1>5. ASSUME NEW c \in Companies, NEW price \in PlanPrices, EnsureMonthlyCharge(c, price)
      PROVE  KeepsWriteOffs
  <2>1. PICK d \in Documents : /\ docs[d].life = "absent"
                               /\ \A e \in Documents \ {d} : docs'[e] = docs[e]
                               /\ UNCHANGED <<pays, alloc>>
    BY <1>5 DEF EnsureMonthlyCharge, NextDocument, IInv, TypeOK
  <2>2. ~ IsTerminalWriteoffStatus(docs[d].status)
    BY <2>1 DEF IInv, AbsentIsPending, IsTerminalWriteoffStatus, Pending, Cancelled, Exonerado
  <2> QED
    BY <2>1, <2>2 DEF KeepsWriteOffs
<1> QED
  BY <1>1, <1>2, <1>3, <1>4, <1>5 DEF DocumentNext

LEMMA CreateOnAccountMovesNoMoney ==
    ASSUME IInv, NEW c \in Companies, NEW amount, NEW purpose, CreateOnAccount(c, amount, purpose)
    PROVE  MovesNoMoney
<1>1. PICK p \in Payments : /\ NextPayment(p) /\ UNCHANGED <<docs, alloc>>
                            /\ pays'[p].document = 0
                            /\ \A q \in Payments \ {p} : pays'[q] = pays[q]
  BY DEF CreateOnAccount, NewPayment, IInv, TypeOK, NoPayment
<1>2. ~ ActivePayment(p) /\ \A d \in Documents : alloc[p][d] = 0
  BY <1>1, FreshPayment
<1>3. ASSUME NEW d \in Documents
      PROVE  Contribution(pays', alloc', p, d) = Contribution(pays, alloc, p, d)
  <2>1. Contribution(pays, alloc, p, d) = 0
    BY <1>2 DEF Contribution, ActivePayment
  <2>2. d # 0 /\ alloc'[p][d] = 0
    BY <1>1, <1>2 DEF Documents
  <2>3. Contribution(pays', alloc', p, d) = 0
    BY <1>1, <2>2 DEF Contribution
  <2> QED
    BY <2>1, <2>3
<1>4. ASSUME NEW q \in Payments \ {p}, NEW d \in Documents
      PROVE  Contribution(pays', alloc', q, d) = Contribution(pays, alloc, q, d)
  BY <1>1 DEF Contribution, HasAllocations
<1> QED
  BY <1>1, <1>3, <1>4 DEF MovesNoMoney

LEMMA BackfillMovesNoMoney ==
    ASSUME IInv, BackfillPaymentAllocations
    PROVE  MovesNoMoney
<1>1. UNCHANGED <<docs, pays>>
  BY DEF BackfillPaymentAllocations
<1>2. ASSUME NEW p \in Payments, NEW d \in Documents
      PROVE  Contribution(pays', alloc', p, d) = Contribution(pays, alloc, p, d)
  <2>1. CASE ~ NeedsBackfill(p)
    <3>1. alloc'[p] = alloc[p]
      BY <2>1, BackfillRows
    <3> QED
      BY <1>1, <3>1 DEF Contribution, HasAllocations
  <2>2. CASE NeedsBackfill(p)
    <3>1. /\ pays[p].life = "active"
          /\ alloc'[p][d] = IF d = pays[p].document THEN pays[p].amount ELSE 0
      BY <2>2, BackfillRows
    <3>2. ~ HasAllocations(alloc, p)
      BY <2>2 DEF NeedsBackfill
    <3>3. Contribution(pays, alloc, p, d) = IF d = pays[p].document THEN pays[p].amount ELSE 0
      BY <3>1, <3>2 DEF Contribution
    <3>4. Contribution(pays', alloc', p, d) = IF d = pays[p].document THEN pays[p].amount ELSE 0
      BY <1>1, <3>1 DEF Contribution
    <3> QED
      BY <3>3, <3>4
  <2> QED
    BY <2>1, <2>2
<1> QED
  BY <1>1, <1>2 DEF MovesNoMoney

\* Every step of the ledger is of one of three kinds.
LEMMA StepKinds ==
    ASSUME IInv, [Next]_vars
    PROVE  \/ KeepsWriteOffs
           \/ MovesNoMoney
           \/ \E p \in Payments, touched \in SUBSET Documents : Recomputes(p, touched)
<1> DEFINE Third == \E p \in Payments, touched \in SUBSET Documents : Recomputes(p, touched)
<1>1. ASSUME NEW c \in Companies, NEW amount, NEW discount, NEW purpose,
             NEW lines \in [Documents -> Nat], ApplyPayment(c, amount, discount, purpose, lines)
      PROVE  Third
  <2>1. LineDocuments(lines) \in SUBSET Documents
    BY DEF LineDocuments
  <2> QED
    BY <1>1, <2>1, ApplyRecomputes
<1>2. CASE DocumentNext
  BY <1>2, DocumentNextKind
<1>3. CASE PaymentNext
  <2>1. ASSUME NEW lines \in Lines PROVE lines \in [Documents -> Nat]
    <3>1. \A a \in Amounts : a \in Nat
      BY LedgerAssumption
    <3> QED
      BY <3>1 DEF Lines
  <2>2. ASSUME NEW c \in Companies, NEW amount \in Amounts, NEW purpose \in Purposes,
               NEW discount \in Discounts, NEW d \in Documents,
               CreateSingle(c, d, amount, discount, purpose)
        PROVE  Third
    <3>1. OpenBalance(d) \in Nat /\ amount \in Nat
      BY OpenBalanceNat, LedgerAssumption DEF IInv, TypeOK, PaymentTable, AllocationTable
    <3>2. SingleLine(d, amount, discount) \in [Documents -> Nat]
      BY <3>1 DEF SingleLine, NoLines
    <3> QED
      BY <2>2, <3>2, <1>1 DEF CreateSingle
  <2>3. ASSUME NEW c \in Companies, NEW amount \in Amounts, NEW purpose \in Purposes,
               NEW rank \in IssueOrders, CreateFifo(c, amount, purpose, rank)
        PROVE  Third
    <3>1. FifoLines(c, amount, rank) \in [Documents -> Nat]
      BY FifoLinesType, LedgerAssumption DEF IInv, TypeOK, PaymentTable, AllocationTable
    <3> QED
      BY <2>3, <3>1, <1>1 DEF CreateFifo
  <2>4. ASSUME NEW p \in Payments, NEW lines \in Lines, AllocateExisting(p, lines)
        PROVE  Third
    <3>1. LineDocuments(lines) \in SUBSET Documents
      BY DEF LineDocuments
    <3> QED
      BY <2>1, <2>4, <3>1, AllocateRecomputes
  <2>5. ASSUME NEW p \in Payments, NEW amount, NEW d \in Documents \cup {0},
               UpdatePayment(p, amount, d)
        PROVE  Third
    <3>1. {d} \ {0} \in SUBSET Documents
      OBVIOUS
    <3> QED
      BY <2>5, <3>1, UpdateRecomputes
  <2>6. ASSUME NEW p \in Payments, VoidPayment(p)
        PROVE  Third
    <3>1. TouchedBy(p) \in SUBSET Documents
      BY DEF TouchedBy, LineDocuments, IInv, TypeOK, Payment
    <3> QED
      BY <2>6, <3>1, VoidRecomputes
  <2> HIDE DEF Third
  <2>7. MovesNoMoney \/ Third
    BY <1>3, <1>1, <2>1, <2>2, <2>3, <2>4, <2>5, <2>6, CreateOnAccountMovesNoMoney
       DEF PaymentNext, CreateFifoNothingOwed
  <2> QED
    BY <2>7 DEF Third
<1>4. CASE BackfillPaymentAllocations
  BY <1>4, BackfillMovesNoMoney
<1>5. CASE UNCHANGED vars
  BY <1>5 DEF vars, MovesNoMoney, Contribution, HasAllocations
<1> QED
  BY <1>2, <1>3, <1>4, <1>5 DEF Next

\* What recomputing debts leaves, when no other debt receives anything: the debts touched are
\* right, the others have received what they had, and no write-off moves.
Persists(touched) ==
    /\ docs' = Persisted(touched, pays', alloc')
    /\ \A d \in Documents \ touched : \A q \in Payments :
          Contribution(pays', alloc', q, d) = Contribution(pays, alloc, q, d)

LEMMA PersistsFacts ==
    ASSUME IInv, IInv', NEW touched \in SUBSET Documents, Persists(touched), NEW d \in Documents
    PROVE  /\ IsTerminalWriteoffStatus(docs[d].status) => docs'[d] = docs[d]
           /\ ~ IsTerminalWriteoffStatus(docs[d].status)
              => ~ IsTerminalWriteoffStatus(docs'[d].status)
           /\ docs'[d].total = docs[d].total
           /\ d \notin touched => PaidTotal(pays', alloc', d) = PaidTotal(pays, alloc, d)
           /\ d \in touched /\ ~ IsTerminalWriteoffStatus(docs[d].status)
              => /\ docs'[d].balance = BalanceFromTotalPaid(docs[d].total, PaidTotal(pays', alloc', d))
                 /\ docs'[d].status = ComputeStatusFromPaid(PaidTotal(pays', alloc', d),
                                          docs[d].total, docs[d].status)
<1>1. /\ docs \in [Documents -> Document]
      /\ pays' \in PaymentTable /\ alloc' \in AllocationTable
  BY DEF IInv, TypeOK, PaymentTable, AllocationTable
<1>2. docs' = Persisted(touched, pays', alloc')
  BY DEF Persists
<1>3. d \notin touched => PaidTotal(pays', alloc', d) = PaidTotal(pays, alloc, d)
  BY PaidTotalSame DEF Persists
<1>4. \A e \in Documents :
         /\ docs'[e].total = docs[e].total
         /\ IsTerminalWriteoffStatus(docs[e].status) => docs'[e] = docs[e]
         /\ ~ IsTerminalWriteoffStatus(docs[e].status)
            => ~ IsTerminalWriteoffStatus(docs'[e].status)
  BY <1>1, <1>2, PersistedFacts
<1>5. \A e \in Documents :
         e \in touched /\ ~ IsTerminalWriteoffStatus(docs[e].status)
         => /\ docs'[e].balance = BalanceFromTotalPaid(docs[e].total, PaidTotal(pays', alloc', e))
            /\ docs'[e].status = ComputeStatusFromPaid(PaidTotal(pays', alloc', e),
                                     docs[e].total, docs[e].status)
  BY <1>1, <1>2, PersistedFacts
<1> QED
  BY <1>3, <1>4, <1>5

LEMMA RecomputesPersists ==
    ASSUME NEW p \in Payments, NEW touched, Recomputes(p, touched)
    PROVE  Persists(touched)
<1> SUFFICES ASSUME NEW d \in Documents \ touched, NEW q \in Payments
             PROVE  Contribution(pays', alloc', q, d) = Contribution(pays, alloc, q, d)
  BY DEF Persists, Recomputes
<1>1. CASE q = p
  BY <1>1 DEF Recomputes
<1>2. CASE q # p
  <2>1. pays'[q] = pays[q] /\ alloc'[q] = alloc[q]
    BY <1>2 DEF Recomputes
  <2> QED
    BY <2>1 DEF Contribution, HasAllocations
<1> QED
  BY <1>1, <1>2

\* The status rule looks at the current status only to keep a write-off.
LEMMA StatusForgets ==
    ASSUME NEW paid, NEW total, NEW st, NEW other,
           ~ IsTerminalWriteoffStatus(st), ~ IsTerminalWriteoffStatus(other)
    PROVE  ComputeStatusFromPaid(paid, total, st) = ComputeStatusFromPaid(paid, total, other)
BY DEF ComputeStatusFromPaid, ComputeStatusFromAmounts

\* What SyncedWhenMoneyMoves says of one step.
MovedMoneyIsSynced ==
    \A d \in Documents :
        LET paid == PaidTotal(pays', alloc', d)
        IN  paid # PaidTotal(pays, alloc, d) /\ ~ IsTerminalWriteoffStatus(docs'[d].status)
            => /\ docs'[d].balance = BalanceFromTotalPaid(docs'[d].total, paid)
               /\ docs'[d].status = ComputeStatusFromPaid(paid, docs'[d].total, docs'[d].status)

LEMMA PersistsSynced ==
    ASSUME IInv, IInv', NEW touched \in SUBSET Documents, Persists(touched)
    PROVE  MovedMoneyIsSynced
<1> SUFFICES ASSUME NEW d \in Documents,
                    PaidTotal(pays', alloc', d) # PaidTotal(pays, alloc, d),
                    ~ IsTerminalWriteoffStatus(docs'[d].status)
             PROVE  /\ docs'[d].balance = BalanceFromTotalPaid(docs'[d].total, PaidTotal(pays', alloc', d))
                    /\ docs'[d].status = ComputeStatusFromPaid(PaidTotal(pays', alloc', d),
                                             docs'[d].total, docs'[d].status)
  BY DEF MovedMoneyIsSynced
<1>1. /\ IsTerminalWriteoffStatus(docs[d].status) => docs'[d] = docs[d]
      /\ docs'[d].total = docs[d].total
      /\ d \notin touched => PaidTotal(pays', alloc', d) = PaidTotal(pays, alloc, d)
      /\ d \in touched /\ ~ IsTerminalWriteoffStatus(docs[d].status)
            => /\ docs'[d].balance = BalanceFromTotalPaid(docs[d].total, PaidTotal(pays', alloc', d))
               /\ docs'[d].status = ComputeStatusFromPaid(PaidTotal(pays', alloc', d),
                                        docs[d].total, docs[d].status)
  BY PersistsFacts
<1>2. d \in touched /\ ~ IsTerminalWriteoffStatus(docs[d].status)
  BY <1>1
<1>3. ComputeStatusFromPaid(PaidTotal(pays', alloc', d), docs[d].total, docs[d].status)
        = ComputeStatusFromPaid(PaidTotal(pays', alloc', d), docs[d].total, docs'[d].status)
  BY <1>2, StatusForgets
<1> QED
  BY <1>1, <1>2, <1>3

\* A step that changes no row of payments and allocations moves no money.
LEMMA UnmovedSynced ==
    ASSUME \A p \in Payments, d \in Documents :
               Contribution(pays', alloc', p, d) = Contribution(pays, alloc, p, d)
    PROVE  MovedMoneyIsSynced
BY PaidTotalSame DEF MovedMoneyIsSynced

LEMMA NextSynced ==
    ASSUME IInv, IInv', [Next]_vars
    PROVE  MovedMoneyIsSynced
<1>1. CASE KeepsWriteOffs
  <2>1. \A d \in Documents : PaidTotal(pays', alloc', d) = PaidTotal(pays, alloc, d)
    BY <1>1 DEF KeepsWriteOffs
  <2> QED
    BY <2>1 DEF MovedMoneyIsSynced
<1>2. CASE MovesNoMoney
  BY <1>2, UnmovedSynced DEF MovesNoMoney
<1>3. CASE \E p \in Payments, touched \in SUBSET Documents : Recomputes(p, touched)
  BY <1>3, RecomputesPersists, PersistsSynced
<1> QED
  BY <1>1, <1>2, <1>3, StepKinds

\* Whoever changes the money on a debt leaves its balance and status right in the
\* same commit: every payment handler recomputes each debt it touches, and no
\* other handler moves money. For every bound and amount.
THEOREM Synced == Spec => SyncedWhenMoneyMoves
<1>1. IInv /\ IInv' /\ [Next]_vars => [MovedMoneyIsSynced]_vars
  BY NextSynced
<1> QED
  BY <1>1, Inductive, PTL DEF Spec, SyncedWhenMoneyMoves, MovedMoneyIsSynced

\* A write-off is final, for every bound and amount: no request changes the
\* status or the balance of a cancelled or exonerated debt.
THEOREM WriteOffsFinal == Spec => WriteOffIsFinal
<1>1. ASSUME IInv, IInv', [Next]_vars, NEW d \in Documents,
             IsTerminalWriteoffStatus(docs[d].status)
      PROVE  docs'[d].status = docs[d].status /\ docs'[d].balance = docs[d].balance
  <2>1. CASE KeepsWriteOffs
    BY <1>1, <2>1 DEF KeepsWriteOffs
  <2>2. CASE MovesNoMoney
    BY <2>2 DEF MovesNoMoney
  <2>3. CASE \E p \in Payments, touched \in SUBSET Documents : Recomputes(p, touched)
    <3>1. PICK touched \in SUBSET Documents : Persists(touched)
      BY <2>3, RecomputesPersists
    <3> QED
      BY <1>1, <3>1, PersistsFacts
  <2> QED
    BY <1>1, <2>1, <2>2, <2>3, StepKinds
<1>2. IInv /\ IInv' /\ [Next]_vars
      => [\A d \in Documents :
             IsTerminalWriteoffStatus(docs[d].status)
             => docs'[d].status = docs[d].status /\ docs'[d].balance = docs[d].balance]_vars
  BY <1>1
<1> QED
  BY <1>2, Inductive, PTL DEF Spec, WriteOffIsFinal

-----------------------------------------------------------------------------
(* The ledger implements the payment book. *)

BookState == [p \in Payments |->
                 [absent |-> "none", active |-> "open", voided |-> "void"][pays[p].life]]
BookFunds == [p \in Payments |-> Funds(p)]
BookPlaced == [p \in Payments |-> [d \in Documents |-> Contribution(pays, alloc, p, d)]]

LEMMA BookVars == Book!bookVars = <<BookState, BookFunds, BookPlaced>>
BY DEF Book!bookVars, BookState, BookFunds, BookPlaced

\* What the book needs of the tables.
Funded == TypeOK /\ AllocationsWithinFunds

LEMMA FundedCounts == Funded => MoneyCountedOnce
BY CountedOnce DEF Funded

\* The money of every payment covers what it is placed on, after every step.
LEMMA BookCovered ==
    ASSUME Funded', NEW p \in Payments
    PROVE  Book!Covered(p)' <= BookFunds'[p]
<1>1. MoneyCountedOnce'
  BY FundedCounts, PTL
<1>2. BookPlaced'[p] = [d \in Documents |-> Contribution(pays', alloc', p, d)]
  BY DEF BookPlaced
<1>3. SumTo(BookPlaced'[p], MaxDocuments) <= Funds(p)'
  BY <1>1, <1>2 DEF MoneyCountedOnce
<1>4. Book!Covered(p)' = SumTo(BookPlaced'[p], MaxDocuments)
  BY DEF Book!Covered, Book!SumTo, SumTo, BookPlaced
<1> QED
  BY <1>3, <1>4 DEF BookFunds

\* A payment that a request does not write looks the same in the book.
LEMMA BookOthers ==
    ASSUME NEW p \in Payments,
           \A q \in Payments \ {p} : pays'[q] = pays[q] /\ alloc'[q] = alloc[q]
    PROVE  Book!OthersUntouched(p)
<1>1. ASSUME NEW q \in Payments \ {p}
      PROVE  /\ BookState'[q] = BookState[q]
             /\ BookFunds'[q] = BookFunds[q]
             /\ BookPlaced'[q] = BookPlaced[q]
  <2>1. pays'[q] = pays[q] /\ alloc'[q] = alloc[q]
    OBVIOUS
  <2>2. \A d \in Documents : Contribution(pays', alloc', q, d) = Contribution(pays, alloc, q, d)
    BY <2>1 DEF Contribution, HasAllocations
  <2>3. BookPlaced'[q] = BookPlaced[q]
    BY <2>2 DEF BookPlaced
  <2>4. BookState'[q] = BookState[q]
    BY <2>1 DEF BookState
  <2>5. BookFunds'[q] = BookFunds[q]
    BY <2>1 DEF BookFunds, Funds, ActivePayment
  <2> QED
    BY <2>3, <2>4, <2>5
<1>2. Book!Movements = Payments
  BY DEF Book!Movements, Payments
<1> QED
  BY <1>1, <1>2 DEF Book!OthersUntouched, BookState, BookFunds, BookPlaced

\* The life of a payment row, as the book names it.
LEMMA BookLife ==
    ASSUME NEW p \in Payments
    PROVE  /\ pays[p].life = "absent" => BookState[p] = "none"
           /\ pays[p].life = "active" => BookState[p] = "open"
           /\ pays[p].life = "voided" => BookState[p] = "void"
           /\ pays'[p].life = "active" => BookState'[p] = "open"
           /\ pays'[p].life = "voided" => BookState'[p] = "void"
BY DEF BookState

LEMMA BookReceive ==
    ASSUME Funded', NEW p \in Payments, pays[p].life = "absent", pays'[p].life = "active",
           \A q \in Payments \ {p} : pays'[q] = pays[q] /\ alloc'[q] = alloc[q]
    PROVE  Book!Receive(p)
<1>1. BookState[p] = "none" /\ BookState'[p] = "open"
  BY BookLife
<1> QED
  BY <1>1, BookCovered, BookOthers DEF Book!Receive, BookState, BookFunds

LEMMA BookPlace ==
    ASSUME Funded', NEW p \in Payments, pays[p].life = "active", pays'[p].life = "active",
           Funds(p)' = Funds(p),
           \A d \in Documents : Contribution(pays, alloc, p, d) <= Contribution(pays', alloc', p, d),
           \A q \in Payments \ {p} : pays'[q] = pays[q] /\ alloc'[q] = alloc[q]
    PROVE  Book!Place(p)
<1>1. BookState[p] = "open" /\ BookState'[p] = "open"
  BY BookLife
<1>2. BookFunds'[p] = BookFunds[p]
  BY DEF BookFunds
<1>3. \A d \in Documents : BookPlaced[p][d] <= BookPlaced'[p][d]
  BY DEF BookPlaced
<1>4. Book!Debts = Documents
  BY DEF Book!Debts, Documents
<1> QED
  BY <1>1, <1>2, <1>3, <1>4, BookCovered, BookOthers
     DEF Book!Place, BookState, BookFunds, BookPlaced

LEMMA BookAmend ==
    ASSUME Funded', NEW p \in Payments, pays[p].life = "active", pays'[p].life = "active",
           \A d \in Documents : Contribution(pays, alloc, p, d) = 0,
           \A q \in Payments \ {p} : pays'[q] = pays[q] /\ alloc'[q] = alloc[q]
    PROVE  Book!Amend(p)
<1>1. BookState[p] = "open" /\ BookState'[p] = "open"
  BY BookLife
<1>2. \A d \in Documents : BookPlaced[p][d] = 0
  BY DEF BookPlaced
<1>3. Book!Debts = Documents
  BY DEF Book!Debts, Documents
<1> QED
  BY <1>1, <1>2, <1>3, BookCovered, BookOthers
     DEF Book!Amend, BookState, BookFunds, BookPlaced

LEMMA BookVoid ==
    ASSUME NEW p \in Payments, pays[p].life = "active", pays'[p].life = "voided",
           \A q \in Payments \ {p} : pays'[q] = pays[q] /\ alloc'[q] = alloc[q]
    PROVE  Book!Void(p)
<1>1. BookState[p] = "open" /\ BookState'[p] = "void"
  BY BookLife
<1>2. BookFunds'[p] = 0
  BY DEF BookFunds, Funds, ActivePayment
<1>3. \A d \in Documents : BookPlaced'[p][d] = 0
  BY DEF BookPlaced, Contribution
<1>4. Book!Debts = Documents
  BY DEF Book!Debts, Documents
<1> QED
  BY <1>1, <1>2, <1>3, <1>4, BookOthers
     DEF Book!Void, BookState, BookFunds, BookPlaced

LEMMA BookInitial == Init => Book!BookInit
<1> SUFFICES ASSUME Init PROVE Book!BookInit
    OBVIOUS
<1>1. \A p \in Payments : pays[p].life = "absent" /\ pays[p].document = 0
  BY DEF Init, NoPayment
<1>2. \A p \in Payments : BookState[p] = "none" /\ Funds(p) = 0
  BY <1>1, BookLife DEF Funds, ActivePayment
<1>3. \A p \in Payments, d \in Documents : Contribution(pays, alloc, p, d) = 0
  BY <1>1 DEF Contribution
<1>4. BookState = [p \in Payments |-> "none"] /\ BookFunds = [p \in Payments |-> 0]
  BY <1>2 DEF BookState, BookFunds
<1>5. BookPlaced = [p \in Payments |-> [d \in Documents |-> 0]]
  BY <1>3 DEF BookPlaced
<1>6. Book!Movements = Payments /\ Book!Debts = Documents
  BY DEF Book!Movements, Book!Debts, Payments, Documents
<1> QED
  BY <1>4, <1>5, <1>6 DEF Book!BookInit, BookState, BookFunds, BookPlaced

\* A step of the book by one payment is a step of the book.
LEMMA BookNextIntro ==
    ASSUME NEW p \in Payments,
           Book!Receive(p) \/ Book!Place(p) \/ Book!Amend(p) \/ Book!Void(p)
    PROVE  Book!BookNext
<1>1. p \in Book!Movements
  BY DEF Book!Movements, Payments
<1> QED
  BY <1>1 DEF Book!BookNext

\* A request that moves no money leaves the book alone, if no payment row changes.
LEMMA BookStutter ==
    ASSUME MovesNoMoney, pays' = pays
    PROVE  UNCHANGED Book!bookVars
<1>1. BookPlaced' = BookPlaced
  BY DEF MovesNoMoney, BookPlaced
<1>2. BookState' = BookState /\ BookFunds' = BookFunds
  BY DEF BookState, BookFunds, Funds, ActivePayment
<1> QED
  BY <1>1, <1>2, BookVars DEF Book!bookVars, BookState, BookFunds, BookPlaced

LEMMA BookApply ==
    ASSUME IInv, IInv', NEW c, NEW amount, NEW discount, NEW purpose, NEW lines,
           ApplyPayment(c, amount, discount, purpose, lines)
    PROVE  Book!BookNext
<1>1. PICK p \in Payments :
         /\ pays[p].life = "absent" /\ pays'[p].life = "active"
         /\ \A q \in Payments \ {p} : pays'[q] = pays[q] /\ alloc'[q] = alloc[q]
  BY DEF ApplyPayment, NewPayment, NextPayment, NoPayment, IInv, TypeOK
<1> QED
  BY <1>1, BookReceive, BookNextIntro DEF IInv, Funded

LEMMA BookOnAccount ==
    ASSUME IInv, IInv', NEW c, NEW amount, NEW purpose, CreateOnAccount(c, amount, purpose)
    PROVE  Book!BookNext
<1>1. PICK p \in Payments :
         /\ pays[p].life = "absent" /\ pays'[p].life = "active"
         /\ \A q \in Payments \ {p} : pays'[q] = pays[q] /\ alloc'[q] = alloc[q]
  BY DEF CreateOnAccount, NewPayment, NextPayment, NoPayment, IInv, TypeOK
<1> QED
  BY <1>1, BookReceive, BookNextIntro DEF IInv, Funded

LEMMA BookAllocate ==
    ASSUME IInv, IInv', NEW p \in Payments, NEW lines \in [Documents -> Nat],
           AllocateExisting(p, lines)
    PROVE  Book!BookNext
<1>1. pays[p] \in Payment /\ alloc[p] \in [Documents -> Nat]
  BY DEF IInv, TypeOK
<1>2. /\ pays[p].life = "active" /\ pays'[p].life = "active"
      /\ pays'[p].amount = pays[p].amount /\ pays'[p].discount = pays[p].discount
      /\ pays'[p].document = pays[p].document
      /\ \A d \in Documents : alloc'[p][d] = alloc[p][d] + lines[d]
      /\ \A q \in Payments \ {p} : pays'[q] = pays[q] /\ alloc'[q] = alloc[q]
  BY <1>1 DEF AllocateExisting, CanAllocate, ActivePayment, IInv, TypeOK, Payment
<1>3. Funds(p)' = Funds(p)
  BY <1>2 DEF Funds, ActivePayment
<1>4. ASSUME NEW d \in Documents
      PROVE  Contribution(pays, alloc, p, d) <= Contribution(pays', alloc', p, d)
  <2>1. CASE HasAllocations(alloc, p)
    <3>1. PICK e \in Documents : alloc[p][e] > 0
      BY <2>1 DEF HasAllocations
    <3>2. alloc'[p][e] > 0
      BY <3>1, <1>1, <1>2
    <3>3. HasAllocations(alloc', p)
      BY <3>2 DEF HasAllocations
    <3> QED
      BY <1>1, <1>2, <2>1, <3>3 DEF Contribution
  <2>2. CASE ~ HasAllocations(alloc, p)
    <3>1. pays[p].document = 0 /\ d # 0
      BY <2>2 DEF AllocateExisting, CanAllocate, Documents
    <3>2. Contribution(pays, alloc, p, d) = 0
      BY <2>2, <3>1 DEF Contribution
    <3>3. Contribution(pays', alloc', p, d) \in Nat
      <4>1. pays' \in PaymentTable /\ alloc' \in AllocationTable
        BY DEF IInv, TypeOK, PaymentTable, AllocationTable
      <4> QED
        BY <4>1, ContributionNat
    <3> QED
      BY <3>2, <3>3
  <2> QED
    BY <2>1, <2>2
<1> QED
  BY <1>2, <1>3, <1>4, BookPlace, BookNextIntro DEF IInv, Funded

LEMMA BookUpdate ==
    ASSUME IInv, IInv', NEW p \in Payments, NEW amount, NEW d, UpdatePayment(p, amount, d)
    PROVE  Book!BookNext
<1>1. /\ pays[p].life = "active" /\ pays'[p].life = "active"
      /\ pays[p].document = 0 /\ ~ HasAllocations(alloc, p)
      /\ \A q \in Payments \ {p} : pays'[q] = pays[q] /\ alloc'[q] = alloc[q]
  <2>1. pays[p] \in Payment
    BY DEF IInv, TypeOK
  <2>2. EditedPayment(pays[p], amount, d).life = pays[p].life
    BY <2>1 DEF EditedPayment, Payment
  <2>3. /\ pays[p].life = "active" /\ pays[p].document = 0 /\ ~ HasAllocations(alloc, p)
        /\ pays' = [pays EXCEPT ![p] = EditedPayment(pays[p], amount, d)] /\ alloc' = alloc
    BY DEF UpdatePayment, Editable, ActivePayment
  <2> QED
    BY <2>2, <2>3 DEF IInv, TypeOK
<1>2. \A e \in Documents : Contribution(pays, alloc, p, e) = 0
  BY <1>1 DEF Contribution, Documents
<1> QED
  BY <1>1, <1>2, BookAmend, BookNextIntro DEF IInv, Funded

LEMMA BookVoiding ==
    ASSUME IInv, IInv', NEW p \in Payments, VoidPayment(p)
    PROVE  Book!BookNext
<1>1. /\ pays[p].life = "active" /\ pays'[p].life = "voided"
      /\ \A q \in Payments \ {p} : pays'[q] = pays[q] /\ alloc'[q] = alloc[q]
  BY DEF VoidPayment, ActivePayment, IInv, TypeOK, Payment
<1> QED
  BY <1>1, BookVoid, BookNextIntro

LEMMA BookStep ==
    ASSUME IInv, IInv', [Next]_vars
    PROVE  [Book!BookNext]_(Book!bookVars)
<1> DEFINE Done == [Book!BookNext]_(Book!bookVars)
<1>1. CASE DocumentNext
  <2>1. UNCHANGED <<pays, alloc>>
    BY <1>1, DocumentNextKind DEF KeepsWriteOffs
  <2>2. BookState' = BookState /\ BookFunds' = BookFunds /\ BookPlaced' = BookPlaced
    BY <2>1 DEF BookState, BookFunds, Funds, ActivePayment, BookPlaced, Contribution, HasAllocations
  <2> QED
    BY <2>2 DEF Book!bookVars, BookState, BookFunds, BookPlaced
<1>2. CASE PaymentNext
  <2>1. ASSUME NEW lines \in Lines PROVE lines \in [Documents -> Nat]
    <3>1. \A a \in Amounts : a \in Nat
      BY LedgerAssumption
    <3> QED
      BY <3>1 DEF Lines
  <2>2. Book!BookNext
    BY <1>2, <2>1, BookApply, BookOnAccount, BookAllocate, BookUpdate, BookVoiding
       DEF PaymentNext, CreateSingle, CreateFifo, CreateFifoNothingOwed
  <2> QED
    BY <2>2
<1>3. CASE BackfillPaymentAllocations
  <2>1. MovesNoMoney /\ pays' = pays
    BY <1>3, BackfillMovesNoMoney DEF BackfillPaymentAllocations
  <2> QED
    BY <2>1, BookStutter
<1>4. CASE UNCHANGED vars
  <2>1. MovesNoMoney /\ pays' = pays
    BY <1>4 DEF vars, MovesNoMoney, Contribution, HasAllocations
  <2> QED
    BY <2>1, BookStutter
<1> QED
  BY <1>1, <1>2, <1>3, <1>4 DEF Next

\* The ledger implements the payment book for every bound and amount: money
\* placed on a debt stays there until its payment is voided, a payment never
\* covers more than its funds, and voiding is final.
THEOREM ImplementsPaymentBook == Spec => KeepsPaymentBook
<1>1. IInv /\ IInv' /\ [Next]_vars => [Book!BookNext]_(Book!bookVars)
  BY BookStep
<1> QED
  BY <1>1, BookInitial, Inductive, PTL DEF Spec, KeepsPaymentBook, Book!BookSpec

-----------------------------------------------------------------------------
(* Written-off debts. *)

\* A validated line never goes to a written-off debt: the cancelled one is
\* refused by its status, the exonerated one because it owes nothing.
LEMMA NoLineOnWriteOff ==
    ASSUME IInv, NEW c, NEW lines \in [Documents -> Nat], ValidAllocations(c, lines),
           NEW d \in Documents, lines[d] > 0
    PROVE  ~ IsTerminalWriteoffStatus(docs[d].status)
<1>1. docs[d].status # Cancelled /\ lines[d] <= docs[d].balance
  BY DEF ValidAllocations, LineDocuments
<1>2. docs[d].status # Exonerado
  BY <1>1 DEF IInv, ExoneratedOwesNothing
<1> QED
  BY <1>1, <1>2 DEF IsTerminalWriteoffStatus

LEMMA ApplyAllocates ==
    ASSUME IInv, NEW c, NEW amount, NEW discount, NEW purpose, NEW lines \in [Documents -> Nat],
           ApplyPayment(c, amount, discount, purpose, lines),
           NEW p \in Payments, NEW d \in Documents, alloc'[p][d] > alloc[p][d]
    PROVE  ~ IsTerminalWriteoffStatus(docs[d].status)
<1>1. PICK q \in Payments : NextPayment(q) /\ alloc' = [alloc EXCEPT ![q] = lines]
  BY DEF ApplyPayment
<1>2. alloc[p][d] \in Nat
  BY DEF IInv, TypeOK
<1>3. p = q
  BY <1>1, <1>2 DEF IInv, TypeOK
<1>4. lines[d] > 0
  BY <1>1, <1>2, <1>3 DEF IInv, TypeOK
<1>5. ValidAllocations(c, lines)
  BY DEF ApplyPayment
<1> QED
  BY <1>4, <1>5, NoLineOnWriteOff

\* No payment is ever allocated to a written-off debt, for every bound and amount;
\* the backfill only writes down a legacy link that was already there.
THEOREM WrittenOffUntouched == Spec => WrittenOffGetsNoAllocation
<1>1. ASSUME IInv, [Next]_vars, NEW p \in Payments, NEW d \in Documents,
             alloc'[p][d] > alloc[p][d], IsTerminalWriteoffStatus(docs[d].status)
      PROVE  pays[p].document = d
  <2> USE <1>1
  <2>1. alloc[p] \in [Documents -> Nat] /\ pays[p] \in Payment
    BY DEF IInv, TypeOK
  <2>2. alloc' # alloc
    BY <2>1
  <2>3. ASSUME NEW lines \in Lines PROVE lines \in [Documents -> Nat]
    <3>1. \A a \in Amounts : a \in Nat
      BY LedgerAssumption
    <3> QED
      BY <3>1 DEF Lines
  <2>4. ASSUME NEW c \in Companies, NEW amount \in Amounts, NEW discount \in Discounts,
               NEW purpose \in Purposes, NEW e \in Documents,
               CreateSingle(c, e, amount, discount, purpose)
        PROVE  FALSE
    <3>1. OpenBalance(e) \in Nat /\ amount \in Nat
      BY OpenBalanceNat, LedgerAssumption DEF IInv, TypeOK, PaymentTable, AllocationTable
    <3>2. SingleLine(e, amount, discount) \in [Documents -> Nat]
      BY <3>1 DEF SingleLine, NoLines
    <3> QED
      BY <2>4, <3>2, ApplyAllocates DEF CreateSingle
  <2>5. ASSUME NEW c \in Companies, NEW amount \in Amounts, NEW purpose \in Purposes,
               NEW rank \in IssueOrders, CreateFifo(c, amount, purpose, rank)
        PROVE  FALSE
    <3>1. FifoLines(c, amount, rank) \in [Documents -> Nat]
      BY FifoLinesType, LedgerAssumption DEF IInv, TypeOK, PaymentTable, AllocationTable
    <3> QED
      BY <2>5, <3>1, ApplyAllocates DEF CreateFifo
  <2>6. ASSUME NEW c \in Companies, NEW amount, NEW discount, NEW purpose, NEW lines \in Lines,
               ApplyPayment(c, amount, discount, purpose, lines)
        PROVE  FALSE
    BY <2>3, <2>6, ApplyAllocates
  <2>7. ASSUME NEW q \in Payments, NEW lines \in Lines, AllocateExisting(q, lines)
        PROVE  FALSE
    <3>1. /\ alloc' = [alloc EXCEPT ![q] = [e \in Documents |-> alloc[q][e] + lines[e]]]
          /\ ValidAllocations(pays[q].company, lines)
      BY <2>7 DEF AllocateExisting
    <3>2. p = q
      BY <3>1, <2>1 DEF IInv, TypeOK
    <3>3. alloc'[p][d] = alloc[p][d] + lines[d] /\ lines[d] \in Nat
      BY <3>1, <3>2, <2>3, <2>1 DEF IInv, TypeOK
    <3>4. lines[d] > 0
      BY <3>3, <2>1
    <3> QED
      BY <3>1, <3>4, <2>3, NoLineOnWriteOff
  <2>8. ASSUME NEW q \in Payments, VoidPayment(q)
        PROVE  FALSE
    <3>1. alloc' = [alloc EXCEPT ![q] = NoLines]
      BY <2>8 DEF VoidPayment
    <3>2. p = q /\ alloc'[p] = NoLines
      BY <3>1, <2>1 DEF IInv, TypeOK
    <3>3. alloc'[p][d] = 0
      BY <3>2 DEF NoLines
    <3> QED
      BY <3>3, <2>1
  <2>9. ~ DocumentNext
    BY <2>2, DocumentNextKind DEF KeepsWriteOffs
  <2>10. ~ PaymentNext
    BY <2>2, <2>4, <2>5, <2>6, <2>7, <2>8
       DEF PaymentNext, CreateOnAccount, CreateFifoNothingOwed, UpdatePayment
  <2>11. BackfillPaymentAllocations
    BY <2>2, <2>9, <2>10 DEF Next, vars
  <2>12. NeedsBackfill(p)
    BY <2>1, <2>11, BackfillRows
  <2> QED
    BY <2>1, <2>11, <2>12, BackfillRows
<1>2. IInv /\ [Next]_vars
      => [\A p \in Payments, d \in Documents :
             alloc'[p][d] > alloc[p][d] /\ IsTerminalWriteoffStatus(docs[d].status)
             => pays[p].document = d]_vars
  BY <1>1
<1> QED
  BY <1>2, Inductive, PTL DEF Spec, WrittenOffGetsNoAllocation

-----------------------------------------------------------------------------
(* A discount closes the debts it is granted on. *)

\* What DiscountClosesItsDebts says of one step.
DiscountCloses ==
    \A p \in Payments, d \in Documents :
        pays[p].life = "absent" /\ pays'[p].discount > 0 /\ alloc'[p][d] > 0
        => docs'[d].balance <= DriftCents

\* A debt receives what it had and what one new payment brings it.
LEMMA PaidTotalGrows ==
    ASSUME NEW ps \in PaymentTable, NEW al \in AllocationTable, NEW qs, NEW bl,
           NEW p \in Payments, NEW d \in Documents, NEW v \in Nat,
           Contribution(ps, al, p, d) = 0, Contribution(qs, bl, p, d) = v,
           \A q \in Payments \ {p} : Contribution(qs, bl, q, d) = Contribution(ps, al, q, d)
    PROVE  PaidTotal(qs, bl, d) = PaidTotal(ps, al, d) + v
<1> DEFINE f == [q \in Payments |-> Contribution(ps, al, q, d)]
           g == [q \in Payments |-> IF q = p THEN v ELSE 0]
           h == [q \in Payments |-> Contribution(qs, bl, q, d)]
<1>1. \A q \in Payments : Contribution(ps, al, q, d) \in Nat
  BY ContributionNat
<1>2. \A q \in 1 .. MaxPayments : f[q] \in Nat /\ g[q] \in Nat /\ h[q] = f[q] + g[q]
  BY <1>1 DEF Payments
<1>3. \A q \in 1 .. MaxPayments : g[q] = IF q = p THEN v ELSE 0
  BY DEF Payments
<1>4. p \in Nat /\ p \in 1 .. MaxPayments
  BY BoundsNat DEF Payments
<1> HIDE DEF f, g, h
<1>5. SumTo(g, MaxPayments) = v
  BY <1>3, <1>4, BoundsNat, SumOne
<1>6. SumTo(h, MaxPayments) = SumTo(f, MaxPayments) + SumTo(g, MaxPayments)
  BY <1>2, BoundsNat, SumPlus
<1> QED
  BY <1>5, <1>6 DEF PaidTotal, f, h

\* A payment of the open balance leaves at most the drift: the dual read returns the
\* computed balance, or a stored one that is at most the drift away from it.
LEMMA OpenBalanceCloses ==
    ASSUME NEW doc \in Document, NEW paid \in Nat, NEW v \in Nat, v > 0,
           v = EffectiveBalance(doc.status, doc.total, doc.balance, paid)
    PROVE  PersistBalanceAndStatus(doc, paid + v).balance <= DriftCents
<1>1. doc.total \in Nat /\ doc.balance \in Nat
  BY DEF Document
<1>2. ~ IsTerminalWriteoffStatus(doc.status)
  BY DEF EffectiveBalance
<1>3. PersistBalanceAndStatus(doc, paid + v).balance = BalanceFromTotalPaid(doc.total, paid + v)
  BY <1>2 DEF PersistBalanceAndStatus, WithBalance, Document
<1>4. CASE v = BalanceFromTotalPaid(doc.total, paid)
  BY <1>1, <1>3, <1>4 DEF BalanceFromTotalPaid, DriftCents
<1>5. CASE v = doc.balance /\ v # BalanceFromTotalPaid(doc.total, paid)
  BY <1>1, <1>2, <1>3, <1>5 DEF EffectiveBalance, BalanceFromTotalPaid, DriftCents
<1> QED
  BY <1>2, <1>4, <1>5 DEF EffectiveBalance

LEMMA ApplyCloses ==
    ASSUME IInv, NEW c \in Companies, NEW amount \in Nat, NEW discount \in Nat, NEW purpose,
           NEW lines \in [Documents -> Nat], ApplyPayment(c, amount, discount, purpose, lines)
    PROVE  DiscountCloses
<1> DEFINE new == NewPayment("applied", c, amount, discount, purpose)
<1>1. PICK q \in Payments : /\ NextPayment(q)
                            /\ ValidAmounts(amount, discount, lines)
                            /\ pays' = [pays EXCEPT ![q] = new]
                            /\ alloc' = [alloc EXCEPT ![q] = lines]
                            /\ docs' = Persisted(LineDocuments(lines), pays', alloc')
  BY DEF ApplyPayment
<1> SUFFICES ASSUME NEW p \in Payments, NEW d \in Documents,
                    pays[p].life = "absent", pays'[p].discount > 0, alloc'[p][d] > 0
             PROVE  docs'[d].balance <= DriftCents
    BY DEF DiscountCloses
<1>2. /\ pays \in PaymentTable /\ alloc \in AllocationTable /\ docs[d] \in Document
      /\ pays \in [Payments -> Payment] /\ alloc \in [Payments -> [Documents -> Nat]]
  BY DEF IInv, TypeOK, PaymentTable, AllocationTable
<1>3. p = q
  BY <1>1, <1>2 DEF IInv, RowsOfActivePayments, ActivePayment
<1>4. /\ pays'[p] = new /\ alloc'[p] = lines /\ new.life = "active" /\ new.discount = discount
      /\ \A r \in Payments \ {p} : pays'[r] = pays[r] /\ alloc'[r] = alloc[r]
  BY <1>1, <1>2, <1>3 DEF NewPayment, NoPayment
<1>5. lines[d] \in Nat /\ lines[d] > 0 /\ d \in LineDocuments(lines) /\ lines[d] = OpenBalance(d)
  BY <1>1, <1>4 DEF LineDocuments, ValidAmounts
<1>6. PaidTotal(pays', alloc', d) = PaidTotal(pays, alloc, d) + lines[d]
  <2>1. Contribution(pays, alloc, p, d) = 0
    BY DEF Contribution
  <2>2. Contribution(pays', alloc', p, d) = lines[d]
    BY <1>4, <1>5 DEF Contribution, HasAllocations
  <2>3. \A r \in Payments \ {p} : Contribution(pays', alloc', r, d) = Contribution(pays, alloc, r, d)
    BY <1>4 DEF Contribution, HasAllocations
  <2> QED
    BY <1>2, <1>5, <2>1, <2>2, <2>3, PaidTotalGrows
<1>7. docs'[d] = PersistBalanceAndStatus(docs[d], PaidTotal(pays, alloc, d) + lines[d])
  BY <1>1, <1>5, <1>6 DEF Persisted
<1>8. PaidTotal(pays, alloc, d) \in Nat
  BY <1>2, PaidTotalNat
<1> QED
  BY <1>2, <1>5, <1>7, <1>8, OpenBalanceCloses DEF OpenBalance

\* Nothing is closed by a step that brings no payment with a discount.
LEMMA NoneGranted ==
    ASSUME IInv',
           \A p \in Payments : pays[p].life = "absent" /\ pays'[p].life = "active"
                               => pays'[p].discount = 0
    PROVE  DiscountCloses
<1> SUFFICES ASSUME NEW p \in Payments, NEW d \in Documents,
                    pays[p].life = "absent", pays'[p].discount > 0, alloc'[p][d] > 0
             PROVE  FALSE
    BY DEF DiscountCloses
<1>1. pays'[p].life = "active"
  BY DEF IInv, RowsOfActivePayments, ActivePayment, TypeOK
<1> QED
  BY <1>1

LEMMA NextCloses ==
    ASSUME IInv, IInv', [Next]_vars
    PROVE  DiscountCloses
<1>1. CASE UNCHANGED pays
  BY <1>1, NoneGranted
<1>2. CASE PaymentNext
  <2>1. ASSUME NEW lines \in Lines PROVE lines \in [Documents -> Nat]
    <3>1. \A a \in Amounts : a \in Nat
      BY LedgerAssumption
    <3> QED
      BY <3>1 DEF Lines
  <2>2. ASSUME NEW c \in Companies, NEW amount \in Amounts, NEW purpose,
               CreateOnAccount(c, amount, purpose)
        PROVE  DiscountCloses
    BY <2>2, NoneGranted DEF CreateOnAccount, NewPayment, NoPayment, IInv, TypeOK
  <2>3. ASSUME NEW c \in Companies, NEW amount \in Amounts, NEW purpose, NEW discount \in Discounts,
               NEW lines \in Lines, ApplyPayment(c, amount, discount, purpose, lines)
        PROVE  DiscountCloses
    <3>1. amount \in Nat /\ discount \in Nat /\ lines \in [Documents -> Nat]
      BY <2>1, LedgerAssumption
    <3> QED
      BY <2>3, <3>1, ApplyCloses
  <2>4. ASSUME NEW c \in Companies, NEW amount \in Amounts, NEW purpose, NEW discount \in Discounts,
               NEW d \in Documents, CreateSingle(c, d, amount, discount, purpose)
        PROVE  DiscountCloses
    <3>1. OpenBalance(d) \in Nat /\ amount \in Nat /\ discount \in Nat
      BY OpenBalanceNat, LedgerAssumption DEF IInv, TypeOK, PaymentTable, AllocationTable
    <3>2. SingleLine(d, amount, discount) \in [Documents -> Nat]
      BY <3>1 DEF SingleLine, NoLines
    <3> QED
      BY <2>4, <3>1, <3>2, ApplyCloses DEF CreateSingle
  <2>5. ASSUME NEW c \in Companies, NEW amount \in Amounts, NEW purpose, NEW rank \in IssueOrders,
               CreateFifo(c, amount, purpose, rank)
        PROVE  DiscountCloses
    <3>1. FifoLines(c, amount, rank) \in [Documents -> Nat] /\ amount \in Nat /\ 0 \in Nat
      BY FifoLinesType, LedgerAssumption DEF IInv, TypeOK, PaymentTable, AllocationTable
    <3> QED
      BY <2>5, <3>1, ApplyCloses DEF CreateFifo
  <2>6. ASSUME NEW q \in Payments, NEW row, pays' = [pays EXCEPT ![q] = row],
               pays[q].life # "absent"
        PROVE  DiscountCloses
    BY <2>6, NoneGranted DEF IInv, TypeOK
  <2>7. ASSUME NEW p \in Payments, NEW lines \in Lines, AllocateExisting(p, lines)
        PROVE  DiscountCloses
    BY <2>6, <2>7 DEF AllocateExisting, CanAllocate, ActivePayment
  <2>8. ASSUME NEW p \in Payments, NEW amount, NEW d, UpdatePayment(p, amount, d)
        PROVE  DiscountCloses
    BY <2>6, <2>8 DEF UpdatePayment, Editable, ActivePayment
  <2>9. ASSUME NEW p \in Payments, VoidPayment(p) PROVE DiscountCloses
    BY <2>6, <2>9 DEF VoidPayment, ActivePayment
  <2> QED
    BY <1>2, <2>2, <2>3, <2>4, <2>5, <2>7, <2>8, <2>9 DEF PaymentNext, CreateFifoNothingOwed
<1>3. CASE DocumentNext
  <2>1. UNCHANGED pays
    BY <1>3 DEF DocumentNext, CreateDocument, EnsureMonthlyCharge, UpdateDocument, DeleteDocument,
       WriteOffUnlinkedDebt
  <2> QED
    BY <1>1, <2>1
<1>4. CASE BackfillPaymentAllocations
  BY <1>1, <1>4 DEF BackfillPaymentAllocations
<1> QED
  BY <1>1, <1>2, <1>3, <1>4 DEF Next, vars

\* A discount is granted only to close debts, for every amount and however far the stored
\* balances have drifted (EffectiveBalance, ValidatePaymentAmountsAndAllocations).
THEOREM DiscountsClose == Spec => DiscountClosesItsDebts
<1>1. IInv /\ IInv' /\ [Next]_vars => [DiscountCloses]_vars
  BY NextCloses
<1> QED
  BY <1>1, Inductive, PTL DEF Spec, DiscountClosesItsDebts, DiscountCloses

=============================================================================
