--------------------------- MODULE MempoolProofs ---------------------------
(***************************************************************************)
(* Proofs about Mempool: the books of the queue first, then what a         *)
(* rollback can return, then the queue against the ledger.                 *)
(***************************************************************************)
EXTENDS Mempool, InductionLemmas

(* What holds of the queue between any two calls, for one queue. *)
QueueOK(q) ==
    /\ q \in Queues
    /\ q.ids = Resident(q)
    /\ \A i, j \in 1 .. Len(q.entries) : q.entries[i].tx = q.entries[j].tx => i = j
    /\ DOMAIN q.claimed = InputsOf(q.ids)
    /\ \A x \in DOMAIN q.claimed : x \in Inputs[q.claimed[x]]
    /\ \A t, u \in q.ids : t # u => Inputs[t] \cap Inputs[u] = {}
    /\ q.bytes = SizeOf(q.ids)
    /\ MaxBytes > 0 => q.bytes <= MaxBytes
    /\ \A i, j \in 1 .. Len(q.entries) : i < j => Fee[q.entries[i].tx] >= Fee[q.entries[j].tx]
    /\ \A i, j \in 1 .. Len(q.entries) : i < j => q.entries[i].idx # q.entries[j].idx
    /\ \A i \in 1 .. Len(q.entries) : q.entries[i].idx < q.next

(* The fields of a queue. *)
LEMMA QueueFields ==
    ASSUME NEW q, q \in Queues
    PROVE  /\ q.entries \in Seq(Entries(Txs)) /\ q.ids \in SUBSET Txs
           /\ q.bytes \in Nat /\ q.next \in Nat
           /\ Len(q.entries) \in Nat /\ DOMAIN q.entries = 1 .. Len(q.entries)
           /\ \A i \in 1 .. Len(q.entries) : /\ q.entries[i] \in Entries(Txs)
                                             /\ q.entries[i].tx \in Txs /\ q.entries[i].idx \in Nat
           /\ Resident(q) = { q.entries[i].tx : i \in 1 .. Len(q.entries) }
           /\ Resident(q) \subseteq Txs
<1>1. q.entries \in Seq(Entries(Txs)) /\ q.ids \in SUBSET Txs /\ q.bytes \in Nat /\ q.next \in Nat
  BY DEF Queues
<1>2. Len(q.entries) \in Nat /\ DOMAIN q.entries = 1 .. Len(q.entries)
  BY <1>1
<1>3. \A i \in 1 .. Len(q.entries) : q.entries[i] \in Entries(Txs)
  BY <1>1
<1>4. \A i \in 1 .. Len(q.entries) : q.entries[i].tx \in Txs /\ q.entries[i].idx \in Nat
  BY <1>3 DEF Entries
<1>5. Resident(q) = { q.entries[i].tx : i \in 1 .. Len(q.entries) }
  BY <1>2 DEF Resident
<1> QED BY <1>1, <1>2, <1>3, <1>4, <1>5

(* A queue holds finitely many transactions. *)
LEMMA ResidentFinite ==
    ASSUME NEW q, q \in Queues
    PROVE  IsFiniteSet(Resident(q))
<1> DEFINE N == Len(q.entries)
           f == [i \in 1 .. N |-> q.entries[i].tx]
<1>1. N \in Nat /\ Resident(q) = { q.entries[i].tx : i \in 1 .. N }
  BY QueueFields
<1>2. f \in Surjection(1 .. N, Resident(q))
  BY <1>1 DEF Surjection
<1>3. ExistsSurjection(1 .. N, Resident(q))
  BY <1>2 DEF ExistsSurjection
<1> QED BY <1>1, <1>3, FS_NatSurjection

(* The size of a queue without duplicates. *)
LEMMA ResidentCount ==
    ASSUME NEW q, QueueOK(q)
    PROVE  Cardinality(q.ids) = Len(q.entries)
<1> DEFINE N == Len(q.entries)
           f == [i \in 1 .. N |-> q.entries[i].tx]
<1>1. N \in Nat /\ Resident(q) = { q.entries[i].tx : i \in 1 .. N } /\ q.ids = Resident(q)
  BY QueueFields DEF QueueOK
<1>2. \A i, j \in 1 .. N : q.entries[i].tx = q.entries[j].tx => i = j
  BY DEF QueueOK
<1>3. f \in Bijection(1 .. N, Resident(q))
  BY <1>1, <1>2 DEF Bijection, Injection, Surjection, IsInjective
<1>4. ExistsBijection(1 .. N, Resident(q))
  BY <1>3 DEF ExistsBijection
<1> QED BY <1>1, <1>4, FS_CountingElements

(* Sizes and fees of sets of transactions add up. *)
LEMMA SizeFacts ==
    ASSUME NEW S, IsFiniteSet(S), S \subseteq Txs
    PROVE  /\ SizeOf(S) \in Nat /\ FeeOf(S) \in Nat
           /\ \A T \in SUBSET S : /\ SizeOf(T) \in Nat /\ FeeOf(T) \in Nat
                                  /\ SizeOf(S) = SizeOf(T) + SizeOf(S \ T)
                                  /\ FeeOf(S) = FeeOf(T) + FeeOf(S \ T)
           /\ \A t \in Txs : t \notin S => /\ SizeOf(S \cup {t}) = SizeOf(S) + Size[t]
                                           /\ FeeOf(S \cup {t}) = FeeOf(S) + Fee[t]
<1>0. \A t \in Txs : Size[t] \in Nat /\ Fee[t] \in Nat
  BY TxAssumption
<1>1. ASSUME NEW T \in SUBSET S PROVE SizeOf(T) \in Nat /\ FeeOf(T) \in Nat
  <2>1. IsFiniteSet(T) /\ \A x \in T : Size[x] \in Nat /\ Fee[x] \in Nat
    BY <1>0, FS_Subset
  <2> QED BY <2>1, SumType DEF SizeOf, FeeOf
<1>2. ASSUME NEW T \in SUBSET S
      PROVE  SizeOf(S) = SizeOf(T) + SizeOf(S \ T) /\ FeeOf(S) = FeeOf(T) + FeeOf(S \ T)
  <2>1. \A x \in S : Size[x] \in Nat /\ Fee[x] \in Nat
    BY <1>0
  <2> QED BY <2>1, SumSplit DEF SizeOf, FeeOf
<1>3. ASSUME NEW t \in Txs, t \notin S
      PROVE  SizeOf(S \cup {t}) = SizeOf(S) + Size[t] /\ FeeOf(S \cup {t}) = FeeOf(S) + Fee[t]
  <2> DEFINE W == S \cup {t}
  <2>1. IsFiniteSet(W) /\ W \ {t} = S /\ t \in W
    BY <1>3, FS_AddElement
  <2>2. \A x \in W : Size[x] \in Nat /\ Fee[x] \in Nat
    BY <1>0
  <2>3. SizeOf(W) = Size[t] + SizeOf(W \ {t}) /\ FeeOf(W) = Fee[t] + FeeOf(W \ {t})
    <3> HIDE DEF W
    <3> QED BY <2>1, <2>2, SumRemove DEF SizeOf, FeeOf
  <2>4. SizeOf(S) \in Nat /\ FeeOf(S) \in Nat /\ Size[t] \in Nat /\ Fee[t] \in Nat
    BY <1>0, <1>1
  <2>5. SizeOf(W) = Size[t] + SizeOf(S) /\ FeeOf(W) = Fee[t] + FeeOf(S)
    BY <2>1, <2>3
  <2> HIDE DEF W
  <2>6. SizeOf(W) = SizeOf(S) + Size[t] /\ FeeOf(W) = FeeOf(S) + Fee[t]
    BY <2>4, <2>5
  <2> QED BY <2>6 DEF W
<1>4. S \in SUBSET S
  OBVIOUS
<1> QED BY <1>1, <1>2, <1>3, <1>4

(* Remove, on any queue in order: the queue stays in order, and the picked *)
(* entries are gone.                                                       *)
LEMMA RemoveKeepsQueue ==
    ASSUME NEW q, QueueOK(q), NEW S
    PROVE  /\ QueueOK(Remove(q, S))
           /\ Remove(q, S).ids = q.ids \ S
           /\ Remove(q, S).next = q.next
           /\ DOMAIN Remove(q, S).claimed \subseteq DOMAIN q.claimed
           /\ Remove(q, S).bytes = q.bytes - SizeOf(S \cap q.ids)
<1> DEFINE gone == S \cap Resident(q)
           E == q.entries
           r == Retain(E, Entries(Txs \ gone))
           c == Restrict(q.claimed, DOMAIN q.claimed \ InputsOf(gone))
           p == Remove(q, S)
<1>0. q \in Queues /\ q.ids = Resident(q)
  BY DEF QueueOK
<1>1. /\ p.entries = r /\ p.claimed = c /\ p.ids = q.ids \ gone
      /\ p.bytes = q.bytes - SizeOf(gone) /\ p.next = q.next
      /\ /\ r \in Seq(Entries(Txs)) /\ q.ids \ gone \in SUBSET Txs /\ q.bytes - SizeOf(gone) \in Nat
         /\ c \in UNION { [D -> Txs] : D \in SUBSET InputsOf(Txs) }
         => p \in Queues
  <2> DEFINE i == q.ids \ gone
             b == q.bytes - SizeOf(gone)
             V == UNION { [D -> Txs] : D \in SUBSET InputsOf(Txs) }
  <2>1. p = [q EXCEPT !.entries = r, !.claimed = c, !.ids = i, !.bytes = b]
    BY DEF Remove
  <2>2. q \in [entries : Seq(Entries(Txs)), claimed : V, ids : SUBSET Txs, bytes : Nat, next : Nat]
    BY <1>0 DEF Queues
  <2>3. Queues = [entries : Seq(Entries(Txs)), claimed : V, ids : SUBSET Txs, bytes : Nat, next : Nat]
    BY DEF Queues
  <2> HIDE DEF r, c, i, b, p, V
  <2>4. p.entries = r /\ p.claimed = c /\ p.ids = i /\ p.bytes = b /\ p.next = q.next
    BY <2>1, <2>2
  <2>5. r \in Seq(Entries(Txs)) /\ c \in V /\ i \in SUBSET Txs /\ b \in Nat =>
          p \in [entries : Seq(Entries(Txs)), claimed : V, ids : SUBSET Txs, bytes : Nat, next : Nat]
    BY <2>1, <2>2
  <2> QED BY <2>3, <2>4, <2>5 DEF i, b, V
<1>2. /\ E \in Seq(Entries(Txs)) /\ q.ids \in SUBSET Txs
      /\ q.bytes \in Nat /\ q.next \in Nat /\ Len(E) \in Nat /\ DOMAIN E = 1 .. Len(E)
      /\ \A i \in 1 .. Len(E) : E[i] \in Entries(Txs) /\ E[i].tx \in Txs /\ E[i].idx \in Nat
      /\ Resident(q) = { E[i].tx : i \in 1 .. Len(E) }
  BY <1>0, QueueFields
<1>3. r \in Seq(Entries(Txs)) /\ Selection(r, E, Len(E), Entries(Txs \ gone))
  BY <1>2, RetainSelects
<1>4. PICK h : Selects(h, r, E, Len(E), Entries(Txs \ gone))
  BY <1>3 DEF Selection
<1>5. /\ h \in [1 .. Len(r) -> 1 .. Len(E)]
      /\ \A j, k \in 1 .. Len(r) : j < k => h[j] < h[k]
      /\ \A k \in 1 .. Len(r) : r[k] = E[h[k]] /\ r[k].tx \notin gone
      /\ \A i \in 1 .. Len(E) : E[i].tx \notin gone => \E k \in 1 .. Len(r) : h[k] = i
  <2>1. \A k \in 1 .. Len(r) : r[k].tx \notin gone
    BY <1>4 DEF Selects, Entries
  <2>2. \A i \in 1 .. Len(E) : E[i].tx \notin gone => E[i] \in Entries(Txs \ gone)
    BY <1>2 DEF Entries
  <2> QED BY <1>4, <2>1, <2>2 DEF Selects
<1>6. Len(r) \in Nat /\ DOMAIN r = 1 .. Len(r)
  BY <1>3
<1> HIDE DEF r, p
<1>7. Resident(p) = q.ids \ gone
  <2>1. Resident(p) = { r[k].tx : k \in 1 .. Len(r) }
    BY <1>1, <1>6 DEF Resident
  <2>2. ASSUME NEW t \in q.ids \ gone PROVE \E k \in 1 .. Len(r) : r[k].tx = t
    <3>1. PICK i \in 1 .. Len(E) : E[i].tx = t
      BY <1>0, <1>2
    <3>2. PICK k \in 1 .. Len(r) : h[k] = i
      BY <3>1, <1>5
    <3> QED BY <3>1, <3>2, <1>5
  <2>3. ASSUME NEW k \in 1 .. Len(r) PROVE r[k].tx \in q.ids \ gone
    BY <1>0, <1>2, <1>5
  <2> HIDE DEF gone, E
  <2>4. { r[k].tx : k \in 1 .. Len(r) } = q.ids \ gone
    BY <2>2, <2>3
  <2> QED BY <2>1, <2>4
<1>8. gone \in SUBSET q.ids /\ IsFiniteSet(q.ids) /\ q.ids \ gone \in SUBSET q.ids /\ gone = S \cap q.ids
  BY <1>0, ResidentFinite
<1>9. /\ SizeOf(gone) \in Nat /\ SizeOf(q.ids \ gone) \in Nat
      /\ q.bytes = SizeOf(gone) + SizeOf(q.ids \ gone)
  <2>1. q.bytes = SizeOf(q.ids)
    BY DEF QueueOK
  <2> QED BY <1>2, <1>8, <2>1, SizeFacts
<1>10. /\ p.claimed \in [InputsOf(q.ids \ gone) -> Txs]
       /\ DOMAIN p.claimed = InputsOf(q.ids \ gone)
       /\ \A x \in DOMAIN p.claimed : x \in DOMAIN q.claimed /\ p.claimed[x] = q.claimed[x]
  <2>1. DOMAIN q.claimed = InputsOf(q.ids)
        /\ \A t, u \in q.ids : t # u => Inputs[t] \cap Inputs[u] = {}
    BY DEF QueueOK
  <2>2. InputsOf(q.ids) \ InputsOf(gone) = InputsOf(q.ids \ gone)
    BY <2>1, <1>8 DEF InputsOf
  <2>3. q.claimed \in [DOMAIN q.claimed -> Txs]
    BY <1>0 DEF Queues
  <2>4. InputsOf(q.ids \ gone) \subseteq InputsOf(q.ids)
    BY <1>8 DEF InputsOf
  <2> HIDE DEF gone
  <2> QED BY <1>1, <2>1, <2>2, <2>3, <2>4 DEF Restrict
<1>11. p \in Queues
  <2>1. InputsOf(q.ids \ gone) \in SUBSET InputsOf(Txs)
    BY <1>2 DEF InputsOf
  <2>2. p.claimed \in UNION { [D -> Txs] : D \in SUBSET InputsOf(Txs) }
    BY <2>1, <1>10
  <2>3. p.bytes \in Nat
    BY <1>1, <1>2, <1>9
  <2>4. q.ids \ gone \in SUBSET Txs
    BY <1>2
  <2> HIDE DEF gone, c
  <2> QED BY <1>1, <2>2, <2>3, <2>4, <1>3
<1>12. \A j, k \in 1 .. Len(r) : r[j].tx = r[k].tx => j = k
  <2>1. \A i, j \in 1 .. Len(E) : E[i].tx = E[j].tx => i = j
    BY DEF QueueOK
  <2> SUFFICES ASSUME NEW j \in 1 .. Len(r), NEW k \in 1 .. Len(r), r[j].tx = r[k].tx PROVE j = k
    OBVIOUS
  <2>2. h[j] = h[k]
    BY <1>5, <2>1, SMTT(30)
  <2> QED BY <2>2, <1>5, <1>6
<1>13. \A j, k \in 1 .. Len(r) : j < k => Fee[r[j].tx] >= Fee[r[k].tx] /\ r[j].idx # r[k].idx
  <2>1. \A i, j \in 1 .. Len(E) : i < j => Fee[E[i].tx] >= Fee[E[j].tx] /\ E[i].idx # E[j].idx
    BY DEF QueueOK
  <2> QED BY <2>1, <1>5, SMTT(30)
<1>14. \A k \in 1 .. Len(r) : r[k].idx < q.next
  <2>1. \A i \in 1 .. Len(E) : E[i].idx < q.next
    BY DEF QueueOK
  <2> QED BY <2>1, <1>5
<1>15. \A x \in DOMAIN p.claimed : x \in Inputs[p.claimed[x]]
  <2>1. \A x \in DOMAIN q.claimed : x \in Inputs[q.claimed[x]]
    BY DEF QueueOK
  <2> QED BY <2>1, <1>10
<1>16. \A t, u \in q.ids \ gone : t # u => Inputs[t] \cap Inputs[u] = {}
  BY DEF QueueOK
<1>17. q.bytes - SizeOf(gone) = SizeOf(q.ids \ gone) /\ (MaxBytes > 0 => q.bytes - SizeOf(gone) <= MaxBytes)
  <2>1. MaxBytes > 0 => q.bytes <= MaxBytes
    BY DEF QueueOK
  <2>2. MaxBytes \in Nat
    BY TxAssumption
  <2> HIDE DEF gone
  <2> QED BY <1>2, <1>9, <2>1, <2>2
<1>18. p.entries = r /\ p.ids = q.ids \ gone /\ p.bytes = q.bytes - SizeOf(gone) /\ p.next = q.next
  BY <1>1
<1>19. QueueOK(p)
  <2> HIDE DEF gone
  <2>1. p.ids = Resident(p) /\ DOMAIN p.claimed = InputsOf(p.ids)
    BY <1>7, <1>10, <1>18
  <2>2. \A t, u \in p.ids : t # u => Inputs[t] \cap Inputs[u] = {}
    BY <1>16, <1>18
  <2>3. p.bytes = SizeOf(p.ids) /\ (MaxBytes > 0 => p.bytes <= MaxBytes)
    BY <1>17, <1>18
  <2>4. \A i, j \in 1 .. Len(p.entries) : p.entries[i].tx = p.entries[j].tx => i = j
    BY <1>12, <1>18
  <2>5. \A i, j \in 1 .. Len(p.entries) : i < j =>
            /\ Fee[p.entries[i].tx] >= Fee[p.entries[j].tx]
            /\ p.entries[i].idx # p.entries[j].idx
    BY <1>13, <1>18
  <2>6. \A i \in 1 .. Len(p.entries) : p.entries[i].idx < p.next
    BY <1>14, <1>18
  <2> QED BY <2>1, <2>2, <2>3, <2>4, <2>5, <2>6, <1>11, <1>15 DEF QueueOK
<1>20. q.ids \ gone = q.ids \ S
  BY <1>8
<1> QED BY <1>8, <1>10, <1>18, <1>19, <1>20 DEF p

IsConcat(s, A, B, X) ==
    /\ s \in Seq(X) /\ Len(s) = Len(A) + Len(B)
    /\ \A i \in 1 .. Len(A) : s[i] = A[i]
    /\ \A i \in 1 .. Len(B) : s[Len(A) + i] = B[i]

(* The elements of a concatenation. *)
LEMMA Concatenated ==
    ASSUME NEW X, NEW A \in Seq(X), NEW B \in Seq(X)
    PROVE  IsConcat(A \o B, A, B, X)
  BY DEF IsConcat

(* Putting e behind the first k elements of E. *)
Spliced(E, k, e) == SubSeq(E, 1, k) \o <<e>> \o SubSeq(E, k + 1, Len(E))

IsSpliced(s, E, k, e, X) ==
    /\ s \in Seq(X) /\ Len(s) = Len(E) + 1
    /\ s[k + 1] = e
    /\ \A i \in 1 .. k : s[i] = E[i]
    /\ \A i \in k + 2 .. Len(E) + 1 : s[i] = E[i - 1]

(* The elements of a sequence with one inserted. *)
LEMMA SplicedElements ==
    ASSUME NEW X, NEW E \in Seq(X), NEW e \in X, NEW k \in 0 .. Len(E)
    PROVE  IsSpliced(Spliced(E, k, e), E, k, e, X)
<1> DEFINE n == Len(E)
           A == SubSeq(E, 1, k)
           B == SubSeq(E, k + 1, n)
           C == A \o <<e>>
           s == C \o B
<1>1. n \in Nat /\ k \in Nat /\ k <= n
  OBVIOUS
<1>2. A \in Seq(X) /\ Len(A) = k /\ \A i \in 1 .. k : A[i] = E[i]
  BY <1>1
<1>3. B \in Seq(X) /\ Len(B) = n - k /\ \A i \in 1 .. n - k : B[i] = E[k + i]
  BY <1>1
<1>4. Spliced(E, k, e) = s
  BY DEF Spliced
<1> HIDE DEF A, B
<1>5. C \in Seq(X) /\ Len(C) = k + 1 /\ C[k + 1] = e /\ \A i \in 1 .. k : C[i] = A[i]
  BY <1>1, <1>2
<1> HIDE DEF C
<1>6. /\ s \in Seq(X) /\ Len(s) = Len(C) + Len(B)
      /\ \A i \in 1 .. Len(C) : s[i] = C[i]
      /\ \A i \in 1 .. Len(B) : s[Len(C) + i] = B[i]
  <2>1. C \in Seq(X) /\ B \in Seq(X)
    BY <1>3, <1>5
  <2>2. IsConcat(C \o B, C, B, X)
    BY <2>1, Concatenated
  <2> QED BY <2>2, Zenon DEF IsConcat
<1> HIDE DEF s, n
<1>7. s \in Seq(X) /\ Len(s) = n + 1
  BY <1>1, <1>3, <1>5, <1>6
<1>9. ASSUME NEW i \in k + 2 .. n + 1 PROVE s[i] = E[i - 1]
  <2>2. i - (k + 1) \in 1 .. n - k /\ k + (i - (k + 1)) = i - 1 /\ (k + 1) + (i - (k + 1)) = i
    BY <1>1
  <2>3. s[(k + 1) + (i - (k + 1))] = B[i - (k + 1)]
    BY <2>2, <1>3, <1>5, <1>6
  <2> QED BY <2>2, <2>3, <1>3
<1>10. s[k + 1] = e /\ \A i \in 1 .. k : s[i] = E[i]
  BY <1>1, <1>2, <1>5, <1>6
<1> QED BY <1>4, <1>7, <1>9, <1>10 DEF n, IsSpliced

(* insert, when its checks pass. *)
LEMMA InsertKeepsQueue ==
    ASSUME NEW q, QueueOK(q), NEW t \in Txs, CanInsert(q, t)
    PROVE  QueueOK(Insert(q, t)) /\ Insert(q, t).ids = q.ids \cup {t}
<1> DEFINE E == q.entries
           n == Len(E)
           I == { i \in DOMAIN E : Fee[E[i].tx] >= Fee[t] }
           k == Cardinality(I)
           e == [tx |-> t, idx |-> q.next]
           s == Spliced(E, k, e)
           c == [x \in DOMAIN q.claimed \cup Inputs[t] |-> IF x \in Inputs[t] THEN t ELSE q.claimed[x]]
           p == Insert(q, t)
<1>0. q \in Queues /\ q.ids = Resident(q)
  BY DEF QueueOK
<1>1. p = [entries |-> s, claimed |-> c, ids |-> q.ids \cup {t},
           bytes |-> q.bytes + Size[t], next |-> q.next + 1]
  BY DEF Insert, Spliced
<1>2. /\ E \in Seq(Entries(Txs)) /\ q.ids \in SUBSET Txs
      /\ q.bytes \in Nat /\ q.next \in Nat /\ n \in Nat /\ DOMAIN E = 1 .. n
      /\ \A i \in 1 .. n : E[i] \in Entries(Txs) /\ E[i].tx \in Txs /\ E[i].idx \in Nat
      /\ Resident(q) = { E[i].tx : i \in 1 .. n }
  BY <1>0, QueueFields
<1>3. Size[t] \in Nat /\ Fee[t] \in Nat /\ MaxBytes \in Nat /\ \A u \in Txs : Fee[u] \in Nat
  BY TxAssumption
<1>4. k \in 0 .. n /\ I = 1 .. k
  <2>1. I \in SUBSET (1 .. n)
    BY <1>2
  <2>2. ASSUME NEW i \in I, NEW j \in 1 .. n, j < i PROVE j \in I
    <3>1. Fee[E[j].tx] >= Fee[E[i].tx]
      BY <2>1, <2>2 DEF QueueOK
    <3>2. E[i].tx \in Txs /\ E[j].tx \in Txs
      BY <1>2, <2>1
    <3>3. Fee[E[j].tx] >= Fee[t]
      BY <3>1, <3>2, <1>3
    <3> QED BY <3>3, <1>2
  <2> HIDE DEF I
  <2> QED BY <1>2, <2>1, <2>2, InitialSegment
<1>5. \A i \in 1 .. n : i <= k <=> Fee[E[i].tx] >= Fee[t]
  BY <1>2, <1>4
<1>6. e \in Entries(Txs)
  BY <1>2 DEF Entries
<1> HIDE DEF k, I, s
<1>7. /\ s \in Seq(Entries(Txs)) /\ Len(s) = n + 1
      /\ s[k + 1] = e
      /\ \A i \in 1 .. k : s[i] = E[i]
      /\ \A i \in k + 2 .. n + 1 : s[i] = E[i - 1]
  <2>1. E \in Seq(Entries(Txs)) /\ k \in 0 .. Len(E) /\ e \in Entries(Txs)
    BY <1>2, <1>4, <1>6
  <2> HIDE DEF e, E
  <2>2. IsSpliced(Spliced(E, k, e), E, k, e, Entries(Txs))
    BY <2>1, SplicedElements
  <2>3. s = Spliced(E, k, e)
    BY DEF s
  <2>4. IsSpliced(s, E, k, e, Entries(Txs))
    BY <2>2, <2>3
  <2> QED BY <2>4 DEF IsSpliced
<1>8. t \notin q.ids /\ Inputs[t] \cap DOMAIN q.claimed = {}
  BY DEF CanInsert, Duplicate, ConflictingInputs
<1> DEFINE from(i) == IF i <= k THEN i ELSE i - 1
<1>9. ASSUME NEW i \in 1 .. n + 1, i # k + 1
      PROVE  from(i) \in 1 .. n /\ s[i] = E[from(i)]
  BY <1>4, <1>7, <1>2, <1>9
<1>10. e.tx = t /\ e.idx = q.next
  OBVIOUS
<1> HIDE DEF e
<1>11. { s[i].tx : i \in 1 .. n + 1 } = q.ids \cup {t}
  <2>1. ASSUME NEW i \in 1 .. n + 1 PROVE s[i].tx \in q.ids \cup {t}
    <3>1. CASE i = k + 1
      BY <3>1, <1>7, <1>10
    <3>2. CASE i # k + 1
      BY <3>2, <1>9, <1>0, <1>2
    <3> QED BY <3>1, <3>2
  <2>2. \E i \in 1 .. n + 1 : s[i].tx = t
    BY <1>4, <1>2, <1>7, <1>10
  <2>3. ASSUME NEW u \in q.ids PROVE \E i \in 1 .. n + 1 : s[i].tx = u
    <3>1. PICK j \in 1 .. n : E[j].tx = u
      BY <1>0, <1>2
    <3>2. CASE j <= k
      BY <3>1, <3>2, <1>4, <1>7, <1>2, SMTT(30)
    <3>3. CASE j > k
      <4>1. j + 1 \in k + 2 .. n + 1 /\ j + 1 \in 1 .. n + 1 /\ (j + 1) - 1 = j
        BY <3>3, <1>2, <1>4
      <4> QED BY <3>1, <4>1, <1>7
    <3> QED BY <3>2, <3>3, <1>2, <1>4
  <2> HIDE DEF n
  <2> QED BY <2>1, <2>2, <2>3
<1>12. \A i, j \in 1 .. n + 1 : s[i].tx = s[j].tx => i = j
  <2> SUFFICES ASSUME NEW i \in 1 .. n + 1, NEW j \in 1 .. n + 1, s[i].tx = s[j].tx PROVE i = j
    OBVIOUS
  <2>0. \A a, b \in 1 .. n : E[a].tx = E[b].tx => a = b
    BY DEF QueueOK
  <2>1. \A a \in 1 .. n : E[a].tx # t
    BY <1>0, <1>2, <1>8
  <2>2. CASE i = k + 1 /\ j # k + 1
    BY <2>2, <2>1, <1>7, <1>9, <1>10
  <2>3. CASE i # k + 1 /\ j = k + 1
    BY <2>3, <2>1, <1>7, <1>9, <1>10
  <2>4. CASE i # k + 1 /\ j # k + 1
    <3>1. from(i) = from(j)
      <4>1. from(i) \in 1 .. n /\ from(j) \in 1 .. n /\ s[i] = E[from(i)] /\ s[j] = E[from(j)]
        BY <2>4, <1>9
      <4> HIDE DEF from
      <4> QED BY <2>0, <4>1
    <3> QED BY <3>1, <2>4, <1>2, <1>4
  <2> QED BY <2>2, <2>3, <2>4
<1>13. \A i, j \in 1 .. n + 1 : i < j => Fee[s[i].tx] >= Fee[s[j].tx] /\ s[i].idx # s[j].idx
  <2> SUFFICES ASSUME NEW i \in 1 .. n + 1, NEW j \in 1 .. n + 1, i < j
               PROVE  Fee[s[i].tx] >= Fee[s[j].tx] /\ s[i].idx # s[j].idx
    OBVIOUS
  <2>0. \A a, b \in 1 .. n : a < b => Fee[E[a].tx] >= Fee[E[b].tx] /\ E[a].idx # E[b].idx
    BY DEF QueueOK
  <2>1. \A a \in 1 .. n : E[a].idx < q.next /\ E[a].idx \in Nat /\ Fee[E[a].tx] \in Nat
    BY <1>2, <1>3 DEF QueueOK
  <2>2. CASE i = k + 1
    <3>1. j # k + 1 /\ from(j) \in 1 .. n /\ s[j] = E[from(j)] /\ from(j) > k
      BY <2>2, <1>2, <1>4, <1>9
    <3> HIDE DEF from, n
    <3>2. ~(Fee[E[from(j)].tx] >= Fee[t])
      BY <3>1, <1>5, <1>4
    <3>3. s[i].tx = t /\ s[i].idx = q.next
      BY <2>2, <1>7, <1>10
    <3> QED BY <3>1, <3>2, <3>3, <2>1, <1>2, <1>3
  <2>3. CASE j = k + 1
    <3>1. i # k + 1 /\ from(i) \in 1 .. n /\ s[i] = E[from(i)] /\ from(i) <= k
      BY <2>3, <1>2, <1>4, <1>9
    <3> HIDE DEF from, n
    <3>2. Fee[E[from(i)].tx] >= Fee[t]
      BY <3>1, <1>5
    <3>3. s[j].tx = t /\ s[j].idx = q.next
      BY <2>3, <1>7, <1>10
    <3> QED BY <3>1, <3>2, <3>3, <2>1, <1>2
  <2>4. CASE i # k + 1 /\ j # k + 1
    <3>1. from(i) \in 1 .. n /\ s[i] = E[from(i)] /\ from(j) \in 1 .. n /\ s[j] = E[from(j)]
      BY <2>4, <1>9
    <3>2. from(i) < from(j)
      BY <2>4, <1>2, <1>4
    <3> HIDE DEF from, n
    <3> QED BY <3>1, <3>2, <2>0
  <2> QED BY <2>2, <2>3, <2>4
<1>14. \A i \in 1 .. n + 1 : s[i].idx < q.next + 1
  <2> SUFFICES ASSUME NEW i \in 1 .. n + 1 PROVE s[i].idx < q.next + 1
    OBVIOUS
  <2>1. \A a \in 1 .. n : E[a].idx < q.next /\ E[a].idx \in Nat
    BY <1>2 DEF QueueOK
  <2>2. CASE i = k + 1
    BY <2>2, <1>7, <1>10, <1>2
  <2>3. CASE i # k + 1
    <3>1. from(i) \in 1 .. n /\ s[i] = E[from(i)]
      BY <2>3, <1>9
    <3> HIDE DEF from, n
    <3> QED BY <3>1, <2>1, <1>2
  <2> QED BY <2>2, <2>3
<1>15. /\ DOMAIN c = InputsOf(q.ids \cup {t})
       /\ c \in [DOMAIN c -> Txs]
       /\ \A x \in DOMAIN c : x \in Inputs[c[x]]
  <2>1. DOMAIN q.claimed = InputsOf(q.ids) /\ \A x \in DOMAIN q.claimed : x \in Inputs[q.claimed[x]]
    BY DEF QueueOK
  <2>2. q.claimed \in [DOMAIN q.claimed -> Txs]
    BY <1>0 DEF Queues
  <2>3. InputsOf(q.ids \cup {t}) = InputsOf(q.ids) \cup Inputs[t]
    BY DEF InputsOf
  <2> QED BY <2>1, <2>2, <2>3
<1>16. \A u, v \in q.ids \cup {t} : u # v => Inputs[u] \cap Inputs[v] = {}
  <2>1. DOMAIN q.claimed = InputsOf(q.ids) /\ \A u, v \in q.ids : u # v => Inputs[u] \cap Inputs[v] = {}
    BY DEF QueueOK
  <2>2. \A u \in q.ids : Inputs[u] \cap Inputs[t] = {}
    BY <2>1, <1>8 DEF InputsOf
  <2> QED BY <2>1, <2>2
<1>17. q.bytes + Size[t] = SizeOf(q.ids \cup {t})
  <2>1. IsFiniteSet(q.ids) /\ q.bytes = SizeOf(q.ids)
    BY <1>0, ResidentFinite DEF QueueOK
  <2> QED BY <2>1, <1>2, <1>8, SizeFacts
<1>18. MaxBytes > 0 => q.bytes + Size[t] <= MaxBytes
  BY <1>3 DEF CanInsert, Fits
<1>19. /\ p.entries = s /\ p.claimed = c /\ p.ids = q.ids \cup {t}
       /\ p.bytes = q.bytes + Size[t] /\ p.next = q.next + 1
  <2> HIDE DEF c, p
  <2> QED BY <1>1
<1>20. p \in Queues
  <2>1. InputsOf(q.ids \cup {t}) \in SUBSET InputsOf(Txs)
    BY <1>2 DEF InputsOf
  <2> DEFINE V == UNION { [D -> Txs] : D \in SUBSET InputsOf(Txs) }
  <2>2. c \in V
    <3> HIDE DEF c
    <3> QED BY <2>1, <1>15
  <2>3. Queues = [entries : Seq(Entries(Txs)), claimed : V, ids : SUBSET Txs, bytes : Nat, next : Nat]
    BY DEF Queues
  <2>4. q.ids \cup {t} \in SUBSET Txs /\ q.bytes + Size[t] \in Nat /\ q.next + 1 \in Nat
    BY <1>2, <1>3
  <2> HIDE DEF c, p, V
  <2> QED BY <1>1, <1>7, <2>2, <2>3, <2>4
<1>21. Resident(p) = q.ids \cup {t}
  <2>1. DOMAIN s = 1 .. n + 1
    BY <1>7
  <2> HIDE DEF p, n
  <2> QED BY <1>11, <1>19, <2>1 DEF Resident
<1> HIDE DEF p, c
<1>22. QueueOK(p)
  <2>1. p.ids = Resident(p) /\ DOMAIN p.claimed = InputsOf(p.ids)
        /\ \A x \in DOMAIN p.claimed : x \in Inputs[p.claimed[x]]
    BY <1>15, <1>19, <1>21
  <2>2. \A u, v \in p.ids : u # v => Inputs[u] \cap Inputs[v] = {}
    BY <1>16, <1>19
  <2>3. p.bytes = SizeOf(p.ids) /\ (MaxBytes > 0 => p.bytes <= MaxBytes)
    BY <1>17, <1>18, <1>19
  <2>4. \A i, j \in 1 .. Len(p.entries) : p.entries[i].tx = p.entries[j].tx => i = j
    BY <1>7, <1>12, <1>19
  <2>5. \A i, j \in 1 .. Len(p.entries) : i < j =>
            /\ Fee[p.entries[i].tx] >= Fee[p.entries[j].tx]
            /\ p.entries[i].idx # p.entries[j].idx
    BY <1>7, <1>13, <1>19
  <2>6. \A i \in 1 .. Len(p.entries) : p.entries[i].idx < p.next
    BY <1>7, <1>14, <1>19
  <2> QED BY <2>1, <2>2, <2>3, <2>4, <2>5, <2>6, <1>20 DEF QueueOK
<1> QED BY <1>19, <1>22 DEF p

(* insert_with_eviction, when its checks pass: the tail it removes is part *)
(* of the queue, pays less than the newcomer, and makes room for it.       *)
LEMMA EvictionKeepsQueue ==
    ASSUME NEW q, QueueOK(q), NEW t \in Txs, CanInsertWithEviction(q, t)
    PROVE  /\ QueueOK(InsertWithEviction(q, t))
           /\ InsertWithEviction(q, t).ids = (q.ids \ Evicted(q, t)) \cup {t}
           /\ Evicted(q, t) \subseteq q.ids
           /\ Evicted(q, t) = {} \/ Fee[t] > FeeOf(Evicted(q, t))
           /\ t \notin q.ids
<1> DEFINE S == Evicted(q, t)
           r == Remove(q, S)
           n == Len(q.entries)
<1>0. q \in Queues /\ q.ids = Resident(q)
  BY DEF QueueOK
<1>1. /\ q.ids \in SUBSET Txs /\ q.bytes \in Nat /\ n \in Nat /\ DOMAIN q.entries = 1 .. n
      /\ Resident(q) = { q.entries[i].tx : i \in 1 .. n }
  BY <1>0, QueueFields
<1>2. Size[t] \in Nat /\ MaxBytes \in Nat
  BY TxAssumption
<1>3. IsFiniteSet(q.ids)
  BY <1>0, ResidentFinite
<1>4. S \subseteq q.ids /\ (Fits(q, t) => S = {})
         /\ (~Fits(q, t) => SizeOf(S) >= Needed(q, t))
  <2>1. CASE Fits(q, t)
    BY <2>1 DEF Evicted
  <2>2. CASE ~Fits(q, t)
    <3> DEFINE m == Min(Enough(q, t))
               C == { i \in DOMAIN q.entries : Fee[q.entries[i].tx] < Fee[t] }
    <3>1. Cardinality(C) \in Nat /\ Cardinality(C) <= n
      <4>1. IsFiniteSet(1 .. n) /\ Cardinality(1 .. n) = n
        BY <1>1, FS_Interval
      <4>2. C \in SUBSET (1 .. n)
        BY <1>1
      <4> QED BY <4>1, <4>2, FS_Subset, FS_CardinalityType
    <3>2. Enough(q, t) # {}
      BY <2>2 DEF CanInsertWithEviction
    <3>3. Enough(q, t) \in SUBSET Nat /\ Cheaper(q, t) = Cardinality(C)
      BY <3>1 DEF Enough, Cheaper
    <3>4. m \in Enough(q, t)
      <4>1. \E x \in Enough(q, t) : \A y \in Enough(q, t) : x <= y
        BY <3>2, <3>3, LeastExists
      <4> QED BY <4>1 DEF Min
    <3> HIDE DEF m, C
    <3>5. m \in 0 .. n /\ SizeOf(LowestFee(q, m)) >= Needed(q, t)
      BY <3>1, <3>3, <3>4, <1>1 DEF Enough
    <3>6. LowestFee(q, m) \subseteq q.ids
      BY <3>5, <1>0, <1>1 DEF LowestFee
    <3>7. S = LowestFee(q, m)
      BY <2>2 DEF Evicted, m
    <3> QED BY <2>2, <3>5, <3>6, <3>7
  <2> QED BY <2>1, <2>2
<1> HIDE DEF S
<1>5. /\ QueueOK(r) /\ r.ids = q.ids \ S /\ DOMAIN r.claimed \subseteq DOMAIN q.claimed
      /\ r.bytes = q.bytes - SizeOf(S)
  <2>1. /\ QueueOK(r) /\ r.ids = q.ids \ S /\ DOMAIN r.claimed \subseteq DOMAIN q.claimed
        /\ r.bytes = q.bytes - SizeOf(S \cap q.ids)
    BY RemoveKeepsQueue
  <2>2. S \cap q.ids = S
    BY <1>4
  <2> QED BY <2>1, <2>2
<1>6. t \notin q.ids /\ Inputs[t] \cap DOMAIN q.claimed = {}
  BY DEF CanInsertWithEviction, Duplicate, ConflictingInputs
<1>7. Fits(r, t)
  <2>1. SizeOf(S) \in Nat
    BY <1>1, <1>3, <1>4, SizeFacts
  <2>2. CASE Fits(q, t)
    <3>1. SizeOf(S) = 0
      BY <2>2, <1>4, SumEmpty DEF SizeOf
    <3> QED BY <2>2, <3>1, <1>1, <1>2, <1>5 DEF Fits
  <2>3. CASE ~Fits(q, t)
    <3>1. SizeOf(S) >= q.bytes + Size[t] - MaxBytes
      BY <2>3, <1>4 DEF Needed
    <3> QED BY <3>1, <2>1, <1>1, <1>2, <1>5 DEF Fits
  <2> QED BY <2>2, <2>3
<1>8. CanInsert(r, t)
  <2> HIDE DEF r
  <2> QED BY <1>5, <1>6, <1>7 DEF CanInsert, Duplicate, ConflictingInputs
<1>9. QueueOK(Insert(r, t)) /\ Insert(r, t).ids = r.ids \cup {t}
  <2> HIDE DEF r
  <2> QED BY <1>5, <1>8, InsertKeepsQueue
<1>10. InsertWithEviction(q, t) = Insert(r, t)
  BY DEF InsertWithEviction, S
<1>11. S = {} \/ Fee[t] > FeeOf(S)
  BY <1>4 DEF CanInsertWithEviction, S
<1> HIDE DEF r
<1>12. /\ QueueOK(InsertWithEviction(q, t))
       /\ InsertWithEviction(q, t).ids = (q.ids \ S) \cup {t}
  BY <1>5, <1>9, <1>10
<1> QED BY <1>4, <1>6, <1>11, <1>12 DEF S

(* The fees a displacing submission leaves. *)
LEMMA EvictionRaisesFees ==
    ASSUME NEW q, QueueOK(q), NEW t \in Txs, CanInsertWithEviction(q, t),
           ~(q.ids \subseteq InsertWithEviction(q, t).ids)
    PROVE  FeeOf(InsertWithEviction(q, t).ids) > FeeOf(q.ids)
<1> DEFINE S == Evicted(q, t)
           R == q.ids \ S
<1>0. q.ids \in SUBSET Txs /\ IsFiniteSet(q.ids) /\ Fee[t] \in Nat
  BY QueueFields, ResidentFinite, TxAssumption DEF QueueOK
<1>1. /\ InsertWithEviction(q, t).ids = R \cup {t} /\ S \subseteq q.ids /\ t \notin q.ids
      /\ S = {} \/ Fee[t] > FeeOf(S)
  BY EvictionKeepsQueue
<1> HIDE DEF S
<1>2. S # {}
  BY <1>1
<1>3. FeeOf(q.ids) = FeeOf(S) + FeeOf(R) /\ FeeOf(S) \in Nat
  BY <1>0, <1>1, SizeFacts
<1>4. R \in SUBSET q.ids /\ IsFiniteSet(R) /\ t \notin R
  BY <1>0, <1>1, FS_Subset
<1> HIDE DEF R
<1>5. FeeOf(R \cup {t}) = FeeOf(R) + Fee[t] /\ FeeOf(R) \in Nat
  BY <1>0, <1>4, SizeFacts
<1> QED BY <1>0, <1>1, <1>2, <1>3, <1>5

-----------------------------------------------------------------------------
(* The transactions of the blocks a batch drops. *)

LEMMA RangeOfConcat ==
    ASSUME NEW X, NEW A \in Seq(X), NEW B \in Seq(X)
    PROVE  A \o B \in Seq(X) /\ Range(A \o B) = Range(A) \cup Range(B)
<1> DEFINE s == A \o B
<1>1. IsConcat(s, A, B, X)
  BY Concatenated
<1>2. DOMAIN A = 1 .. Len(A) /\ DOMAIN B = 1 .. Len(B) /\ Len(A) \in Nat /\ Len(B) \in Nat
  OBVIOUS
<1> HIDE DEF s
<1>3. DOMAIN s = 1 .. Len(A) + Len(B) /\ s \in Seq(X)
  BY <1>1 DEF IsConcat
<1>4. \A i \in 1 .. Len(A) : s[i] = A[i]
  BY <1>1 DEF IsConcat
<1>5. \A i \in 1 .. Len(B) : s[Len(A) + i] = B[i]
  BY <1>1 DEF IsConcat
<1>6. ASSUME NEW x \in Range(s) PROVE x \in Range(A) \cup Range(B)
  <2>1. PICK i \in 1 .. Len(A) + Len(B) : x = s[i]
    BY <1>3 DEF Range
  <2>2. CASE i <= Len(A)
    BY <2>1, <2>2, <1>2, <1>4 DEF Range
  <2>3. CASE i > Len(A)
    <3>1. i - Len(A) \in 1 .. Len(B) /\ Len(A) + (i - Len(A)) = i
      BY <2>3, <1>2
    <3>2. s[i] = B[i - Len(A)]
      BY <3>1, <1>5
    <3> QED BY <2>1, <3>1, <3>2, <1>2 DEF Range
  <2> QED BY <2>2, <2>3, <1>2
<1>7. Range(A) \subseteq Range(s)
  BY <1>2, <1>3, <1>4 DEF Range
<1>8. ASSUME NEW x \in Range(B) PROVE x \in Range(s)
  <2>1. PICK i \in 1 .. Len(B) : x = B[i]
    BY <1>2 DEF Range
  <2>2. Len(A) + i \in DOMAIN s /\ x = s[Len(A) + i]
    BY <2>1, <1>2, <1>3, <1>5
  <2> QED BY <2>2 DEF Range
<1>9. s \in Seq(X) /\ Range(s) = Range(A) \cup Range(B)
  BY <1>3, <1>6, <1>7, <1>8
<1> QED BY <1>9 DEF s

(* The transactions of a block. *)
LEMMA BlockTxs ==
    ASSUME NEW b \in BlockType
    PROVE  /\ TxsOf(b) \in SUBSET Txs /\ b.txs \in Seq(Txs) /\ b.slot \in 0 .. MaxSlot
           /\ TxsOf(b) = Range(b.txs) /\ DOMAIN b.txs = 1 .. Len(b.txs)
<1>1. b.txs \in Seq(Txs) /\ b.slot \in 0 .. MaxSlot
  BY DEF BlockType
<1> QED BY <1>1 DEF TxsOf, Range

Dropped(c, keep) == UNION { TxsOf(c[i]) : i \in keep + 1 .. Len(c) }

(* The transactions collected from the blocks that a rollback drops. *)
LEMMA RolledBack ==
    ASSUME chain \in Seq(BlockType), NEW keep \in 0 .. Len(chain)
    PROVE  RolledBackTxs(keep) \in Seq(Txs) /\ Range(RolledBackTxs(keep)) = Dropped(chain, keep)
<1> DEFINE N == Len(chain) - keep
           gone[n \in 0 .. Len(chain) - keep] ==
               IF n = 0 THEN <<>> ELSE gone[n - 1] \o chain[keep + n].txs
           F == [n \in 1 .. N |-> [r \in Seq(Txs) |-> r \o chain[keep + n].txs]]
           T(n) == UNION { TxsOf(chain[i]) : i \in keep + 1 .. keep + n }
<1>1. RolledBackTxs(keep) = gone[N]
  BY Zenon DEF RolledBackTxs
<1>2. N \in Nat /\ keep \in Nat /\ Len(chain) \in Nat
  OBVIOUS
<1>3. \A n \in 1 .. N : /\ chain[keep + n] \in BlockType
                        /\ chain[keep + n].txs \in Seq(Txs)
                        /\ TxsOf(chain[keep + n]) = Range(chain[keep + n].txs)
  <2> TAKE n \in 1 .. N
  <2>1. chain[keep + n] \in BlockType
    BY <1>2
  <2> QED BY <2>1, BlockTxs
<1>4. F \in [1 .. N -> [Seq(Txs) -> Seq(Txs)]] /\ <<>> \in Seq(Txs)
  <2>1. \A n \in 1 .. N : \A r \in Seq(Txs) : r \o chain[keep + n].txs \in Seq(Txs)
    BY <1>3, RangeOfConcat
  <2> QED BY <2>1
<1>5. PICK g \in [0 .. N -> Seq(Txs)] : Solves(g, N, <<>>, F)
  <2> HIDE DEF F, N
  <2> QED BY <1>2, <1>4, RecursionExists DEF Solvable
<1>6. \A n \in 0 .. Len(chain) - keep : g[n] = IF n = 0 THEN <<>> ELSE g[n - 1] \o chain[keep + n].txs
  <2> SUFFICES ASSUME NEW n \in 0 .. Len(chain) - keep
               PROVE  g[n] = IF n = 0 THEN <<>> ELSE g[n - 1] \o chain[keep + n].txs
    OBVIOUS
  <2>1. CASE n = 0
    BY <2>1, <1>5 DEF Solves
  <2>2. CASE n # 0
    <3>1. n \in 1 .. N /\ n - 1 \in 0 .. N
      BY <2>2, <1>2
    <3>2. g[n] = F[n][g[n - 1]]
      <4> HIDE DEF F, N
      <4> QED BY <3>1, <1>5 DEF Solves
    <3>3. g[n - 1] \in Seq(Txs)
      <4> HIDE DEF N
      <4> QED BY <3>1, <1>5
    <3>4. F[n] = [r \in Seq(Txs) |-> r \o chain[keep + n].txs]
      BY <3>1
    <3>5. F[n][g[n - 1]] = g[n - 1] \o chain[keep + n].txs
      <4> HIDE DEF F
      <4> QED BY <3>3, <3>4
    <3> HIDE DEF F, N
    <3> QED BY <2>2, <3>2, <3>5
  <2> QED BY <2>1, <2>2
<1>7. g = [n \in 0 .. Len(chain) - keep |->
              IF n = 0 THEN <<>> ELSE g[n - 1] \o chain[keep + n].txs]
  <2>1. g = [n \in 0 .. Len(chain) - keep |-> g[n]]
    BY <1>5
  <2> QED BY <2>1, <1>6, Zenon
<1>8. gone = [n \in 0 .. Len(chain) - keep |->
              IF n = 0 THEN <<>> ELSE gone[n - 1] \o chain[keep + n].txs]
  BY <1>7, Zenon
<1> HIDE DEF gone, F
<1> DEFINE U == {n \in Nat : n <= N => gone[n] \in Seq(Txs) /\ Range(gone[n]) = T(n)}
<1>9. 0 \in U
  <2>1. gone[0] = <<>>
    BY <1>2, <1>8
  <2>2. Range(<<>>) = {} /\ T(0) = {}
    BY <1>2 DEF Range
  <2> QED BY <2>1, <2>2, <1>4
<1>10. ASSUME NEW n \in Nat, n \in U PROVE n + 1 \in U
  <2> SUFFICES ASSUME n + 1 <= N
               PROVE  gone[n + 1] \in Seq(Txs) /\ Range(gone[n + 1]) = T(n + 1)
    OBVIOUS
  <2>1. gone[n] \in Seq(Txs) /\ Range(gone[n]) = T(n)
    BY <1>10, <1>2
  <2>2. n + 1 \in 0 .. Len(chain) - keep /\ n + 1 # 0 /\ (n + 1) - 1 = n /\ n + 1 \in 1 .. N
    BY <1>2
  <2> DEFINE s == chain[keep + (n + 1)].txs
  <2>3. gone[n + 1] = gone[n] \o s
    BY <2>2, <1>8
  <2>4. s \in Seq(Txs) /\ Range(s) = TxsOf(chain[keep + (n + 1)])
    BY <2>2, <1>3
  <2>5. gone[n] \o s \in Seq(Txs) /\ Range(gone[n] \o s) = Range(gone[n]) \cup Range(s)
    <3> HIDE DEF s
    <3> QED BY <2>1, <2>4, RangeOfConcat
  <2>6. T(n + 1) = T(n) \cup TxsOf(chain[keep + (n + 1)])
    <3>1. keep + 1 .. keep + (n + 1) = (keep + 1 .. keep + n) \cup {keep + (n + 1)}
      BY <1>2
    <3> QED BY <3>1
  <2> HIDE DEF s
  <2> QED BY <2>1, <2>3, <2>4, <2>5, <2>6
<1>11. N \in U
  <2> HIDE DEF U
  <2> QED BY <1>2, <1>9, <1>10, NatInductionOnSet
<1>12. gone[N] \in Seq(Txs) /\ Range(gone[N]) = T(N)
  BY <1>2, <1>11
<1>13. T(N) = Dropped(chain, keep)
  <2>1. keep + N = Len(chain)
    BY <1>2
  <2> QED BY <2>1 DEF Dropped
<1> QED BY <1>1, <1>12, <1>13

-----------------------------------------------------------------------------
(* Types and bookkeeping.  Every step leaves the queue alone, removes, or  *)
(* inserts after the checks of insert or insert_with_eviction.             *)

QueueStep ==
    \/ mp' = mp
    \/ \E S : mp' = Remove(mp, S)
    \/ \E t \in Txs : CanInsert(mp, t) /\ mp' = Insert(mp, t)
    \/ \E t \in Txs : CanInsertWithEviction(mp, t) /\ mp' = InsertWithEviction(mp, t)

(* Every operation of the queue keeps its books. *)
LEMMA QueueStepKeepsQueue ==
    ASSUME QueueOK(mp), QueueStep
    PROVE  QueueOK(mp')
<1>1. CASE mp' = mp
  BY <1>1
<1>2. CASE \E S : mp' = Remove(mp, S)
  <2>1. PICK S : mp' = Remove(mp, S)
    BY <1>2
  <2>2. QueueOK(Remove(mp, S))
    BY RemoveKeepsQueue
  <2> QED BY <2>1, <2>2
<1>3. CASE \E t \in Txs : CanInsert(mp, t) /\ mp' = Insert(mp, t)
  BY <1>3, InsertKeepsQueue
<1>4. CASE \E t \in Txs : CanInsertWithEviction(mp, t) /\ mp' = InsertWithEviction(mp, t)
  BY <1>4, EvictionKeepsQueue
<1> QED BY <1>1, <1>2, <1>3, <1>4 DEF QueueStep

(* A sequence is its head and its tail. *)
LEMMA HeadTail ==
    ASSUME NEW X, NEW s \in Seq(X), s # <<>>
    PROVE  /\ Head(s) \in X /\ Tail(s) \in Seq(X)
           /\ Range(s) = {Head(s)} \cup Range(Tail(s))
<1>1. Head(s) \in X /\ Tail(s) \in Seq(X)
  OBVIOUS
<1>2. Len(s) \in Nat /\ Len(s) > 0 /\ Len(Tail(s)) = Len(s) - 1 /\ DOMAIN s = 1 .. Len(s)
      /\ DOMAIN Tail(s) = 1 .. Len(s) - 1 /\ Head(s) = s[1]
      /\ \A i \in 1 .. Len(s) - 1 : Tail(s)[i] = s[i + 1]
  OBVIOUS
<1>3. ASSUME NEW x \in Range(s) PROVE x \in {Head(s)} \cup Range(Tail(s))
  <2>1. PICK i \in 1 .. Len(s) : x = s[i]
    BY <1>2 DEF Range
  <2>2. CASE i = 1
    BY <2>1, <2>2, <1>2
  <2>3. CASE i # 1
    <3>1. i - 1 \in 1 .. Len(s) - 1 /\ (i - 1) + 1 = i
      BY <2>3, <1>2
    <3>2. x = Tail(s)[i - 1]
      BY <2>1, <3>1, <1>2
    <3> QED BY <3>1, <3>2, <1>2 DEF Range
  <2> QED BY <2>2, <2>3
<1>4. ASSUME NEW x \in Range(Tail(s)) PROVE x \in Range(s)
  <2>1. PICK i \in 1 .. Len(s) - 1 : x = Tail(s)[i]
    BY <1>2 DEF Range
  <2>2. x = s[i + 1] /\ i + 1 \in DOMAIN s
    BY <2>1, <1>2
  <2> QED BY <2>2 DEF Range
<1>5. Head(s) \in Range(s)
  BY <1>2 DEF Range
<1> QED BY <1>1, <1>3, <1>4, <1>5

SubType == [todo : Seq(Txs), chain : Seq(BlockType), utxo : LedgerType]
SyncType == [pc : {"idle", "params", "readmit", "cache", "confirm",
                   "conflict", "expire", "revalidate"},
             rolled : Seq(Txs), block : BlockType, pooled : SUBSET Txs]

(* The types of the constants. *)
LEMMA ConstantTypes ==
    /\ NoBlock \in BlockType /\ Idle \in SyncType /\ NoWork \in SubType
    /\ \A n \in Nat : TxSeqs(n) \subseteq Seq(Txs)
    /\ Blocks \subseteq BlockType
<1>1. MaxSlot \in Nat /\ MaxBlockTxs \in Nat
  BY BoundAssumption
<1>2. <<>> \in Seq(Txs) /\ <<>> \in Seq(BlockType)
  OBVIOUS
<1>3. NoBlock \in BlockType
  BY <1>1, <1>2 DEF NoBlock, BlockType
<1>4. Idle \in SyncType
  BY <1>2, <1>3 DEF Idle, SyncType
<1>5. {} \in LedgerType
  BY DEF LedgerType
<1>6. NoWork \in SubType
  BY <1>2, <1>5 DEF NoWork, SubType
<1>7. ASSUME NEW n \in Nat, NEW s \in TxSeqs(n) PROVE s \in Seq(Txs)
  <2>1. PICK m \in 0 .. n : s \in [1 .. m -> Txs]
    BY DEF TxSeqs
  <2> QED BY <2>1
<1>8. Blocks \subseteq BlockType
  BY <1>1, <1>3, <1>7 DEF Blocks, BlockType
<1> QED BY <1>3, <1>4, <1>6, <1>7, <1>8

(* The types of the ledger. *)
LEMMA LedgerTypes ==
    /\ \A c \in Seq(BlockType) : OnChain(c) \subseteq Txs /\ Utxo(c) \in LedgerType
    /\ \A u \in LedgerType : \A t \in Txs : ApplyTx(u, t) \in LedgerType
<1>1. ASSUME NEW c \in Seq(BlockType) PROVE OnChain(c) \subseteq Txs /\ Utxo(c) \in LedgerType
  <2>1. DOMAIN c = 1 .. Len(c) /\ \A i \in 1 .. Len(c) : c[i] \in BlockType
    OBVIOUS
  <2>2. OnChain(c) \subseteq Txs
    BY <2>1, BlockTxs DEF OnChain
  <2> QED BY <2>2 DEF Utxo, LedgerType
<1>2. ASSUME NEW u \in LedgerType, NEW t \in Txs PROVE ApplyTx(u, t) \in LedgerType
  BY DEF LedgerType, ApplyTx
<1> QED BY <1>1, <1>2

TypeInv == TypeOK /\ QueueOK(mp)

(* What TypeInv says of each variable. *)
LEMMA TypeParts ==
    ASSUME TypeInv
    PROVE  /\ mp \in Queues /\ QueueOK(mp) /\ mp.ids = Resident(mp) /\ mp.ids \subseteq Txs
           /\ chain \in Seq(BlockType)
           /\ sub \in [Submitters -> SubType] /\ sync \in SyncType
           /\ cache \subseteq Txs /\ stale \subseteq Txs /\ owed \subseteq Txs
           /\ sync.rolled \in Seq(Txs) /\ sync.block \in BlockType /\ sync.pooled \subseteq Txs
           /\ TxsOf(sync.block) \subseteq Txs
<1>1. /\ chain \in Seq(BlockType)
      /\ sub \in [Submitters -> SubType] /\ sync \in SyncType
      /\ cache \subseteq Txs /\ stale \subseteq Txs /\ owed \subseteq Txs
  BY DEF TypeInv, TypeOK, SubType, SyncType
<1>2. QueueOK(mp) /\ mp \in Queues /\ mp.ids = Resident(mp)
  BY DEF TypeInv, QueueOK
<1>3. mp.ids \subseteq Txs
  BY <1>2, QueueFields
<1>4. sync.rolled \in Seq(Txs) /\ sync.block \in BlockType /\ sync.pooled \subseteq Txs
  BY <1>1 DEF SyncType
<1> QED BY <1>1, <1>2, <1>3, <1>4, BlockTxs

(* The variables other than the queue, in the form the steps need. *)
OthersOK ==
    /\ chain \in Seq(BlockType)
    /\ sub \in [Submitters -> SubType] /\ sync \in SyncType
    /\ cache \subseteq Txs /\ stale \subseteq Txs /\ owed \subseteq Txs

(* TypeInv holds at the start. *)
LEMMA TypeInit == Init => TypeInv
<1> SUFFICES ASSUME Init PROVE TypeInv
  OBVIOUS
<1> DEFINE q == EmptyQueue
<1>1. q.entries = <<>> /\ q.claimed = <<>> /\ q.ids = {} /\ q.bytes = 0 /\ q.next = 0
  BY DEF EmptyQueue
<1>2. q \in Queues
  <2>1. <<>> \in Seq(Entries(Txs))
    OBVIOUS
  <2>2. <<>> \in [{} -> Txs] /\ {} \in SUBSET InputsOf(Txs)
    OBVIOUS
  <2>3. <<>> \in UNION { [D -> Txs] : D \in SUBSET InputsOf(Txs) }
    BY <2>2
  <2> QED BY <2>1, <2>3 DEF EmptyQueue, Queues
<1>3. Resident(q) = {} /\ Len(q.entries) = 0 /\ InputsOf({}) = {} /\ DOMAIN q.claimed = {}
  BY <1>1 DEF Resident, InputsOf
<1>4. SizeOf({}) = 0 /\ MaxBytes \in Nat
  BY SumEmpty, TxAssumption DEF SizeOf
<1> HIDE DEF q
<1>5. QueueOK(q)
  BY <1>1, <1>2, <1>3, <1>4 DEF QueueOK
<1>6. OthersOK
  BY ConstantTypes DEF Init, OthersOK
<1>7. mp = q
  BY DEF Init, q
<1> QED BY <1>2, <1>5, <1>6, <1>7 DEF TypeInv, TypeOK, OthersOK, SubType, SyncType

(* Every step keeps TypeInv. *)
LEMMA TypeStep == TypeInv /\ [Next]_vars => TypeInv'
<1> SUFFICES ASSUME TypeInv, [Next]_vars PROVE TypeInv'
  OBVIOUS
<1>0. /\ mp \in Queues /\ QueueOK(mp) /\ mp.ids = Resident(mp) /\ mp.ids \subseteq Txs
      /\ chain \in Seq(BlockType)
      /\ sub \in [Submitters -> SubType] /\ sync \in SyncType
      /\ cache \subseteq Txs /\ stale \subseteq Txs /\ owed \subseteq Txs
      /\ sync.rolled \in Seq(Txs) /\ sync.block \in BlockType /\ sync.pooled \subseteq Txs
      /\ TxsOf(sync.block) \subseteq Txs
  BY TypeParts
<1>z. /\ NoBlock \in BlockType /\ Idle \in SyncType /\ NoWork \in SubType
      /\ \A n \in Nat : TxSeqs(n) \subseteq Seq(Txs)
      /\ Blocks \subseteq BlockType
  BY ConstantTypes
<1> SUFFICES QueueStep /\ OthersOK'
  <2>1. QueueOK(mp') /\ mp' \in Queues
    BY <1>0, QueueStepKeepsQueue DEF QueueOK
  <2> QED BY <2>1 DEF TypeInv, TypeOK, OthersOK, SubType, SyncType
<1>1. ASSUME NEW c \in Submitters, AddTx(c) PROVE QueueStep /\ OthersOK'
  <2> DEFINE t == Head(sub[c].todo)
             rest == Tail(sub[c].todo)
             slot == TipSlot(sub[c].chain)
             Cont(u) == sub' = [sub EXCEPT ![c] = IF rest = <<>> THEN NoWork
                                        ELSE [@ EXCEPT !.todo = rest, !.utxo = u]]
  <2>1. sub[c] \in SubType /\ sub[c].todo \in Seq(Txs) /\ sub[c].utxo \in LedgerType
    BY <1>0 DEF SubType
  <2>2. t \in Txs /\ rest \in Seq(Txs)
    BY <2>1, <1>1, HeadTail DEF AddTx
  <2>3. UNCHANGED <<chain, sync, cache, batches, owed>>
    BY <1>1 DEF AddTx
  <2>4. ASSUME NEW u \in LedgerType, Cont(u) PROVE sub' \in [Submitters -> SubType]
    <3>1. [sub[c] EXCEPT !.todo = rest, !.utxo = u] \in SubType
      <4> HIDE DEF rest
      <4> QED BY <2>1, <2>2 DEF SubType
    <3> HIDE DEF rest
    <3> QED BY <1>0, <1>z, <2>4, <3>1
  <2>5. CASE Cont(sub[c].utxo) /\ UNCHANGED <<mp, stale>>
    BY <2>1, <2>3, <2>4, <2>5, <1>0 DEF OthersOK, QueueStep
  <2>6. CASE /\ CanInsertWithEviction(mp, t)
             /\ mp' = InsertWithEviction(mp, t)
             /\ stale' = IF sub[c].chain = chain THEN stale \ {t} ELSE stale \cup {t}
             /\ Cont(ApplyTx(sub[c].utxo, t))
    <3>1. sub' \in [Submitters -> SubType]
      BY <2>1, <2>2, <2>4, <2>6, LedgerTypes
    <3>2. stale' \subseteq Txs
      BY <2>2, <2>6, <1>0
    <3> HIDE DEF t
    <3> QED BY <2>2, <2>3, <2>6, <3>1, <3>2, <1>0 DEF OthersOK, QueueStep
  <2>7. CASE sub' = [sub EXCEPT ![c] = NoWork] /\ UNCHANGED <<mp, stale>>
    BY <2>3, <2>7, <1>0, <1>z DEF OthersOK, QueueStep
  <2> QED BY <2>5, <2>6, <2>7, <1>1, Zenon DEF AddTx
<1>2. ASSUME NEW c \in Submitters, NEW b \in TxSeqs(2) \ {<<>>}, Recover(c, b)
      PROVE  QueueStep /\ OthersOK'
  <2>1. b \in Seq(Txs) /\ Utxo(chain) \in LedgerType
    BY <1>0, <1>z, LedgerTypes
  <2>2. [todo |-> b, chain |-> chain, utxo |-> Utxo(chain)] \in SubType
    BY <2>1, <1>0 DEF SubType
  <2>3. sub' \in [Submitters -> SubType]
    BY <1>0, <1>2, <2>2 DEF Recover
  <2> QED BY <1>0, <1>2, <2>3 DEF Recover, OthersOK, QueueStep
<1>3. ASSUME NEW keep \in 0 .. Len(chain), NEW block \in Blocks, ApplyBatch(keep, block)
      PROVE  QueueStep /\ OthersOK'
  <2> DEFINE base == SubSeq(chain, 1, keep)
             next == IF block = NoBlock THEN base ELSE Append(base, block)
             p == IF Epoch(TipSlot(next)) > Epoch(TipSlot(base)) THEN "params" ELSE "readmit"
  <2>1. block \in BlockType /\ base \in Seq(BlockType)
    BY <1>0, <1>z
  <2>2. next \in Seq(BlockType)
    <3> HIDE DEF base
    <3> QED BY <2>1
  <2>3. RolledBackTxs(keep) \in Seq(Txs)
    BY <1>0, RolledBack
  <2>4. chain' = next /\ UNCHANGED <<mp, sub, cache, stale>>
        /\ sync' = [pc |-> p, rolled |-> RolledBackTxs(keep), block |-> block, pooled |-> {}]
        /\ owed' = owed \ Range(RolledBackTxs(keep))
    BY <1>3 DEF ApplyBatch
  <2>5. p \in {"params", "readmit"}
    OBVIOUS
  <2> HIDE DEF p, next, base
  <2>6. sync' \in SyncType
    BY <2>1, <2>3, <2>4, <2>5 DEF SyncType
  <2> QED BY <1>0, <2>2, <2>4, <2>6 DEF OthersOK, QueueStep
<1>4. CASE PurgeParams
  <2>1. sync' \in SyncType
    BY <1>0, <1>4 DEF PurgeParams, SyncType
  <2>2. \E S : mp' = Remove(mp, S)
    BY <1>4 DEF PurgeParams, PurgeInvalidForParams
  <2> QED BY <1>0, <1>4, <2>1, <2>2 DEF PurgeParams, OthersOK, QueueStep
<1>5. CASE ReAdmit
  <2>0. UNCHANGED <<chain, sub, batches, owed>>
    BY <1>5 DEF ReAdmit
  <2>1. CASE sync' = EvictNext /\ UNCHANGED <<mp, cache, stale>>
    <3>1. sync' \in SyncType
      <4>1. [sync EXCEPT !.pc = "cache", !.rolled = <<>>] \in SyncType
        <5>1. <<>> \in Seq(Txs)
          OBVIOUS
        <5> QED BY <5>1, <1>0 DEF SyncType
      <4> QED BY <4>1, <2>1, <1>z DEF EvictNext
    <3> QED BY <1>0, <2>0, <2>1, <3>1 DEF OthersOK, QueueStep
  <2>2. CASE sync.rolled # <<>>
    <3> DEFINE t == Head(sync.rolled)
    <3>1. t \in Txs /\ Tail(sync.rolled) \in Seq(Txs)
      BY <1>0, <2>2, HeadTail
    <3>2. /\ cache' = cache \ {t} /\ sync' = [sync EXCEPT !.rolled = Tail(@)]
          /\ \/ mp' = mp /\ stale' = stale
             \/ CanInsert(mp, t) /\ mp' = Insert(mp, t) /\ stale' = stale \ {t}
      BY <1>5, <2>2 DEF ReAdmit
    <3>3. sync' \in SyncType
      BY <1>0, <3>1, <3>2 DEF SyncType
    <3>4. QueueStep /\ cache' \subseteq Txs /\ stale' \subseteq Txs
      <4> HIDE DEF t
      <4> QED BY <1>0, <3>1, <3>2 DEF QueueStep
    <3> QED BY <1>0, <2>0, <3>3, <3>4 DEF OthersOK
  <2> QED BY <1>5, <2>1, <2>2 DEF ReAdmit
<1>6. CASE CacheConfirmed
  <2>1. sync' \in SyncType
    BY <1>0, <1>6 DEF CacheConfirmed, SyncType
  <2> QED BY <1>0, <1>6, <2>1 DEF CacheConfirmed, OthersOK, QueueStep
<1>7. CASE Confirm
  <2>1. sync' \in SyncType
    BY <1>0, <1>7 DEF Confirm, SyncType
  <2>2. \E S : mp' = Remove(mp, S)
    BY <1>7 DEF Confirm, RemoveConfirmed
  <2> QED BY <1>0, <1>7, <2>1, <2>2 DEF Confirm, OthersOK, QueueStep
<1>8. CASE Conflict
  <2>1. sync' \in SyncType
    BY <1>0, <1>8 DEF Conflict, SyncType
  <2>2. \E S : mp' = Remove(mp, S)
    BY <1>8 DEF Conflict, RemoveConflictingInputs
  <2> QED BY <1>0, <1>8, <2>1, <2>2 DEF Conflict, OthersOK, QueueStep
<1>9. CASE Expire
  <2>1. sync' \in SyncType
    BY <1>0, <1>9 DEF Expire, SyncType
  <2>2. \E S : mp' = Remove(mp, S)
    BY <1>9 DEF Expire, PurgeExpired
  <2> QED BY <1>0, <1>9, <2>1, <2>2 DEF Expire, OthersOK, QueueStep
<1>10. CASE Revalidate
  <2>2. \E S : mp' = Remove(mp, S)
    BY <1>10 DEF Revalidate, RevalidateWithLedger
  <2> QED BY <1>0, <1>z, <1>10, <2>2 DEF Revalidate, OthersOK, QueueStep
<1>11. CASE GovernorPurge
  <2>2. \E S : mp' = Remove(mp, S)
    BY <1>11 DEF GovernorPurge, PurgeExpired
  <2> QED BY <1>0, <1>11, <2>2 DEF GovernorPurge, OthersOK, QueueStep
<1>12. CASE UNCHANGED vars
  BY <1>0, <1>12 DEF vars, OthersOK, QueueStep
<1> QED BY <1>1, <1>2, <1>3, <1>4, <1>5, <1>6, <1>7, <1>8, <1>9, <1>10, <1>11, <1>12 DEF Next

(* The bookkeeping of the queue is right, for any transactions, fees,     *)
(* sizes and capacity, any number of submitters, and any order of their   *)
(* steps with those of the sync service and the governor.                 *)
THEOREM BookkeepingAlways == Spec => []Bookkeeping
<1>1. TypeInv => Bookkeeping
  <2> SUFFICES ASSUME TypeInv PROVE Bookkeeping
    OBVIOUS
  <2>1. TypeOK /\ QueueOK(mp)
    BY DEF TypeInv
  <2>2. Cardinality(mp.ids) = Len(mp.entries)
    BY <2>1, ResidentCount
  <2>3. DOMAIN mp.entries = 1 .. Len(mp.entries)
    BY <2>1, QueueFields DEF QueueOK
  <2>4. \A i, j \in 1 .. Len(mp.entries) : i < j =>
            Fee[mp.entries[i].tx] >= Fee[mp.entries[j].tx] /\ mp.entries[i].idx # mp.entries[j].idx
    BY <2>1 DEF QueueOK
  <2> QED BY <2>1, <2>2, <2>3, <2>4 DEF Bookkeeping, QueueOK
<1> QED BY <1>1, TypeInit, TypeStep, PTL DEF Spec

(* A submission that displaces entries raises the fees of the mempool. *)
THEOREM EvictionAlwaysPays == Spec => EvictionPays
<1>1. TypeInv /\ [Next]_vars =>
        [\A c \in Submitters :
          AddTx(c) /\ ~(mp.ids \subseteq mp'.ids) => FeeOf(mp'.ids) > FeeOf(mp.ids)]_vars
  <2> SUFFICES ASSUME TypeInv, NEW c \in Submitters, AddTx(c), ~(mp.ids \subseteq mp'.ids)
               PROVE  FeeOf(mp'.ids) > FeeOf(mp.ids)
    OBVIOUS
  <2> DEFINE t == Head(sub[c].todo)
  <2>1. QueueOK(mp) /\ sub[c].todo \in Seq(Txs)
    BY TypeParts DEF SubType
  <2>2. t \in Txs
    BY <2>1, HeadTail DEF AddTx
  <2>3. mp' # mp
    OBVIOUS
  <2>4. CanInsertWithEviction(mp, t) /\ mp' = InsertWithEviction(mp, t)
    BY <2>3 DEF AddTx
  <2> HIDE DEF t
  <2> QED BY <2>1, <2>2, <2>4, EvictionRaisesFees
<1> QED BY <1>1, TypeInit, TypeStep, PTL DEF Spec, EvictionPays

-----------------------------------------------------------------------------
(* What a rollback can return.  A transaction that is owed is in the cache *)
(* and none of those still to be re-admitted; between snapshot and removal *)
(* what will be owed is already in the cache.                              *)
ReturnInv ==
    /\ owed \subseteq cache
    /\ owed \cap Range(sync.rolled) = {}
    /\ sync.pc \notin {"params", "readmit"} => sync.rolled = <<>>
    /\ sync.pc = "confirm" => TxsOf(sync.block) \cap sync.pooled \subseteq cache

(* Every step keeps ReturnInv. *)
LEMMA ReturnStep == TypeInv /\ ReturnInv /\ [Next]_vars => ReturnInv'
<1> SUFFICES ASSUME TypeInv, ReturnInv, [Next]_vars PROVE ReturnInv'
  OBVIOUS
<1>0. sync \in SyncType /\ sync.rolled \in Seq(Txs)
  BY TypeParts
<1>e. Range(<<>>) = {}
  BY DEF Range
<1> USE DEF ReturnInv
<1>1. ASSUME NEW c \in Submitters, AddTx(c) PROVE ReturnInv'
  BY <1>1 DEF AddTx
<1>2. ASSUME NEW c \in Submitters, NEW b \in TxSeqs(2) \ {<<>>}, Recover(c, b) PROVE ReturnInv'
  BY <1>2 DEF Recover
<1>3. ASSUME NEW keep \in 0 .. Len(chain), NEW block \in Blocks, ApplyBatch(keep, block)
      PROVE  ReturnInv'
  <2>1. /\ sync'.rolled = RolledBackTxs(keep) /\ sync'.pc \in {"params", "readmit"}
        /\ owed' = owed \ Range(RolledBackTxs(keep)) /\ cache' = cache
    BY <1>3 DEF ApplyBatch
  <2> QED BY <2>1
<1>4. CASE PurgeParams
  <2>1. sync'.pc = "readmit" /\ sync'.rolled = sync.rolled /\ owed' = owed /\ cache' = cache
    BY <1>0, <1>4 DEF PurgeParams, SyncType
  <2> QED BY <2>1
<1>5. CASE ReAdmit
  <2>1. CASE sync.rolled = <<>>
    <3>1. sync' = EvictNext /\ owed' = owed /\ cache' = cache
      BY <1>5, <2>1 DEF ReAdmit
    <3>2. sync'.pc \in {"idle", "cache"} /\ sync'.rolled = <<>>
      BY <1>0, <3>1 DEF EvictNext, Idle, SyncType
    <3> QED BY <3>1, <3>2, <1>e
  <2>2. CASE sync.rolled # <<>>
    <3> DEFINE t == Head(sync.rolled)
    <3>1. /\ cache' = cache \ {t} /\ sync' = [sync EXCEPT !.rolled = Tail(@)]
          /\ owed' = owed /\ sync.pc = "readmit"
      BY <1>5, <2>2 DEF ReAdmit
    <3>2. sync'.pc = "readmit" /\ sync'.rolled = Tail(sync.rolled)
      BY <1>0, <3>1 DEF SyncType
    <3>3. Range(sync.rolled) = {t} \cup Range(Tail(sync.rolled))
      BY <1>0, <2>2, HeadTail
    <3> HIDE DEF t
    <3> QED BY <3>1, <3>2, <3>3
  <2> QED BY <2>1, <2>2
<1>6. CASE CacheConfirmed
  <2>1. /\ cache' = cache \cup (TxsOf(sync.block) \cap Resident(mp)) /\ owed' = owed
        /\ sync'.pc = "confirm" /\ sync'.pooled = Resident(mp) /\ sync'.block = sync.block
        /\ sync'.rolled = sync.rolled /\ sync.pc = "cache"
    BY <1>0, <1>6 DEF CacheConfirmed, SyncType
  <2> QED BY <2>1
<1>7. CASE Confirm
  <2>1. /\ cache' = cache
        /\ owed' = owed \cup (TxsOf(sync.block) \cap Resident(mp) \cap sync.pooled)
        /\ sync'.pc = "conflict" /\ sync'.rolled = sync.rolled /\ sync.pc = "confirm"
    BY <1>0, <1>7 DEF Confirm, SyncType
  <2> QED BY <2>1, <1>e
<1>8. CASE Conflict
  <2>1. sync'.pc = "expire" /\ sync'.rolled = sync.rolled /\ owed' = owed /\ cache' = cache
        /\ sync.pc = "conflict"
    BY <1>0, <1>8 DEF Conflict, SyncType
  <2> QED BY <2>1
<1>9. CASE Expire
  <2>1. sync'.pc = "revalidate" /\ sync'.rolled = sync.rolled /\ owed' = owed /\ cache' = cache
        /\ sync.pc = "expire"
    BY <1>0, <1>9 DEF Expire, SyncType
  <2> QED BY <2>1
<1>10. CASE Revalidate
  <2>1. sync'.pc = "idle" /\ sync'.rolled = <<>> /\ owed' = owed /\ cache' = cache
    BY <1>10 DEF Revalidate, Idle
  <2> QED BY <2>1, <1>e
<1>11. CASE GovernorPurge
  BY <1>11 DEF GovernorPurge
<1>12. CASE UNCHANGED vars
  BY <1>12 DEF vars
<1> QED BY <1>1, <1>2, <1>3, <1>4, <1>5, <1>6, <1>7, <1>8, <1>9, <1>10, <1>11, <1>12 DEF Next

(* What sync removed as confirmed can be returned by a rollback. *)
THEOREM RollbackCanAlwaysReturn == Spec => []RollbackCanReturn
<1>1. Init => ReturnInv
  BY DEF Init, ReturnInv, Idle, Range
<1>2. ReturnInv => RollbackCanReturn
  BY DEF ReturnInv, RollbackCanReturn
<1> QED BY <1>1, <1>2, TypeInit, TypeStep, ReturnStep, PTL DEF Spec

-----------------------------------------------------------------------------
(* Spent inputs.  On a valid chain an input is made before it is spent, by *)
(* the genesis or by a transaction no later than the one that spends it,   *)
(* and no two blocks spend the same input.                                 *)
ChainOK(c) ==
    /\ \A i \in 1 .. Len(c) : \A t \in TxsOf(c[i]) : \A x \in Inputs[t] :
          x \in Genesis \/ \E j \in 1 .. i : \E u \in TxsOf(c[j]) : x \in Outputs[u]
    /\ \A i, j \in 1 .. Len(c) : \A t \in TxsOf(c[i]) : \A u \in TxsOf(c[j]) :
          i # j => Inputs[t] \cap Inputs[u] = {}

(* What is on a chain is in one of its blocks. *)
LEMMA ChainElements ==
    ASSUME NEW c \in Seq(BlockType)
    PROVE  /\ \A t : t \in OnChain(c) <=> \E i \in 1 .. Len(c) : t \in TxsOf(c[i])
           /\ \A x : x \in Spent(c) <=>
                 \E i \in 1 .. Len(c) : \E t \in TxsOf(c[i]) : x \in Inputs[t]
           /\ \A i \in 1 .. Len(c) : TxsOf(c[i]) \subseteq Txs
           /\ Len(c) \in Nat
<1>1. DOMAIN c = 1 .. Len(c) /\ Len(c) \in Nat /\ \A i \in 1 .. Len(c) : c[i] \in BlockType
  OBVIOUS
<1>2. \A t : t \in OnChain(c) <=> \E i \in 1 .. Len(c) : t \in TxsOf(c[i])
  BY <1>1 DEF OnChain
<1>3. \A x : x \in Spent(c) <=> \E t \in OnChain(c) : x \in Inputs[t]
  BY DEF Spent, InputsOf
<1>4. \A i \in 1 .. Len(c) : TxsOf(c[i]) \subseteq Txs
  BY <1>1, BlockTxs
<1> QED BY <1>1, <1>2, <1>3, <1>4

(* A prefix of a valid chain is valid. *)
LEMMA ChainPrefix ==
    ASSUME NEW c \in Seq(BlockType), ChainOK(c), NEW k \in 0 .. Len(c)
    PROVE  /\ SubSeq(c, 1, k) \in Seq(BlockType)
           /\ Len(SubSeq(c, 1, k)) = k
           /\ \A i \in 1 .. k : SubSeq(c, 1, k)[i] = c[i]
           /\ ChainOK(SubSeq(c, 1, k))
<1> DEFINE b == SubSeq(c, 1, k)
<1>1. b \in Seq(BlockType) /\ Len(b) = k /\ Len(c) \in Nat /\ \A i \in 1 .. k : b[i] = c[i]
  OBVIOUS
<1> HIDE DEF b
<1>2. ASSUME NEW i \in 1 .. k, NEW t \in TxsOf(b[i]), NEW x \in Inputs[t]
      PROVE  x \in Genesis \/ \E j \in 1 .. i : \E u \in TxsOf(b[j]) : x \in Outputs[u]
  <2>1. i \in 1 .. Len(c) /\ t \in TxsOf(c[i])
    BY <1>1
  <2>2. x \in Genesis \/ \E j \in 1 .. i : \E u \in TxsOf(c[j]) : x \in Outputs[u]
    BY <2>1 DEF ChainOK
  <2>3. \A j \in 1 .. i : b[j] = c[j]
    BY <1>1
  <2> QED BY <2>2, <2>3
<1>3. ASSUME NEW i \in 1 .. k, NEW j \in 1 .. k, NEW t \in TxsOf(b[i]), NEW u \in TxsOf(b[j]), i # j
      PROVE  Inputs[t] \cap Inputs[u] = {}
  <2>1. i \in 1 .. Len(c) /\ t \in TxsOf(c[i]) /\ j \in 1 .. Len(c) /\ u \in TxsOf(c[j])
    BY <1>1
  <2> QED BY <2>1, <1>3 DEF ChainOK
<1>4. ChainOK(b)
  BY <1>1, <1>2, <1>3 DEF ChainOK
<1> QED BY <1>1, <1>4 DEF b

(* What a block spends exists on the chain or earlier in the block. *)
LEMMA ValidInputs ==
    ASSUME NEW base, NEW block \in BlockType, ValidBlock(base, block),
           NEW i \in 1 .. Len(block.txs), NEW x \in Inputs[block.txs[i]]
    PROVE  x \in Utxo(base) \/ \E j \in 1 .. i - 1 : x \in Outputs[block.txs[j]]
<1> DEFINE before == { block.txs[j] : j \in 1 .. i - 1 }
<1>1. i \in DOMAIN block.txs
  BY BlockTxs
<1>2. Inputs[block.txs[i]] \subseteq
          (Utxo(base) \cup UNION { Outputs[u] : u \in before }) \ InputsOf(before)
  BY <1>1, Zenon DEF ValidBlock
<1>3. x \in Utxo(base) \/ \E u \in before : x \in Outputs[u]
  <2> HIDE DEF before
  <2> QED BY <1>2
<1> QED BY <1>3

(* A block's transactions are new to the chain it extends. *)
LEMMA BlockIsNew ==
    ASSUME NEW base \in Seq(BlockType), ChainOK(base), NEW block \in BlockType,
           ValidBlock(base, block)
    PROVE  \A i \in DOMAIN block.txs : block.txs[i] \notin OnChain(base)
<1> DEFINE s == block.txs
           U == {n \in Nat : \A i \in 1 .. Len(s) : i <= n => s[i] \notin OnChain(base)}
<1>0. /\ s \in Seq(Txs) /\ DOMAIN s = 1 .. Len(s) /\ Len(s) \in Nat
      /\ \A i \in 1 .. Len(s) : s[i] \in Txs
  BY BlockTxs
<1>1. \A i \in 1 .. Len(s) : \A x \in Inputs[s[i]] :
          x \in Utxo(base) \/ \E j \in 1 .. i - 1 : x \in Outputs[s[j]]
  BY ValidInputs
<1>2. 0 \in U
  OBVIOUS
<1>3. ASSUME NEW n \in Nat, n \in U PROVE n + 1 \in U
  <2> SUFFICES ASSUME n + 1 \in 1 .. Len(s), s[n + 1] \in OnChain(base) PROVE FALSE
    BY <1>3
  <2> DEFINE t == s[n + 1]
  <2>1. t \in Txs /\ Inputs[t] # {}
    BY <1>0, LedgerAssumption
  <2>2. PICK x \in Inputs[t] : TRUE
    BY <2>1
  <2>3. x \in Spent(base)
    BY <2>2 DEF Spent, InputsOf
  <2>4. x \notin Utxo(base)
    BY <2>3 DEF Utxo
  <2>5. PICK j \in 1 .. n : x \in Outputs[s[j]]
    BY <1>1, <2>2, <2>4
  <2>6. s[j] \notin OnChain(base) /\ s[j] \in Txs
    BY <1>0, <1>3, <2>5
  <2>7. PICK i \in 1 .. Len(base) : \E u \in TxsOf(base[i]) : x \in Inputs[u]
    BY <2>3, ChainElements
  <2>8. x \in Genesis \/ \E m \in 1 .. i : \E v \in TxsOf(base[m]) : x \in Outputs[v]
    BY <2>7 DEF ChainOK
  <2>9. x \notin Genesis
    BY <2>5, <2>6, LedgerAssumption
  <2>10. PICK m \in 1 .. i : \E v \in TxsOf(base[m]) : x \in Outputs[v]
    BY <2>8, <2>9
  <2>11. PICK v \in TxsOf(base[m]) : x \in Outputs[v]
    BY <2>10
  <2>12. m \in 1 .. Len(base) /\ v \in Txs /\ v \in OnChain(base)
    BY <2>7, <2>10, <2>11, ChainElements
  <2>13. v = s[j]
    BY <2>5, <2>6, <2>11, <2>12, LedgerAssumption
  <2> QED BY <2>6, <2>12, <2>13
<1>4. Nat \subseteq U
  <2> HIDE DEF U
  <2> QED BY <1>2, <1>3, NatInductionOnSet
<1>5. Len(s) \in U
  BY <1>0, <1>4
<1> QED BY <1>0, <1>5

(* A valid chain with a valid block is valid. *)
LEMMA ChainExtends ==
    ASSUME NEW base \in Seq(BlockType), ChainOK(base), NEW block \in BlockType,
           ValidBlock(base, block)
    PROVE  ChainOK(Append(base, block))
<1> DEFINE c == Append(base, block)
           n == Len(base)
           s == block.txs
<1>1. c \in Seq(BlockType) /\ n \in Nat /\ Len(c) = n + 1 /\ c[n + 1] = block
      /\ \A i \in 1 .. n : c[i] = base[i]
  OBVIOUS
<1> HIDE DEF c
<1>2. /\ s \in Seq(Txs) /\ DOMAIN s = 1 .. Len(s) /\ Len(s) \in Nat
      /\ \A i \in 1 .. Len(s) : s[i] \in Txs
      /\ TxsOf(block) = { s[i] : i \in 1 .. Len(s) }
  BY BlockTxs DEF TxsOf
<1>3. \A i \in 1 .. Len(s) : \A x \in Inputs[s[i]] :
          x \in Utxo(base) \/ \E j \in 1 .. i - 1 : x \in Outputs[s[j]]
  BY ValidInputs
<1>4. ASSUME NEW t \in TxsOf(block), NEW x \in Inputs[t]
      PROVE  /\ x \in Genesis \/ \E j \in 1 .. n + 1 : \E u \in TxsOf(c[j]) : x \in Outputs[u]
             /\ x \notin Spent(base)
  <2>1. PICK i \in 1 .. Len(s) : t = s[i]
    BY <1>2
  <2>2. CASE x \in Utxo(base)
    <3>1. x \notin Spent(base) /\ (x \in Genesis \/ \E u \in OnChain(base) : x \in Outputs[u])
      BY <2>2 DEF Utxo
    <3>2. ASSUME NEW u \in OnChain(base), x \in Outputs[u]
          PROVE  \E j \in 1 .. n + 1 : \E w \in TxsOf(c[j]) : x \in Outputs[w]
      <4>1. PICK j \in 1 .. n : u \in TxsOf(base[j])
        BY <3>2, ChainElements
      <4>2. j \in 1 .. n + 1 /\ u \in TxsOf(c[j])
        BY <4>1, <1>1
      <4> QED BY <4>2, <3>2
    <3> QED BY <3>1, <3>2
  <2>3. CASE x \notin Utxo(base)
    <3>1. PICK j \in 1 .. i - 1 : x \in Outputs[s[j]]
      BY <1>3, <2>1, <2>3
    <3>2. j \in 1 .. Len(s) /\ s[j] \in Txs /\ s[j] \in TxsOf(block) /\ s[j] \notin OnChain(base)
      BY <3>1, <1>2, BlockIsNew
    <3>3. n + 1 \in 1 .. n + 1 /\ s[j] \in TxsOf(c[n + 1])
      BY <3>2, <1>1
    <3>4. ASSUME x \in Spent(base) PROVE FALSE
      <4>1. PICK m \in 1 .. n : \E u \in TxsOf(base[m]) : x \in Inputs[u]
        BY <3>4, ChainElements
      <4>2. x \in Genesis \/ \E l \in 1 .. m : \E v \in TxsOf(base[l]) : x \in Outputs[v]
        BY <4>1 DEF ChainOK
      <4>3. x \notin Genesis
        BY <3>1, <3>2, LedgerAssumption
      <4>4. PICK l \in 1 .. m : \E v \in TxsOf(base[l]) : x \in Outputs[v]
        BY <4>2, <4>3
      <4>5. PICK v \in TxsOf(base[l]) : x \in Outputs[v]
        BY <4>4
      <4>6. l \in 1 .. n /\ v \in Txs /\ v \in OnChain(base)
        BY <4>1, <4>4, <4>5, ChainElements
      <4>7. v = s[j]
        BY <3>1, <3>2, <4>5, <4>6, LedgerAssumption
      <4> QED BY <3>2, <4>6, <4>7
    <3> HIDE DEF s
    <3> QED BY <3>1, <3>3, <3>4
  <2> QED BY <2>2, <2>3
<1>5. ASSUME NEW i \in 1 .. n + 1, NEW t \in TxsOf(c[i]), NEW x \in Inputs[t]
      PROVE  x \in Genesis \/ \E j \in 1 .. i : \E u \in TxsOf(c[j]) : x \in Outputs[u]
  <2>1. CASE i = n + 1
    BY <2>1, <1>1, <1>4
  <2>2. CASE i \in 1 .. n
    <3>1. x \in Genesis \/ \E j \in 1 .. i : \E u \in TxsOf(base[j]) : x \in Outputs[u]
      BY <2>2, <1>1 DEF ChainOK
    <3>2. \A j \in 1 .. i : c[j] = base[j]
      BY <2>2, <1>1
    <3> QED BY <3>1, <3>2
  <2> QED BY <2>1, <2>2, <1>1
<1>6. ASSUME NEW t \in TxsOf(block), NEW j \in 1 .. n, NEW u \in TxsOf(c[j])
      PROVE  Inputs[t] \cap Inputs[u] = {}
  <2>1. u \in TxsOf(base[j])
    BY <1>1
  <2>2. \A x \in Inputs[u] : x \in Spent(base)
    BY <2>1, ChainElements
  <2> QED BY <2>2, <1>4
<1>7. ASSUME NEW i \in 1 .. n + 1, NEW j \in 1 .. n + 1, NEW t \in TxsOf(c[i]),
             NEW u \in TxsOf(c[j]), i # j
      PROVE  Inputs[t] \cap Inputs[u] = {}
  <2>1. CASE i = n + 1
    <3>1. j \in 1 .. n /\ t \in TxsOf(block)
      BY <2>1, <1>1, <1>7
    <3> QED BY <3>1, <1>6
  <2>2. CASE j = n + 1
    <3>1. i \in 1 .. n /\ u \in TxsOf(block)
      BY <2>2, <1>1, <1>7
    <3> QED BY <3>1, <1>6
  <2>3. CASE i \in 1 .. n /\ j \in 1 .. n
    <3>1. t \in TxsOf(base[i]) /\ u \in TxsOf(base[j])
      BY <2>3, <1>1
    <3> QED BY <3>1, <2>3, <1>7 DEF ChainOK
  <2> QED BY <2>1, <2>2, <2>3, <1>1
<1>8. ChainOK(c)
  BY <1>1, <1>5, <1>7 DEF ChainOK
<1> QED BY <1>8 DEF c

(* A transaction that applies to a ledger without spent inputs leaves one. *)
LEMMA ApplyKeepsClear ==
    ASSUME NEW c \in Seq(BlockType), ChainOK(c), NEW utxo, utxo \cap Spent(c) = {},
           NEW t \in Txs, Inputs[t] \subseteq utxo
    PROVE  ApplyTx(utxo, t) \cap Spent(c) = {}
<1> SUFFICES ASSUME NEW x \in Outputs[t], x \in Spent(c) PROVE FALSE
  BY DEF ApplyTx
<1>1. PICK m \in 1 .. Len(c) : \E u \in TxsOf(c[m]) : x \in Inputs[u]
  BY ChainElements
<1>2. x \in Genesis \/ \E l \in 1 .. m : \E v \in TxsOf(c[l]) : x \in Outputs[v]
  BY <1>1 DEF ChainOK
<1>3. x \notin Genesis
  BY LedgerAssumption
<1>4. PICK l \in 1 .. m : \E v \in TxsOf(c[l]) : x \in Outputs[v]
  BY <1>2, <1>3
<1>5. PICK v \in TxsOf(c[l]) : x \in Outputs[v]
  BY <1>4
<1>6. l \in 1 .. Len(c) /\ v \in Txs
  BY <1>1, <1>4, <1>5, ChainElements
<1>7. v = t
  BY <1>5, <1>6, LedgerAssumption
<1>8. PICK y \in Inputs[t] : TRUE
  BY LedgerAssumption
<1>9. y \in Spent(c)
  BY <1>5, <1>6, <1>7, <1>8, ChainElements
<1> QED BY <1>8, <1>9

(* The scratch ledger of revalidate_with_ledger never holds a spent input. *)
LEMMA ScratchIsClear ==
    ASSUME NEW c \in Seq(BlockType), ChainOK(c), NEW utxo \in LedgerType, utxo \cap Spent(c) = {},
           NEW q \in Queues, NEW slot, NEW minFee
    PROVE  \A j \in 0 .. Len(q.entries) : Scratch(q, utxo, slot, minFee)[j] \cap Spent(c) = {}
<1> DEFINE N == Len(q.entries)
           after[n \in 0 .. Len(q.entries)] ==
               IF n = 0 THEN utxo
               ELSE LET t == q.entries[n].tx
                    IN  IF Applies(t, after[n - 1], slot, minFee)
                        THEN ApplyTx(after[n - 1], t) ELSE after[n - 1]
           Step(n, u) == IF Applies(q.entries[n].tx, u, slot, minFee)
                         THEN ApplyTx(u, q.entries[n].tx) ELSE u
           F == [n \in 1 .. N |-> [u \in LedgerType |-> Step(n, u)]]
<1>1. Scratch(q, utxo, slot, minFee) = after
  BY Zenon DEF Scratch
<1>2. N \in Nat /\ \A n \in 1 .. N : q.entries[n].tx \in Txs
  BY QueueFields
<1>3. \A n \in 1 .. N : \A u \in LedgerType : Step(n, u) \in LedgerType
  BY <1>2, LedgerTypes
<1>4. F \in [1 .. N -> [LedgerType -> LedgerType]]
  <2> HIDE DEF Step
  <2> QED BY <1>3
<1>5. PICK g \in [0 .. N -> LedgerType] : Solves(g, N, utxo, F)
  <2> HIDE DEF F, N
  <2> QED BY <1>2, <1>4, RecursionExists DEF Solvable
<1>6. \A n \in 1 .. N : g[n - 1] \in LedgerType /\ g[n] = Step(n, g[n - 1])
  <2> SUFFICES ASSUME NEW n \in 1 .. N PROVE g[n - 1] \in LedgerType /\ g[n] = Step(n, g[n - 1])
    OBVIOUS
  <2>1. g[n - 1] \in LedgerType
    BY <1>2, <1>5, SMTT(30)
  <2>2. g[n] = F[n][g[n - 1]]
    <3> HIDE DEF F, N
    <3> QED BY <1>5 DEF Solves
  <2>3. F[n] = [u \in LedgerType |-> Step(n, u)]
    <3> HIDE DEF Step
    <3> QED OBVIOUS
  <2> HIDE DEF F, Step
  <2> QED BY <2>1, <2>2, <2>3
<1>7. g = [n \in 0 .. Len(q.entries) |->
               IF n = 0 THEN utxo
               ELSE LET t == q.entries[n].tx
                    IN  IF Applies(t, g[n - 1], slot, minFee)
                        THEN ApplyTx(g[n - 1], t) ELSE g[n - 1]]
  <2>1. g = [n \in 0 .. Len(q.entries) |-> g[n]]
    BY <1>5
  <2>2. g[0] = utxo
    BY <1>5 DEF Solves
  <2>3. \A n \in 0 .. Len(q.entries) : g[n] = IF n = 0 THEN utxo ELSE Step(n, g[n - 1])
    <3> SUFFICES ASSUME NEW n \in 0 .. Len(q.entries)
                 PROVE  g[n] = IF n = 0 THEN utxo ELSE Step(n, g[n - 1])
      OBVIOUS
    <3>1. n = 0 \/ n \in 1 .. N
      BY <1>2
    <3> HIDE DEF Step, N
    <3> QED BY <2>2, <3>1, <1>6
  <2> QED BY <2>1, <2>3, Zenon
<1>8. after = [n \in 0 .. Len(q.entries) |->
               IF n = 0 THEN utxo
               ELSE LET t == q.entries[n].tx
                    IN  IF Applies(t, after[n - 1], slot, minFee)
                        THEN ApplyTx(after[n - 1], t) ELSE after[n - 1]]
  BY <1>7, Zenon
<1> HIDE DEF after, F
<1>9. after[0] = utxo /\ \A n \in 1 .. N : after[n] = Step(n, after[n - 1])
  <2>1. 0 \in 0 .. Len(q.entries)
    BY <1>2
  <2>2. \A n \in 1 .. N : n \in 0 .. Len(q.entries) /\ n # 0
    BY <1>2
  <2> QED BY <2>1, <2>2, <1>8, Zenon
<1> DEFINE U == {n \in Nat : n <= N => after[n] \cap Spent(c) = {}}
<1>10. 0 \in U
  BY <1>9
<1>11. ASSUME NEW n \in Nat, n \in U PROVE n + 1 \in U
  <2> SUFFICES ASSUME n + 1 <= N PROVE after[n + 1] \cap Spent(c) = {}
    OBVIOUS
  <2>1. after[n] \cap Spent(c) = {}
    BY <1>2, <1>11
  <2>2. n + 1 \in 1 .. N /\ (n + 1) - 1 = n
    BY <1>2
  <2>3. after[n + 1] = Step(n + 1, after[n])
    <3> HIDE DEF Step, N
    <3> QED BY <2>2, <1>9
  <2> DEFINE t == q.entries[n + 1].tx
  <2>4. t \in Txs
    BY <2>2, <1>2
  <2>5. CASE Applies(t, after[n], slot, minFee)
    <3>1. Inputs[t] \subseteq after[n]
      BY <2>5 DEF Applies
    <3>2. ApplyTx(after[n], t) \cap Spent(c) = {}
      <4> HIDE DEF t
      <4> QED BY <2>1, <2>4, <3>1, ApplyKeepsClear
    <3> QED BY <2>3, <2>5, <3>2
  <2>6. CASE ~Applies(t, after[n], slot, minFee)
    BY <2>1, <2>3, <2>6
  <2> QED BY <2>5, <2>6
<1>12. Nat \subseteq U
  <2> HIDE DEF U
  <2> QED BY <1>10, <1>11, NatInductionOnSet
<1>13. \A j \in 0 .. N : after[j] \cap Spent(c) = {}
  BY <1>2, <1>12
<1> QED BY <1>1, <1>13

(* The inputs of the new block count as spent only once Conflict has run. *)
Fresh == IF sync.pc \in {"params", "readmit", "cache", "confirm", "conflict"}
         THEN InputsOf(TxsOf(sync.block)) ELSE {}

Clean(t) == Inputs[t] \cap (Spent(chain) \ Fresh) = {}

LedgerInv ==
    /\ ChainOK(chain)
    /\ \A c \in Submitters : ChainOK(sub[c].chain) /\ sub[c].utxo \cap Spent(sub[c].chain) = {}
    /\ \A t \in mp.ids \ stale : Clean(t)
    /\ \A t \in Range(sync.rolled) : Clean(t)

(* LedgerInv holds at the start. *)
LEMMA LedgerInit == Init => LedgerInv
<1> SUFFICES ASSUME Init PROVE LedgerInv
  OBVIOUS
<1>1. ChainOK(<<>>)
  BY DEF ChainOK
<1>2. mp.ids = {} /\ Range(sync.rolled) = {} /\ chain = <<>>
  BY DEF Init, EmptyQueue, Idle, Range
<1>3. \A c \in Submitters : sub[c].chain = <<>> /\ sub[c].utxo = {}
  BY DEF Init, NoWork
<1> QED BY <1>1, <1>2, <1>3 DEF LedgerInv

(* The steps that leave the chain and the submitters alone. *)
LEMMA QueueSideStep ==
    ASSUME LedgerInv, UNCHANGED <<chain, sub>>, Fresh \subseteq Fresh',
           mp'.ids \ stale' \subseteq (mp.ids \ stale) \cup Range(sync.rolled),
           Range(sync'.rolled) \subseteq Range(sync.rolled)
    PROVE  LedgerInv'
<1>1. \A t : Clean(t) => Clean(t)'
  BY DEF Clean
<1> QED BY <1>1 DEF LedgerInv

(* Every step keeps LedgerInv. *)
LEMMA LedgerStep == TypeInv /\ ReturnInv /\ LedgerInv /\ [Next]_vars => LedgerInv'
<1> SUFFICES ASSUME TypeInv, ReturnInv, LedgerInv, [Next]_vars PROVE LedgerInv'
  OBVIOUS
<1>0. /\ mp \in Queues /\ QueueOK(mp) /\ mp.ids = Resident(mp) /\ mp.ids \subseteq Txs
      /\ chain \in Seq(BlockType)
      /\ sub \in [Submitters -> SubType] /\ sync \in SyncType
      /\ stale \subseteq Txs
      /\ sync.rolled \in Seq(Txs) /\ sync.block \in BlockType
      /\ TxsOf(sync.block) \subseteq Txs
  BY TypeParts
<1>e. Range(<<>>) = {} /\ ChainOK(<<>>)
  BY DEF Range, ChainOK
<1>r. ASSUME NEW S PROVE Remove(mp, S).ids = mp.ids \ S
  BY <1>0, RemoveKeepsQueue
<1>1. ASSUME NEW c \in Submitters, AddTx(c) PROVE LedgerInv'
  <2> DEFINE t == Head(sub[c].todo)
             rest == Tail(sub[c].todo)
             slot == TipSlot(sub[c].chain)
             Cont(u) == sub' = [sub EXCEPT ![c] = IF rest = <<>> THEN NoWork
                                        ELSE [@ EXCEPT !.todo = rest, !.utxo = u]]
             SubOK == \A d \in Submitters : /\ ChainOK(sub'[d].chain)
                                            /\ sub'[d].utxo \cap Spent(sub'[d].chain) = {}
  <2>1. sub[c] \in SubType /\ sub[c].todo \in Seq(Txs) /\ sub[c].chain \in Seq(BlockType)
    BY <1>0 DEF SubType
  <2>2. t \in Txs
    BY <2>1, <1>1, HeadTail DEF AddTx
  <2>3. UNCHANGED <<chain, sync, cache, batches, owed>>
    BY <1>1 DEF AddTx
  <2>4. /\ ChainOK(chain) /\ ChainOK(sub[c].chain) /\ sub[c].utxo \cap Spent(sub[c].chain) = {}
        /\ \A d \in Submitters : ChainOK(sub[d].chain) /\ sub[d].utxo \cap Spent(sub[d].chain) = {}
        /\ \A u \in mp.ids \ stale : Clean(u)
        /\ \A u \in Range(sync.rolled) : Clean(u)
    BY DEF LedgerInv
  <2>5. NoWork.chain = <<>> /\ NoWork.utxo = {}
    BY DEF NoWork
  <2>6. ASSUME NEW u, Cont(u), u \cap Spent(sub[c].chain) = {} PROVE SubOK
    <3> SUFFICES ASSUME NEW d \in Submitters
                 PROVE  ChainOK(sub'[d].chain) /\ sub'[d].utxo \cap Spent(sub'[d].chain) = {}
      OBVIOUS
    <3>1. CASE d # c
      <4>1. sub'[d] = sub[d]
        BY <2>6, <3>1, <1>0
      <4> QED BY <4>1, <2>4
    <3>2. CASE d = c /\ rest = <<>>
      <4>1. sub'[d] = NoWork
        BY <2>6, <3>2, <1>0
      <4> QED BY <4>1, <2>5, <1>e
    <3>3. CASE d = c /\ rest # <<>>
      <4>1. sub'[d] = [sub[c] EXCEPT !.todo = rest, !.utxo = u]
        BY <2>6, <3>3, <1>0
      <4>2. sub'[d].chain = sub[c].chain /\ sub'[d].utxo = u
        <5> HIDE DEF rest
        <5> QED BY <4>1, <2>1 DEF SubType
      <4> QED BY <4>2, <2>4, <2>6
    <3> QED BY <3>1, <3>2, <3>3
  <2>7. \A u : Clean(u) <=> Clean(u)'
    BY <2>3 DEF Clean, Fresh
  <2>8. CASE Cont(sub[c].utxo) /\ UNCHANGED <<mp, stale>>
    <3>1. SubOK
      BY <2>4, <2>6, <2>8
    <3> QED BY <2>3, <2>4, <2>7, <2>8, <3>1 DEF LedgerInv
  <2>9. CASE /\ Applies(t, sub[c].utxo, slot, MinFee[slot])
             /\ CanInsertWithEviction(mp, t)
             /\ mp' = InsertWithEviction(mp, t)
             /\ stale' = IF sub[c].chain = chain THEN stale \ {t} ELSE stale \cup {t}
             /\ Cont(ApplyTx(sub[c].utxo, t))
    <3>1. Inputs[t] \subseteq sub[c].utxo
      BY <2>9 DEF Applies
    <3>2. ApplyTx(sub[c].utxo, t) \cap Spent(sub[c].chain) = {}
      <4> HIDE DEF t
      <4> QED BY <2>1, <2>2, <2>4, <3>1, ApplyKeepsClear
    <3>3. SubOK
      BY <2>6, <2>9, <3>2
    <3>4. mp'.ids \subseteq mp.ids \cup {t}
      <4>1. InsertWithEviction(mp, t).ids = (mp.ids \ Evicted(mp, t)) \cup {t}
        <5> HIDE DEF t
        <5> QED BY <1>0, <2>2, <2>9, EvictionKeepsQueue
      <4> QED BY <4>1, <2>9
    <3>5. ASSUME NEW u \in mp'.ids \ stale' PROVE Clean(u)'
      <4>1. CASE u = t
        <5>1. sub[c].chain = chain
          BY <4>1, <2>9, <3>5
        <5>2. Inputs[t] \cap Spent(chain) = {}
          BY <5>1, <3>1, <2>4
        <5> QED BY <5>2, <4>1, <2>3 DEF Clean
      <4>2. CASE u # t
        <5>1. u \in mp.ids \ stale
          BY <4>2, <2>9, <3>4, <3>5
        <5> QED BY <5>1, <2>4, <2>7
      <4> QED BY <4>1, <4>2
    <3> QED BY <2>3, <2>4, <2>7, <3>3, <3>5 DEF LedgerInv
  <2>10. CASE sub' = [sub EXCEPT ![c] = NoWork] /\ UNCHANGED <<mp, stale>>
    <3>1. SubOK
      BY <2>4, <2>5, <2>10, <1>0, <1>e
    <3> QED BY <2>3, <2>4, <2>7, <2>10, <3>1 DEF LedgerInv
  <2> QED BY <2>8, <2>9, <2>10, <1>1, Zenon DEF AddTx
<1>2. ASSUME NEW c \in Submitters, NEW b \in TxSeqs(2) \ {<<>>}, Recover(c, b)
      PROVE  LedgerInv'
  <2>1. sub' = [sub EXCEPT ![c] = [todo |-> b, chain |-> chain, utxo |-> Utxo(chain)]]
        /\ UNCHANGED <<mp, chain, sync, stale>>
    BY <1>2 DEF Recover
  <2>2. Utxo(chain) \cap Spent(chain) = {} /\ ChainOK(chain)
    BY DEF Utxo, LedgerInv
  <2>3. \A d \in Submitters : ChainOK(sub'[d].chain) /\ sub'[d].utxo \cap Spent(sub'[d].chain) = {}
    <3> SUFFICES ASSUME NEW d \in Submitters
                 PROVE  ChainOK(sub'[d].chain) /\ sub'[d].utxo \cap Spent(sub'[d].chain) = {}
      OBVIOUS
    <3>1. CASE d = c
      <4>1. sub'[d].chain = chain /\ sub'[d].utxo = Utxo(chain)
        BY <2>1, <3>1, <1>0
      <4> QED BY <4>1, <2>2
    <3>2. CASE d # c
      <4>1. sub'[d] = sub[d]
        BY <2>1, <3>2, <1>0
      <4> QED BY <4>1 DEF LedgerInv
    <3> QED BY <3>1, <3>2
  <2>4. \A u : Clean(u) <=> Clean(u)'
    BY <2>1 DEF Clean, Fresh
  <2> QED BY <2>1, <2>3, <2>4 DEF LedgerInv
<1>3. ASSUME NEW keep \in 0 .. Len(chain), NEW block \in Blocks, ApplyBatch(keep, block)
      PROVE  LedgerInv'
  <2> DEFINE base == SubSeq(chain, 1, keep)
             next == IF block = NoBlock THEN base ELSE Append(base, block)
             new == InputsOf(TxsOf(block))
  <2>1. /\ chain' = next /\ UNCHANGED <<mp, sub, cache, stale>> /\ sync.pc = "idle"
        /\ sync'.pc \in {"params", "readmit"} /\ sync'.rolled = RolledBackTxs(keep)
        /\ sync'.block = block
        /\ block # NoBlock => ValidBlock(base, block)
    BY <1>3 DEF ApplyBatch
  <2>2. block \in BlockType
    BY ConstantTypes
  <2>3. ChainOK(chain)
    BY DEF LedgerInv
  <2>4. /\ base \in Seq(BlockType) /\ Len(base) = keep /\ ChainOK(base)
        /\ \A i \in 1 .. keep : base[i] = chain[i]
    BY <1>0, <2>3, ChainPrefix
  <2> HIDE DEF base
  <2>5. ChainOK(next)
    BY <2>1, <2>2, <2>4, ChainExtends
  <2>6. Len(chain) \in Nat /\ keep \in Nat /\ keep <= Len(chain)
    BY <1>0
  <2>7. Spent(base) \subseteq Spent(chain)
    <3> SUFFICES ASSUME NEW x \in Spent(base) PROVE x \in Spent(chain)
      OBVIOUS
    <3>1. PICK i \in 1 .. keep : \E t \in TxsOf(base[i]) : x \in Inputs[t]
      BY <2>4, ChainElements
    <3>2. i \in 1 .. Len(chain) /\ base[i] = chain[i]
      BY <2>4, <2>6
    <3> QED BY <3>1, <3>2, <1>0, ChainElements
  <2>8. Spent(next) \ new \subseteq Spent(base)
    <3>1. CASE block = NoBlock
      BY <3>1
    <3>2. CASE block # NoBlock
      <4> SUFFICES ASSUME NEW x \in Spent(next), x \notin new PROVE x \in Spent(base)
        OBVIOUS
      <4>1. next = Append(base, block)
        BY <3>2
      <4>2. next \in Seq(BlockType) /\ Len(next) = keep + 1 /\ next[keep + 1] = block
            /\ \A i \in 1 .. keep : next[i] = base[i]
        BY <4>1, <2>2, <2>4, <2>6
      <4> HIDE DEF next
      <4>3. PICK i \in 1 .. keep + 1 : \E t \in TxsOf(next[i]) : x \in Inputs[t]
        BY <4>2, ChainElements
      <4>4. i # keep + 1
        BY <4>2, <4>3 DEF InputsOf
      <4>5. i \in 1 .. keep /\ next[i] = base[i]
        BY <4>2, <4>4, <2>6
      <4> QED BY <4>3, <4>5, <2>4, ChainElements
    <3> QED BY <3>1, <3>2
  <2> HIDE DEF next
  <2>9. Fresh = {} /\ Fresh' = new
    BY <2>1 DEF Fresh
  <2>10. \A t : Clean(t)' <=> Inputs[t] \cap (Spent(next) \ new) = {}
    BY <2>1, <2>9 DEF Clean
  <2> HIDE DEF new
  <2>11. \A t \in mp.ids \ stale : Clean(t)'
    <3> SUFFICES ASSUME NEW t \in mp.ids \ stale PROVE Clean(t)'
      OBVIOUS
    <3>1. Inputs[t] \cap Spent(chain) = {}
      BY <2>9 DEF LedgerInv, Clean
    <3> QED BY <3>1, <2>7, <2>8, <2>10
  <2>12. \A t \in Range(sync'.rolled) : Clean(t)'
    <3> SUFFICES ASSUME NEW t \in Dropped(chain, keep) PROVE Clean(t)'
      BY <2>1, <1>0, RolledBack
    <3>1. PICK i \in keep + 1 .. Len(chain) : t \in TxsOf(chain[i])
      BY DEF Dropped
    <3>2. ASSUME NEW x \in Inputs[t], x \in Spent(base) PROVE FALSE
      <4>1. PICK j \in 1 .. keep : \E u \in TxsOf(base[j]) : x \in Inputs[u]
        BY <3>2, <2>4, ChainElements
      <4>2. PICK u \in TxsOf(base[j]) : x \in Inputs[u]
        BY <4>1
      <4>3. /\ j \in 1 .. Len(chain) /\ i \in 1 .. Len(chain) /\ i # j
            /\ u \in TxsOf(chain[j])
        BY <2>4, <2>6, <4>2
      <4> QED BY <3>1, <3>2, <4>2, <4>3, <2>3 DEF ChainOK
    <3> QED BY <3>2, <2>8, <2>10
  <2> QED BY <2>1, <2>5, <2>11, <2>12 DEF LedgerInv
<1>4. CASE PurgeParams
  <2>1. sync'.pc = "readmit" /\ sync'.rolled = sync.rolled /\ sync'.block = sync.block
        /\ sync.pc = "params" /\ UNCHANGED <<chain, sub, stale>>
    BY <1>0, <1>4 DEF PurgeParams, SyncType
  <2>2. mp'.ids \subseteq mp.ids
    BY <1>4, <1>r DEF PurgeParams, PurgeInvalidForParams
  <2>3. Fresh' = Fresh
    BY <2>1 DEF Fresh
  <2> QED BY <2>1, <2>2, <2>3, QueueSideStep
<1>5. CASE ReAdmit
  <2>0. UNCHANGED <<chain, sub>> /\ sync.pc = "readmit"
    BY <1>5 DEF ReAdmit
  <2>1. CASE sync.rolled = <<>>
    <3>1. sync' = EvictNext /\ UNCHANGED <<mp, stale>>
      BY <1>5, <2>1 DEF ReAdmit
    <3>2. sync'.rolled = <<>>
      BY <1>0, <3>1 DEF EvictNext, Idle, SyncType
    <3>3. Fresh' = Fresh
      <4>1. CASE sync.block.txs = <<>>
        <5>1. sync'.pc = "idle"
          BY <3>1, <4>1 DEF EvictNext, Idle
        <5>2. InputsOf(TxsOf(sync.block)) = {}
          BY <4>1 DEF TxsOf, InputsOf
        <5> QED BY <2>0, <5>1, <5>2 DEF Fresh
      <4>2. CASE sync.block.txs # <<>>
        <5>1. sync'.pc = "cache" /\ sync'.block = sync.block
          BY <1>0, <3>1, <4>2 DEF EvictNext, SyncType
        <5> QED BY <2>0, <5>1 DEF Fresh
      <4> QED BY <4>1, <4>2
    <3> QED BY <1>e, <2>0, <3>1, <3>2, <3>3, QueueSideStep
  <2>2. CASE sync.rolled # <<>>
    <3> DEFINE t == Head(sync.rolled)
    <3>1. t \in Txs /\ Range(sync.rolled) = {t} \cup Range(Tail(sync.rolled))
      BY <1>0, <2>2, HeadTail
    <3>2. /\ sync' = [sync EXCEPT !.rolled = Tail(@)]
          /\ \/ mp' = mp /\ stale' = stale
             \/ CanInsert(mp, t) /\ mp' = Insert(mp, t) /\ stale' = stale \ {t}
      BY <1>5, <2>2 DEF ReAdmit
    <3>3. sync'.pc = sync.pc /\ sync'.block = sync.block /\ sync'.rolled = Tail(sync.rolled)
      BY <1>0, <3>2 DEF SyncType
    <3>4. Fresh' = Fresh
      BY <3>3 DEF Fresh
    <3> HIDE DEF t
    <3>5. mp'.ids \ stale' \subseteq (mp.ids \ stale) \cup {t}
      <4>1. CASE mp' = mp /\ stale' = stale
        BY <4>1
      <4>2. CASE CanInsert(mp, t) /\ mp' = Insert(mp, t) /\ stale' = stale \ {t}
        <5>1. Insert(mp, t).ids = mp.ids \cup {t}
          BY <1>0, <3>1, <4>2, InsertKeepsQueue
        <5> QED BY <4>2, <5>1
      <4> QED BY <4>1, <4>2, <3>2
    <3> QED BY <2>0, <3>1, <3>3, <3>4, <3>5, QueueSideStep
  <2> QED BY <2>1, <2>2
<1>6. CASE CacheConfirmed
  <2>1. sync'.pc = "confirm" /\ sync'.rolled = sync.rolled /\ sync'.block = sync.block
        /\ sync.pc = "cache" /\ UNCHANGED <<mp, chain, sub, stale>>
    BY <1>0, <1>6 DEF CacheConfirmed, SyncType
  <2>3. Fresh' = Fresh
    BY <2>1 DEF Fresh
  <2> QED BY <2>1, <2>3, QueueSideStep
<1>7. CASE Confirm
  <2>1. sync'.pc = "conflict" /\ sync'.rolled = sync.rolled /\ sync'.block = sync.block
        /\ sync.pc = "confirm" /\ UNCHANGED <<chain, sub, stale>>
    BY <1>0, <1>7 DEF Confirm, SyncType
  <2>2. mp'.ids \subseteq mp.ids
    BY <1>7, <1>r DEF Confirm, RemoveConfirmed
  <2>3. Fresh' = Fresh
    BY <2>1 DEF Fresh
  <2> QED BY <2>1, <2>2, <2>3, QueueSideStep
<1>8. CASE Conflict
  <2> DEFINE new == InputsOf(TxsOf(sync.block))
             S == { t \in Resident(mp) : Inputs[t] \cap new # {} }
  <2>1. sync'.pc = "expire" /\ sync'.rolled = sync.rolled /\ sync.pc = "conflict"
        /\ UNCHANGED <<chain, sub, stale>>
    BY <1>0, <1>8 DEF Conflict, SyncType
  <2>2. mp' = Remove(mp, S)
    BY <1>8 DEF Conflict, RemoveConflictingInputs
  <2>3. mp'.ids = mp.ids \ S
    BY <2>2, <1>r
  <2>4. Fresh' = {} /\ Fresh = new
    BY <2>1 DEF Fresh
  <2>5. \A t \in mp'.ids \ stale' : Clean(t)'
    <3> SUFFICES ASSUME NEW t \in mp'.ids, t \notin stale PROVE Clean(t)'
      BY <2>1
    <3>1. t \in mp.ids /\ Inputs[t] \cap new = {}
      BY <2>3, <1>0
    <3>2. Inputs[t] \cap (Spent(chain) \ new) = {}
      BY <3>1, <2>4 DEF LedgerInv, Clean
    <3> QED BY <3>1, <3>2, <2>1, <2>4 DEF Clean
  <2>6. \A t \in Range(sync'.rolled) : Clean(t)'
    <3>1. sync.rolled = <<>>
      BY <2>1, <1>8 DEF ReturnInv
    <3> QED BY <3>1, <2>1, <1>e
  <2> QED BY <2>1, <2>5, <2>6 DEF LedgerInv
<1>9. CASE Expire
  <2>1. sync'.pc = "revalidate" /\ sync'.rolled = sync.rolled /\ sync'.block = sync.block
        /\ sync.pc = "expire" /\ UNCHANGED <<chain, sub, stale>>
    BY <1>0, <1>9 DEF Expire, SyncType
  <2>2. mp'.ids \subseteq mp.ids
    BY <1>9, <1>r DEF Expire, PurgeExpired
  <2>3. Fresh' = Fresh
    BY <2>1 DEF Fresh
  <2> QED BY <2>1, <2>2, <2>3, QueueSideStep
<1>10. CASE Revalidate
  <2> DEFINE slot == sync.block.slot
             after == Scratch(mp, Utxo(chain), slot, MinFee[slot])
             S == { mp.entries[i].tx : i \in { j \in DOMAIN mp.entries :
                        ~Applies(mp.entries[j].tx, after[j - 1], slot, MinFee[slot]) } }
  <2>1. sync'.pc = "idle" /\ sync'.rolled = <<>> /\ stale' = {} /\ UNCHANGED <<chain, sub>>
        /\ mp' = RevalidateWithLedger(mp, Utxo(chain), slot, MinFee[slot])
    BY <1>10 DEF Revalidate, Idle
  <2>2. mp'.ids = mp.ids \ S
    BY <2>1, <1>r DEF RevalidateWithLedger
  <2>3. Utxo(chain) \in LedgerType /\ Utxo(chain) \cap Spent(chain) = {} /\ ChainOK(chain)
    BY <1>0, LedgerTypes DEF Utxo, LedgerInv
  <2>4. \A j \in 0 .. Len(mp.entries) : after[j] \cap Spent(chain) = {}
    <3> HIDE DEF slot
    <3> QED BY <1>0, <2>3, ScratchIsClear
  <2> HIDE DEF after
  <2>5. Fresh' = {}
    BY <2>1 DEF Fresh
  <2>6. \A t \in mp'.ids \ stale' : Clean(t)'
    <3> SUFFICES ASSUME NEW t \in mp.ids, t \notin S PROVE Clean(t)'
      BY <2>2
    <3>1. DOMAIN mp.entries = 1 .. Len(mp.entries) /\ Len(mp.entries) \in Nat
          /\ Resident(mp) = { mp.entries[i].tx : i \in 1 .. Len(mp.entries) }
      BY <1>0, QueueFields
    <3>2. PICK j \in 1 .. Len(mp.entries) : t = mp.entries[j].tx
      BY <1>0, <3>1
    <3>3. Applies(t, after[j - 1], slot, MinFee[slot])
      BY <3>1, <3>2
    <3>4. Inputs[t] \subseteq after[j - 1]
      BY <3>3 DEF Applies
    <3>5. j - 1 \in 0 .. Len(mp.entries)
      BY <3>1
    <3>6. Inputs[t] \cap Spent(chain) = {}
      BY <3>4, <3>5, <2>4
    <3> QED BY <3>6, <2>1, <2>5 DEF Clean
  <2> QED BY <1>e, <2>1, <2>6 DEF LedgerInv
<1>11. CASE GovernorPurge
  <2>1. UNCHANGED <<chain, sub, sync, stale>>
    BY <1>11 DEF GovernorPurge
  <2>2. mp'.ids \subseteq mp.ids
    BY <1>11, <1>r DEF GovernorPurge, PurgeExpired
  <2>3. Fresh' = Fresh
    BY <2>1 DEF Fresh
  <2> QED BY <2>1, <2>2, <2>3, QueueSideStep
<1>12. CASE UNCHANGED vars
  <2>1. UNCHANGED <<mp, chain, sub, sync, stale>>
    BY <1>12 DEF vars
  <2>3. Fresh' = Fresh
    BY <2>1 DEF Fresh
  <2> QED BY <2>1, <2>3, QueueSideStep
<1> QED BY <1>1, <1>2, <1>3, <1>4, <1>5, <1>6, <1>7, <1>8, <1>9, <1>10, <1>11, <1>12 DEF Next

(* Between batches no entry spends an input that the chain has spent,     *)
(* unless its submitter's ledger was out of date.                         *)
THEOREM NoSpentInputAlways == Spec => []NoSpentInput
<1>1. Init => ReturnInv
  BY DEF Init, ReturnInv, Idle, Range
<1>2. TypeInv /\ LedgerInv => NoSpentInput
  <2> SUFFICES ASSUME TypeInv, LedgerInv, sync.pc = "idle", NEW t \in Resident(mp) \ stale
               PROVE  Inputs[t] \cap Spent(chain) = {}
    BY DEF NoSpentInput
  <2>1. t \in mp.ids \ stale
    BY TypeParts
  <2>2. Fresh = {}
    BY DEF Fresh
  <2> QED BY <2>1, <2>2 DEF LedgerInv, Clean
<1> QED BY <1>1, <1>2, TypeInit, TypeStep, ReturnStep, LedgerInit, LedgerStep, PTL DEF Spec
=============================================================================
