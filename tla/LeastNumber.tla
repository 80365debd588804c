----------------------------- MODULE LeastNumber -----------------------------
(***************************************************************************)
(* A set of natural numbers has a least one.  Proofs about every number    *)
(* are made with it: of the numbers a statement fails for, the least one   *)
(* is taken; or the set of the numbers it holds for is closed upwards.     *)
(* Max is FiniteSetsExt's.                                                 *)
(***************************************************************************)
EXTENDS FiniteSetsExt, WellFoundedInduction, TLAPS

LEMMA LeastExists ==
  ASSUME NEW q, q \subseteq Nat, q # {}
  PROVE  \E x \in q : \A y \in q : x <= y
<1>1. PICK R : R = {ss \in Nat \X Nat : ss[1] < ss[2]}
  OBVIOUS
<1>2. IsWellFoundedOn(R, Nat)
  BY <1>1, NatLessThanWellFounded DEF OpToRel
<1>3. PICK x \in q : \A y \in q : ~(<< y, x >> \in R)
  BY <1>2, WFMin
<1>4. ASSUME NEW y \in q PROVE x <= y
  <2>1. << y, x >> \notin R
    BY <1>3
  <2>2. x \in Nat /\ y \in Nat
    OBVIOUS
  <2>3. ~(y < x)
    BY <1>1, <2>1, <2>2
  <2> QED
    BY <2>2, <2>3
<1> QED
  BY <1>4

LEMMA GreatestExists ==
  ASSUME NEW q, q \subseteq Nat, q # {}, NEW n \in Nat, \A y \in q : y <= n
  PROVE  \E x \in q : \A y \in q : y <= x
<1> DEFINE u == {k \in Nat : \E y \in q : k = n - y}
<1>1. \A y \in q : n - y \in u
  OBVIOUS
<1>2. u # {} /\ u \subseteq Nat
  BY <1>1
<1>3. PICK k \in u : \A y \in u : k <= y
  BY <1>2, LeastExists
<1>4. PICK x \in q : k = n - x
  OBVIOUS
<1>5. ASSUME NEW y \in q PROVE y <= x
  <2>1. k <= n - y
    BY <1>1, <1>3
  <2> QED
    BY <1>4, <2>1
<1> QED
  BY <1>5

(* A set that holds 0 and with each number the next one, up to n. *)
LEMMA CountUp ==
  ASSUME NEW n \in Nat, NEW q, 0 \in q,
         \A i \in 0 .. n - 1 : i \in q => i + 1 \in q
  PROVE  \A i \in 0 .. n : i \in q
<1> DEFINE bad == {i \in 0 .. n : i \notin q}
<1>1. CASE bad = {}
  BY <1>1
<1>2. CASE bad # {}
  <2>1. bad \subseteq Nat
    OBVIOUS
  <2>2. PICK i \in bad : \A y \in bad : i <= y
    BY <1>2, <2>1, LeastExists
  <2>3. i \in 0 .. n /\ i # 0 /\ i \notin q
    OBVIOUS
  <2>4. i - 1 \in 0 .. n - 1 /\ i - 1 \in 0 .. n /\ (i - 1) + 1 = i /\ ~(i <= i - 1)
    BY <2>3
  <2>5. i - 1 \in q
    BY <2>2, <2>4
  <2> QED
    BY <2>3, <2>4, <2>5
<1> QED
  BY <1>1, <1>2

(* The greatest of a set of indices, and what is left of the set without   *)
(* it: what folds go by, from the last element of a sequence to the first. *)
LEMMA MaxIs ==
  ASSUME NEW n \in Nat, NEW r, r \subseteq 1 .. n, r # {}
  PROVE  Max(r) \in r /\ Max(r) \in 1 .. n /\ r \ {Max(r)} \subseteq 1 .. Max(r) - 1
<1>0. r \subseteq Nat /\ \A y \in r : y <= n
  OBVIOUS
<1>1. PICK x \in r : \A y \in r : y <= x
  BY <1>0, GreatestExists
<1>4. \A y \in r : x >= y
  BY <1>0, <1>1
<1>5. Max(r) \in r /\ \A y \in r : Max(r) >= y
  BY <1>4 DEF Max
<1>6. PICK t : t = Max(r)
  OBVIOUS
<1>7. t \in r /\ \A y \in r : t >= y
  BY <1>5, <1>6
<1>8. \A y \in r \ {t} : y \in 1 .. t - 1
  BY <1>7
<1>9. t \in 1 .. n
  BY <1>7
<1> QED
  BY <1>6, <1>7, <1>8, <1>9

LEMMA MaxOfRange ==
  ASSUME NEW i \in Nat \ {0}
  PROVE  Max(1 .. i) = i /\ (1 .. i) \ {i} = 1 .. i - 1
<1>1. i \in 1 .. i /\ \A y \in 1 .. i : i >= y
  OBVIOUS
<1>2. Max(1 .. i) \in 1 .. i /\ \A y \in 1 .. i : Max(1 .. i) >= y
  BY <1>1 DEF Max
<1>3. PICK t : t = Max(1 .. i)
  OBVIOUS
<1>4. t = i
  BY <1>1, <1>2, <1>3
<1> QED
  BY <1>3, <1>4

=============================================================================
