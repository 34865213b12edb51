---------------------------- MODULE StreamFacts -----------------------------
(***************************************************************************)
(* Facts about the watch stream of an object, a sequence that grows at the *)
(* end and shrinks at the front, for the proofs about the pool and the     *)
(* controller.                                                             *)
(***************************************************************************)
EXTENDS Naturals, Sequences, TLAPS

\* The last entry of a sequence that grows at the end and shrinks at the front.
LEMMA GrowsAtEnd ==
    ASSUME NEW S, NEW s \in Seq(S), NEW x \in S
    PROVE  LET t == Append(s, x) IN
           /\ t \in Seq(S) /\ t # <<>> /\ t[Len(t)] = x
           /\ \A i \in DOMAIN t : t[i] = x \/ (i \in DOMAIN s /\ t[i] = s[i])
<1> DEFINE t == Append(s, x)
<1>1. t \in Seq(S) /\ Len(t) = Len(s) + 1 /\ t[Len(s) + 1] = x
      /\ \A i \in 1 .. Len(s) : t[i] = s[i]
    OBVIOUS
<1>2. ASSUME NEW i \in DOMAIN t PROVE t[i] = x \/ (i \in DOMAIN s /\ t[i] = s[i])
    BY <1>1
<1>3. t # <<>>
    BY <1>1
<1> QED
    BY <1>1, <1>2, <1>3

\* Delivering the oldest version leaves the newer ones, the last of them included.
LEMMA ShrinksAtFront ==
    ASSUME NEW S, NEW s \in Seq(S), s # <<>>
    PROVE  LET t == Tail(s) IN
           /\ t \in Seq(S) /\ Head(s) \in S /\ Head(s) = s[1] /\ 1 \in DOMAIN s
           /\ Len(s) = 1 => s[Len(s)] = Head(s)
           /\ t # <<>> => t[Len(t)] = s[Len(s)]
           /\ \A i \in DOMAIN t : i + 1 \in DOMAIN s /\ t[i] = s[i + 1]
<1> DEFINE t == Tail(s)
<1>1. t \in Seq(S) /\ Len(t) = Len(s) - 1 /\ Head(s) = s[1] /\ Len(s) \in Nat \ {0}
      /\ \A i \in 1 .. Len(t) : t[i] = s[i + 1]
    OBVIOUS
<1>2. t # <<>> => Len(t) \in Nat \ {0}
    BY <1>1
<1>3. s[1] \in S
    BY <1>1
<1> QED
    BY <1>1, <1>2, <1>3
=============================================================================
