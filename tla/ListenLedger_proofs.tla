------------------------- MODULE ListenLedger_proofs -------------------------
(***************************************************************************)
(* The ledger keeps what it promises, for any number of requests and of    *)
(* ticks: whatever implements it inherits these theorems.                  *)
(***************************************************************************)
EXTENDS ListenLedger, TLAPS

LedgerInv == LedgerTypeOK /\ OnePlace /\ KeepsItsTime

\* What the UNION of OnePlace holds.
LEMMA UnionOfImage ==
    ASSUME NEW S, NEW f
    PROVE  \A t : t \in (UNION {f[r] : r \in S}) <=> \E r \in S : t \in f[r]
OBVIOUS

\* Covering 1 .. n, said without the UNION.
LEMMA Coverage ==
    ASSUME NEW n, NEW S, NEW f \in [S -> SUBSET (1 .. n)], NEW A \in SUBSET (1 .. n)
    PROVE  (1 .. n = (UNION {f[r] : r \in S}) \cup A)
           <=> \A t \in 1 .. n : t \in A \/ \E r \in S : t \in f[r]
<1> DEFINE U == (UNION {f[r] : r \in S})
<1>1. \A t : t \in U <=> \E r \in S : t \in f[r]
  BY UnionOfImage
<1>2. U \subseteq 1 .. n
  BY <1>1
<1> HIDE DEF U
<1>3. (1 .. n = U \cup A) <=> \A t \in 1 .. n : t \in A \/ t \in U
  BY <1>2
<1> QED
  BY <1>1, <1>3 DEF U

\* The covering conjunct of OnePlace, said without the UNION.
Somewhere ==
    \A t \in 1 .. heard : \/ t \in outstanding \cup settled \cup dropped
                          \/ \E r \in Requests : t \in reserved[r]

Covered ==
    1 .. heard = outstanding \cup (UNION {reserved[r] : r \in Requests}) \cup settled \cup dropped

\* OnePlace covers every tick exactly when each is somewhere.
LEMMA SomewhereCovers == LedgerTypeOK => (Somewhere <=> Covered)
<1> SUFFICES ASSUME LedgerTypeOK PROVE Somewhere <=> Covered
  OBVIOUS
<1> DEFINE A == outstanding \cup settled \cup dropped
<1>1. A \in SUBSET (1 .. heard) /\ reserved \in [Requests -> SUBSET (1 .. heard)]
  BY DEF LedgerTypeOK
<1>2. Somewhere <=> \A t \in 1 .. heard : t \in A \/ \E r \in Requests : t \in reserved[r]
  BY DEF Somewhere
<1>3. Covered <=> 1 .. heard = (UNION {reserved[r] : r \in Requests}) \cup A
  BY DEF Covered
<1> HIDE DEF A
<1>4. (1 .. heard = (UNION {reserved[r] : r \in Requests}) \cup A)
      <=> \A t \in 1 .. heard : t \in A \/ \E r \in Requests : t \in reserved[r]
  BY <1>1, Coverage
<1> QED
  BY <1>2, <1>3, <1>4

\* Nothing heard, nothing to account for.
LEMMA LedgerInit == Init => LedgerInv
<1> SUFFICES ASSUME Init PROVE LedgerInv
  OBVIOUS
<1>1. LedgerTypeOK
  <2>0. open \in BOOLEAN
    BY DEF Init
  <2>1. heard \in Nat /\ since \in 0 .. heard
    BY DEF Init
  <2>2. outstanding = {} /\ settled = {} /\ dropped = {}
    BY DEF Init
  <2>3. reserved \in [Requests -> SUBSET (1 .. heard)]
    BY DEF Init
  <2> QED
    BY <2>0, <2>1, <2>2, <2>3 DEF LedgerTypeOK
<1>2. 1 .. heard = (UNION {reserved[r] : r \in Requests}) \cup {}
  <2>1. \A t \in 1 .. heard : FALSE
    BY DEF Init
  <2> QED
    BY <1>1, <2>1, Coverage DEF LedgerTypeOK
<1> QED
  BY <1>1, <1>2 DEF Init, LedgerInv, OnePlace, KeepsItsTime

\* No step of the ledger loses a tick or mixes sessions: one case per action.
LEMMA LedgerStep == LedgerInv /\ [Next]_ledger => LedgerInv'
<1> SUFFICES ASSUME LedgerInv, [Next]_ledger PROVE LedgerInv'
  OBVIOUS
<1> USE DEF LedgerInv, LedgerTypeOK
<1>0. Somewhere
  BY SomewhereCovers DEF OnePlace, Covered
<1>a. LedgerTypeOK' /\ Somewhere' => Covered'
  BY SomewhereCovers, PTL
<1>1. CASE Open
  <2>1. LedgerTypeOK'
    BY <1>1 DEF Open
  <2>2. Somewhere'
    BY <1>0, <1>1 DEF Open, Somewhere
  <2>3. OnePlace'
    BY <1>1, <1>a, <2>1, <2>2 DEF Open, OnePlace, Covered
  <2>4. KeepsItsTime'
    BY <1>1 DEF Open, KeepsItsTime
  <2> QED
    BY <2>1, <2>3, <2>4
<1>2. CASE Hear
  <2>1. LedgerTypeOK'
    BY <1>2 DEF Hear
  <2>2. Somewhere'
    BY <1>0, <1>2 DEF Hear, Somewhere
  <2>3. OnePlace'
    BY <1>2, <1>a, <2>1, <2>2 DEF Hear, OnePlace, Covered
  <2>4. KeepsItsTime'
    BY <1>2 DEF Hear, KeepsItsTime
  <2> QED
    BY <2>1, <2>3, <2>4
<1>3. CASE AbortAll
  <2>1. LedgerTypeOK'
    BY <1>3 DEF AbortAll
  <2>2. Somewhere'
    BY <1>0, <1>3 DEF AbortAll, Somewhere
  <2>3. OnePlace'
    BY <1>3, <1>a, <2>1, <2>2 DEF AbortAll, OnePlace, Covered
  <2>4. KeepsItsTime'
    BY <1>3 DEF AbortAll, KeepsItsTime
  <2> QED
    BY <2>1, <2>3, <2>4
<1>4. ASSUME NEW r \in Requests, Reserve(r) PROVE LedgerInv'
  <2>1. LedgerTypeOK'
    BY <1>4 DEF Reserve
  <2>2. Somewhere'
    BY <1>0, <1>4 DEF Reserve, Somewhere
  <2>3. OnePlace'
    BY <1>4, <1>a, <2>1, <2>2 DEF Reserve, OnePlace, Covered
  <2>4. KeepsItsTime'
    BY <1>4 DEF Reserve, KeepsItsTime
  <2> QED
    BY <2>1, <2>3, <2>4
<1>5. ASSUME NEW r \in Requests, Settle(r) PROVE LedgerInv'
  <2>1. LedgerTypeOK'
    BY <1>5 DEF Settle
  <2>2. Somewhere'
    BY <1>0, <1>5 DEF Settle, Somewhere
  <2>3. OnePlace'
    BY <1>5, <1>a, <2>1, <2>2 DEF Settle, OnePlace, Covered
  <2>4. KeepsItsTime'
    BY <1>5 DEF Settle, KeepsItsTime
  <2> QED
    BY <2>1, <2>3, <2>4
<1>6. ASSUME NEW r \in Requests, Return(r) PROVE LedgerInv'
  <2>1. LedgerTypeOK'
    BY <1>6 DEF Return
  <2>2. Somewhere'
    BY <1>0, <1>6 DEF Return, Somewhere
  <2>3. OnePlace'
    BY <1>6, <1>a, <2>1, <2>2 DEF Return, OnePlace, Covered
  <2>4. KeepsItsTime'
    BY <1>6 DEF Return, KeepsItsTime
  <2> QED
    BY <2>1, <2>3, <2>4
<1>7. ASSUME NEW r \in Requests, GiveUp(r) PROVE LedgerInv'
  <2>1. LedgerTypeOK'
    BY <1>7 DEF GiveUp
  <2>2. Somewhere'
    BY <1>0, <1>7 DEF GiveUp, Somewhere
  <2>3. OnePlace'
    BY <1>7, <1>a, <2>1, <2>2 DEF GiveUp, OnePlace, Covered
  <2>4. KeepsItsTime'
    BY <1>7 DEF GiveUp, KeepsItsTime
  <2> QED
    BY <2>1, <2>3, <2>4
<1>8. CASE UNCHANGED ledger
  BY <1>8 DEF ledger, OnePlace, KeepsItsTime
<1> QED
  BY <1>1, <1>2, <1>3, <1>4, <1>5, <1>6, <1>7, <1>8 DEF Next

\* Every behaviour of the ledger has each tick in one place, and keeps the time
\* of the open session (the accounting of ProgressSyncer and PlaybackSession).
THEOREM LedgerKeepsItsPromise == Spec => [](OnePlace /\ KeepsItsTime)
<1>1. Init => LedgerInv
  BY LedgerInit
<1>2. LedgerInv /\ [Next]_ledger => LedgerInv'
  BY LedgerStep
<1>3. LedgerInv => OnePlace /\ KeepsItsTime
  BY DEF LedgerInv
<1> QED
  BY <1>1, <1>2, <1>3, PTL DEF Spec
=============================================================================
