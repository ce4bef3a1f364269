--------------------------- MODULE MassSendProofs ---------------------------
(***************************************************************************)
(* The record of mass-send and resend tells the truth for every list of    *)
(* addresses, every batch size and every sequence of commands and crashes; *)
(* and nobody is paid more often than listed while nothing goes wrong.     *)
(***************************************************************************)
EXTENDS MassSend, SequenceTheorems, ArithmeticLemmas, TLAPS

Txs(To) == Seq([to : To, status : Statuses])

\* A list of transactions pays the addressees it pays.
LEMMA OwnAddressees ==
    ASSUME NEW To, NEW list \in Txs(To)
    PROVE  list \in Txs(Addressees(list))
  <1> DEFINE Tx == [to : To, status : Statuses]
             Own == [to : Addressees(list), status : Statuses]
  <1>1. /\ list \in Seq(Tx)
        /\ Len(list) \in Nat
        /\ DOMAIN list = 1..Len(list)
        /\ list \in [1..Len(list) -> Tx]
    BY LenProperties DEF Txs
  <1>2. \A i \in 1..Len(list) : list[i] \in Own
    <2> SUFFICES ASSUME NEW i \in 1..Len(list) PROVE list[i] \in Own
      OBVIOUS
    <2>1. list[i] \in Tx /\ i \in DOMAIN list
      BY <1>1
    <2>2. list[i].to \in Addressees(list)
      BY <2>1 DEF Addressees
    <2> QED
      BY <2>1, <2>2
  <1> HIDE DEF Own
  <1>3. list \in [1..Len(list) -> Own]
    BY <1>1, <1>2
  <1>4. list \in Seq(Own)
    BY <1>1, <1>3
  <1> QED
    BY <1>4 DEF Txs, Own

\* A transaction is added behind those there are and changes none of them.
LEMMA AppendedTx ==
    ASSUME NEW To, txs \in Txs(To), NEW to, NEW sig, sig = Len(txs) + 1,
           txs' = Append(txs, [to |-> to, status |-> "sent"])
    PROVE  /\ DOMAIN txs' = DOMAIN txs \cup {sig}
           /\ \A i \in DOMAIN txs : txs'[i] = txs[i]
           /\ txs'[sig] = [to |-> to, status |-> "sent"]
           /\ txs' \in Txs(Addressees(txs'))
  <1> DEFINE tx == [to |-> to, status |-> "sent"]
             Tx == [to : To \cup {to}, status : Statuses]
  <1>1. txs \in Seq(Tx)
    <2>1. [to : To, status : Statuses] \subseteq Tx
      OBVIOUS
    <2> QED
      BY <2>1, SeqMonotonic DEF Txs
  <1>2. tx \in Tx
    BY DEF Statuses
  <1>3. /\ Len(txs) \in Nat
        /\ DOMAIN txs = 1..Len(txs)
    BY <1>1, LenProperties
  <1>4. /\ txs' \in Seq(Tx)
        /\ Len(txs') = Len(txs) + 1
        /\ DOMAIN txs' = 1..(Len(txs) + 1)
        /\ \A i \in 1..Len(txs) : txs'[i] = txs[i]
        /\ txs'[Len(txs) + 1] = tx
    <2> HIDE DEF tx, Tx
    <2>1. txs' = Append(txs, tx)
      BY DEF tx
    <2> QED
      BY <1>1, <1>2, <2>1
  <1>5. DOMAIN txs' = DOMAIN txs \cup {sig}
    BY <1>3, <1>4
  <1>6. txs' \in Txs(Addressees(txs'))
    <2>1. txs' \in Txs(To \cup {to})
      BY <1>4 DEF Txs
    <2> QED
      BY <2>1, OwnAddressees
  <1> QED
    BY <1>3, <1>4, <1>5, <1>6

\* The chain changes the status of a transaction, never whom it pays.
LEMMA ProgressKeepsTxs ==
    ASSUME NEW To, txs \in Txs(To), NEW sig \in DOMAIN txs,
           NEW status \in Statuses,
           txs' = [txs EXCEPT ![sig].status = status]
    PROVE  /\ DOMAIN txs' = DOMAIN txs
           /\ \A i \in DOMAIN txs : txs'[i].to = txs[i].to
           /\ txs' \in Txs(Addressees(txs'))
  <1> DEFINE tx == [txs[sig] EXCEPT !.status = status]
             Tx == [to : To, status : Statuses]
  <1>1. /\ txs \in Seq(Tx)
        /\ DOMAIN txs = 1..Len(txs)
        /\ sig \in 1..Len(txs)
    BY LenProperties DEF Txs
  <1>2. txs[sig] \in Tx
    BY <1>1, ElementOfSeq
  <1>3. tx \in Tx /\ tx.to = txs[sig].to
    BY <1>2
  <1>4. txs' = [txs EXCEPT ![sig] = tx]
    OBVIOUS
  <1> HIDE DEF tx, Tx
  <1>5. /\ txs' \in Seq(Tx)
        /\ Len(txs') = Len(txs)
        /\ \A i \in 1..Len(txs) : txs'[i] = IF i = sig THEN tx ELSE txs[i]
    BY <1>1, <1>3, <1>4, ExceptSeq
  <1>6. DOMAIN txs' = DOMAIN txs
    BY <1>1, <1>4
  <1>7. \A i \in DOMAIN txs : txs'[i].to = txs[i].to
    BY <1>1, <1>3, <1>5
  <1>8. txs' \in Txs(Addressees(txs'))
    <2>1. txs' \in Txs(To)
      BY <1>5 DEF Txs, Tx
    <2> QED
      BY <2>1, OwnAddressees
  <1> QED
    BY <1>6, <1>7, <1>8

\* What was truthful stays so while no transaction changes its addressees.
LEMMA TruthStays ==
    ASSUME NEW map, Truthful(map), DOMAIN txs \subseteq DOMAIN txs',
           \A i \in DOMAIN txs : txs'[i].to = txs[i].to
    PROVE  \A a \in DOMAIN map : map[a] \in DOMAIN txs'
                                    /\ a \in ToSet(txs'[map[a]].to)
  BY DEF Truthful

\* A batch that is sent is noted for the addresses it pays, and a failing call
\* notes nothing.
LEMMA SendBatchTellsTruth ==
    ASSUME RecordIInv, NEW batch, SendBatch(batch)
    PROVE  RecordIInv'
  <1> DEFINE to == Qualified(batch)
             sig == Len(txs) + 1
             signed == [to |-> to, status |-> "sent"]
             To == Addressees(txs)
  <1>1. txs \in Txs(To) /\ Truthful(record) /\ Truthful(sent)
    BY DEF RecordIInv, Txs, Statuses
  <1>2. /\ record' = record
        /\ \/ /\ txs' = Append(txs, signed)
              /\ sent' = [a \in DOMAIN sent \cup ToSet(to) |->
                            IF a \in ToSet(to) THEN sig ELSE sent[a]]
           \/ /\ txs' \in {txs, Append(txs, signed)}
              /\ sent' = sent
    BY DEF SendBatch
  <1> HIDE DEF to, To
  <1>3. CASE txs' = txs
    <2>1. ~(txs' = Append(txs, signed))
      <3> SUFFICES ASSUME txs' = Append(txs, signed) PROVE FALSE
        OBVIOUS
      <3>1. sig \in DOMAIN txs
        BY <1>1, <1>3, AppendedTx
      <3>2. DOMAIN txs = 1..Len(txs) /\ Len(txs) \in Nat
        BY <1>1, LenProperties DEF Txs
      <3> QED
        BY <3>1, <3>2
    <2> QED
      BY <1>1, <1>2, <1>3, <2>1 DEF RecordIInv, Truthful
  <1>4. CASE txs' = Append(txs, signed)
    <2>1. /\ DOMAIN txs' = DOMAIN txs \cup {sig}
          /\ \A i \in DOMAIN txs : txs'[i] = txs[i]
          /\ txs'[sig] = signed
          /\ txs' \in Txs(Addressees(txs'))
      BY <1>1, <1>4, AppendedTx
    <2>2. txs'[sig].to = to
      BY <2>1
    <2>3. Truthful(record)'
      BY <1>1, <1>2, <2>1, TruthStays DEF Truthful
    <2>4. Truthful(sent)'
      <3>1. CASE sent' = sent
        BY <1>1, <3>1, <2>1, TruthStays DEF Truthful
      <3>2. CASE sent' = [a \in DOMAIN sent \cup ToSet(to) |->
                            IF a \in ToSet(to) THEN sig ELSE sent[a]]
        <4> SUFFICES ASSUME NEW a \in DOMAIN sent'
                     PROVE  /\ sent'[a] \in DOMAIN txs'
                            /\ a \in ToSet(txs'[sent'[a]].to)
          BY DEF Truthful
        <4> HIDE DEF sig
        <4>1. CASE a \in ToSet(to)
          <5>1. sent'[a] = sig
            BY <3>2, <4>1
          <5> QED
            BY <2>1, <2>2, <4>1, <5>1
        <4>2. CASE a \notin ToSet(to)
          <5>1. a \in DOMAIN sent /\ sent'[a] = sent[a]
            BY <3>2, <4>2
          <5> QED
            BY <1>1, <2>1, <5>1 DEF Truthful
        <4> QED
          BY <4>1, <4>2
      <3> QED
        BY <1>2, <3>1, <3>2
    <2> QED
      BY <2>1, <2>3, <2>4 DEF RecordIInv, Txs, Statuses
  <1> QED
    BY <1>2, <1>3, <1>4

\* Every step keeps the invariant.
LEMMA NextRecordIInv ==
    ASSUME RecordIInv, [Next]_vars
    PROVE  RecordIInv'
  <1>1. ASSUME UNCHANGED txs,
               record' \in {record, sent}, sent' \in {record, sent, <<>>}
        PROVE  RecordIInv'
    BY <1>1 DEF RecordIInv, Truthful
  <1>2. ASSUME NEW n \in Limits, StartMassSend(n) \/ StartResend(n)
        PROVE  RecordIInv'
    BY <1>1, <1>2 DEF StartMassSend, StartResend, Start
  <1>3. CASE SendNextBatch
    BY <1>3, SendBatchTellsTruth DEF SendNextBatch
  <1>4. CASE ResendNextGroup
    BY <1>1, <1>4, SendBatchTellsTruth DEF ResendNextGroup
  <1>5. CASE WriteRecord
    BY <1>1, <1>5 DEF WriteRecord
  <1>6. CASE Crash \/ Finish
    BY <1>1, <1>6 DEF Crash, Finish
  <1>7. ASSUME NEW sig \in DOMAIN txs,
               NEW status \in {"confirmed", "failed", "expired", "finalized"},
               Progress(sig, status)
        PROVE  RecordIInv'
    <2> DEFINE To == Addressees(txs)
    <2>1. txs \in Txs(To)
      BY DEF RecordIInv, Txs, Statuses
    <2>2. /\ status \in Statuses
          /\ txs' = [txs EXCEPT ![sig].status = status]
          /\ record' = record /\ sent' = sent
      BY <1>7 DEF Progress, Statuses
    <2>3. /\ DOMAIN txs' = DOMAIN txs
          /\ \A i \in DOMAIN txs : txs'[i].to = txs[i].to
          /\ txs' \in Txs(Addressees(txs'))
      BY <2>1, <2>2, ProgressKeepsTxs
    <2>4. Truthful(record)' /\ Truthful(sent)'
      BY <2>2, <2>3, TruthStays DEF RecordIInv, Truthful
    <2> QED
      BY <2>3, <2>4 DEF RecordIInv, Txs, Statuses
  <1>8. CASE UNCHANGED vars
    BY <1>1, <1>8 DEF vars
  <1> QED
    BY <1>2, <1>3, <1>4, <1>5, <1>6, <1>7, <1>8 DEF Next

\* The file at des_path never names a transaction for an address it does not
\* pay, whatever crashes or fails.
THEOREM RecordIsTruthful == Spec => []RecordTellsTruth
  <1>1. Init => RecordIInv
    BY DEF Init, RecordIInv, Truthful
  <1>2. RecordIInv /\ [Next]_vars => RecordIInv'
    BY NextRecordIInv
  <1>3. RecordIInv => RecordTellsTruth
    BY DEF RecordIInv, RecordTellsTruth
  <1> QED
    BY <1>1, <1>2, <1>3, PTL DEF Spec

-----------------------------------------------------------------------------
(* Counting an address in a list. *)

\* What an element adds to the count of a.
One(x, a) == IF x = a THEN 1 ELSE 0

\* How often the first n elements of a list are a.
Among(a, list, n) == Cardinality({i \in 1..n : list[i] = a})

LEMMA AmongStep ==
    ASSUME NEW a, NEW list
    PROVE  /\ Among(a, list, 0) = 0
           /\ \A n \in Nat :
                 /\ Among(a, list, n) \in Nat
                 /\ Among(a, list, n + 1)
                      = Among(a, list, n) + One(list[n + 1], a)
  <1>1. Among(a, list, 0) = 0
    <2>1. {i \in 1..0 : list[i] = a} = {}
      OBVIOUS
    <2> QED
      BY <2>1, FS_EmptySet DEF Among
  <1>2. ASSUME NEW n \in Nat
        PROVE  /\ Among(a, list, n) \in Nat
               /\ Among(a, list, n + 1)
                    = Among(a, list, n) + One(list[n + 1], a)
    <2> DEFINE S == {i \in 1..n : list[i] = a}
               T == {i \in 1..(n + 1) : list[i] = a}
    <2>1. IsFiniteSet(1..n) /\ S \subseteq 1..n
      BY FS_Interval
    <2>2. IsFiniteSet(S) /\ Cardinality(S) \in Nat
      BY <2>1, FS_Subset, FS_CardinalityType
    <2>3. T = IF list[n + 1] = a THEN S \cup {n + 1} ELSE S
      <3>1. \A i : i \in 1..(n + 1) <=> i \in 1..n \/ i = n + 1
        OBVIOUS
      <3> QED
        BY <3>1
    <2>4. n + 1 \notin S
      OBVIOUS
    <2> HIDE DEF S, T
    <2>5. Cardinality(T) = Cardinality(S) + One(list[n + 1], a)
      <3>1. CASE list[n + 1] = a
        <4>1. T = S \cup {n + 1}
          BY <2>3, <3>1
        <4>2. Cardinality(S \cup {n + 1}) = Cardinality(S) + 1
          BY <2>2, <2>4, FS_AddElement
        <4> QED
          BY <3>1, <4>1, <4>2 DEF One
      <3>2. CASE list[n + 1] # a
        BY <2>2, <2>3, <3>2 DEF One
      <3> QED
        BY <3>1, <3>2
    <2> QED
      BY <2>2, <2>5 DEF Among, S, T
  <1> QED
    BY <1>1, <1>2

LEMMA OccurrencesAmong ==
    ASSUME NEW A, NEW list \in Seq(A), NEW a
    PROVE  Occurrences(a, list) = Among(a, list, Len(list))
  BY LenProperties DEF Occurrences, Among

\* How often an address is in a list that grows.
LEMMA OccurrencesGrow ==
    ASSUME NEW A, NEW list \in Seq(A), NEW x \in A, NEW a
    PROVE  Occurrences(a, Append(list, x))
             = Occurrences(a, list) + One(x, a)
  <1> DEFINE long == Append(list, x)
             n == Len(list)
  <1>1. /\ n \in Nat /\ long \in Seq(A) /\ Len(long) = n + 1
        /\ \A i \in 1..n : long[i] = list[i]
        /\ long[n + 1] = x
    OBVIOUS
  <1> HIDE DEF long, n
  <1>2. Occurrences(a, long) = Among(a, long, n + 1)
    BY <1>1, OccurrencesAmong
  <1>3. Among(a, long, n + 1) = Among(a, long, n) + One(x, a)
    <2>1. Among(a, long, n + 1) = Among(a, long, n) + One(long[n + 1], a)
      BY <1>1, AmongStep
    <2> QED
      BY <1>1, <2>1
  <1>4. {i \in 1..n : long[i] = a} = {i \in 1..n : list[i] = a}
    BY <1>1
  <1>5. Among(a, long, n) = Occurrences(a, list)
    BY <1>4, OccurrencesAmong DEF Among, n
  <1> QED
    BY <1>2, <1>3, <1>5 DEF long

LEMMA OccurrencesType ==
    ASSUME NEW A, NEW list \in Seq(A), NEW a
    PROVE  /\ Occurrences(a, list) \in Nat
           /\ Occurrences(a, list) = 0 <=> a \notin ToSet(list)
           /\ Occurrences(a, <<>>) = 0
  <1> DEFINE S == {i \in DOMAIN list : list[i] = a}
  <1>1. DOMAIN list = 1..Len(list) /\ Len(list) \in Nat
    BY LenProperties
  <1>2. IsFiniteSet(S) /\ Cardinality(S) \in Nat
    <2>1. IsFiniteSet(1..Len(list)) /\ S \subseteq 1..Len(list)
      BY <1>1, FS_Interval
    <2> QED
      BY <2>1, FS_Subset, FS_CardinalityType
  <1>3. Cardinality(S) = 0 <=> S = {}
    BY <1>2, FS_EmptySet
  <1>4. S = {} <=> a \notin ToSet(list)
    BY DEF ToSet
  <1>5. Occurrences(a, <<>>) = 0
    <2>1. {i \in DOMAIN <<>> : <<>>[i] = a} = {}
      OBVIOUS
    <2> QED
      BY <2>1, FS_EmptySet DEF Occurrences
  <1> QED
    BY <1>2, <1>3, <1>4, <1>5 DEF Occurrences

-----------------------------------------------------------------------------
(* The part of a list that is kept. *)

\* Kept goes through the list.
KeptStep(list, S, n, kept) == IF list[n] \in S THEN Append(kept, list[n]) ELSE kept
KeptBy(c, list, S) ==
    /\ c[0] = <<>>
    /\ \A n \in 1..Len(list) : c[n] = KeptStep(list, S, n, c[n - 1])

LEMMA KeptChain ==
    ASSUME NEW A, NEW list \in Seq(A), NEW S
    PROVE  \E c : KeptBy(c, list, S) /\ Kept(list, S) = c[Len(list)]
  <1> DEFINE len == Len(list)
             Is(s) == s = [n \in 0..len |->
                             IF n = 0 THEN <<>>
                             ELSE IF list[n] \in S THEN Append(s[n - 1], list[n])
                                  ELSE s[n - 1]]
             c == CHOOSE s : Is(s)
             F == [n \in Nat |-> [x \in Seq(A) |->
                     IF n \in 1..len THEN KeptStep(list, S, n, x) ELSE x]]
  <1>0. len \in Nat /\ \A n \in 1..len : list[n] \in A
    OBVIOUS
  <1>1. F \in [Nat -> [Seq(A) -> Seq(A)]]
    BY <1>0 DEF KeptStep
  <1>2. PICK s \in [0..len -> Seq(A)] : Follows(s, len, <<>>, F)
    <2>1. <<>> \in Seq(A)
      OBVIOUS
    <2> HIDE DEF F, len
    <2> QED
      BY <1>0, <1>1, <2>1, FiniteRecursion
  <1>3. \A n \in 1..len : s[n] = KeptStep(list, S, n, s[n - 1])
    <2> SUFFICES ASSUME NEW n \in 1..len PROVE s[n] = KeptStep(list, S, n, s[n - 1])
      OBVIOUS
    <2>2. n \in Nat /\ n - 1 \in 0..len
      <3> HIDE DEF len
      <3> QED
        BY <1>0
    <2>1. s[n - 1] \in Seq(A)
      BY <1>2, <2>2
    <2> QED
      BY <1>2, <2>1, <2>2 DEF Follows
  <1> HIDE DEF F
  <1>4. Is(s)
    <2>1. s[0] = <<>>
      BY <1>2 DEF Follows
    <2>2. \A n \in 0..len : n # 0 => n \in 1..len
      BY <1>0
    <2> HIDE DEF len
    <2> QED
      BY <1>2, <1>3, <2>1, <2>2 DEF KeptStep
  <1>5. Is(c)
    <2> HIDE DEF Is
    <2> QED
      BY <1>4
  <1>6. Kept(list, S) = c[len]
    BY DEF Kept
  <1> HIDE DEF c
  <1>7. c[0] = <<>> /\ \A n \in 1..len : c[n] = KeptStep(list, S, n, c[n - 1])
    <2>1. c[0] = <<>>
      BY <1>0, <1>5
    <2>2. \A n \in 1..len : n \in 0..len /\ n # 0
      BY <1>0
    <2> HIDE DEF len
    <2> QED
      BY <1>5, <2>1, <2>2 DEF KeptStep
  <1> QED
    BY <1>6, <1>7 DEF KeptBy

\* What is kept are the elements in S, each as often as in the list.
LEMMA KeptCounts ==
    ASSUME NEW A, NEW list \in Seq(A), NEW S
    PROVE  /\ Kept(list, S) \in Seq(A \cap S)
           /\ \A a : Occurrences(a, Kept(list, S))
                       = IF a \in S THEN Occurrences(a, list) ELSE 0
  <1> DEFINE len == Len(list)
             B == A \cap S
  <1>0. len \in Nat /\ \A n \in 1..len : list[n] \in A
    OBVIOUS
  <1>1. PICK c : KeptBy(c, list, S) /\ Kept(list, S) = c[len]
    BY KeptChain
  <1> DEFINE Good(n) == /\ c[n] \in Seq(B)
                        /\ \A a : Occurrences(a, c[n])
                                    = IF a \in S THEN Among(a, list, n) ELSE 0
             N == {n \in Nat : n <= len => Good(n)}
  <1>2. 0 \in N
    <2>1. c[0] = <<>>
      BY <1>1 DEF KeptBy
    <2>2. <<>> \in Seq(B) /\ <<>> \in Seq({})
      OBVIOUS
    <2>3. \A a : Occurrences(a, <<>>) = 0 /\ Among(a, list, 0) = 0
      BY <2>2, OccurrencesType, AmongStep
    <2> QED
      BY <2>1, <2>2, <2>3
  <1>3. ASSUME NEW n \in Nat, n \in N PROVE n + 1 \in N
    <2> SUFFICES ASSUME n + 1 <= len PROVE Good(n + 1)
      OBVIOUS
    <2>1. Good(n)
      BY <1>0, <1>3
    <2>2. /\ c[n + 1] = KeptStep(list, S, n + 1, c[n])
          /\ list[n + 1] \in A
      <3>1. n + 1 \in 1..len /\ (n + 1) - 1 = n
        BY <1>0
      <3> QED
        BY <1>0, <1>1, <3>1 DEF KeptBy
    <2>3. \A a : Among(a, list, n + 1)
                   = Among(a, list, n) + One(list[n + 1], a)
                 /\ Among(a, list, n) \in Nat
      BY AmongStep
    <2>4. CASE list[n + 1] \in S
      <3>1. c[n + 1] = Append(c[n], list[n + 1]) /\ list[n + 1] \in B
        BY <2>2, <2>4 DEF KeptStep
      <3>2. \A a : Occurrences(a, c[n + 1])
                     = Occurrences(a, c[n]) + One(list[n + 1], a)
        BY <2>1, <3>1, OccurrencesGrow
      <3>3. c[n + 1] \in Seq(B)
        <4> HIDE DEF B
        <4> QED
          BY <2>1, <3>1
      <3>4. ASSUME NEW a
            PROVE  Occurrences(a, c[n + 1])
                     = IF a \in S THEN Among(a, list, n + 1) ELSE 0
        <4>1. CASE a \in S
          BY <2>1, <2>3, <3>2, <4>1
        <4>2. CASE a \notin S
          BY <2>1, <2>4, <3>2, <4>2 DEF One
        <4> QED
          BY <4>1, <4>2
      <3> QED
        BY <3>3, <3>4
    <2>5. CASE list[n + 1] \notin S
      <3>1. c[n + 1] = c[n]
        BY <2>2, <2>5 DEF KeptStep
      <3> QED
        BY <2>1, <2>3, <2>5, <3>1 DEF One
    <2> QED
      BY <2>4, <2>5
  <1>4. \A n \in Nat : n \in N
    <2> HIDE DEF N
    <2> QED
      BY <1>2, <1>3, SetInduction
  <1>5. Good(len)
    BY <1>0, <1>4
  <1> QED
    BY <1>1, <1>5, OccurrencesAmong

\* The start of a list has no address more often than the list.
LEMMA PrefixCounts ==
    ASSUME NEW A, NEW list \in Seq(A), NEW m \in Nat, m <= Len(list)
    PROVE  /\ SubSeq(list, 1, m) \in Seq(A)
           /\ ToSet(SubSeq(list, 1, m)) \subseteq ToSet(list)
           /\ \A a : Occurrences(a, SubSeq(list, 1, m)) <= Occurrences(a, list)
  <1> DEFINE s == SubSeq(list, 1, m)
             len == Len(list)
  <1>1. len \in Nat /\ DOMAIN list = 1..len /\ \A i \in 1..len : list[i] \in A
    BY LenProperties, ElementOfSeq
  <1>2. s \in Seq(A) /\ Len(s) = m /\ \A i \in 1..m : s[i] = list[i]
    <2>1. \A i \in 1..m : list[i] \in A
      BY <1>1
    <2>2. /\ s \in Seq(A)
          /\ Len(s) = IF 1 <= m THEN m - 1 + 1 ELSE 0
          /\ \A i \in 1..(m - 1 + 1) : s[i] = list[1 + i - 1]
      BY <2>1, SubSeqProperties
    <2> HIDE DEF s
    <2>3. \A i \in 1..m : s[i] = list[i]
      <3> SUFFICES ASSUME NEW i \in 1..m PROVE s[i] = list[i]
        OBVIOUS
      <3>1. i \in 1..(m - 1 + 1) /\ 1 + i - 1 = i
        OBVIOUS
      <3> QED
        BY <2>2, <3>1
    <2> QED
      BY <2>2, <2>3
  <1> HIDE DEF s, len
  <1>3. DOMAIN s = 1..m
    BY <1>2, LenProperties
  <1>4. ToSet(s) \subseteq ToSet(list)
    <2>1. \A i \in 1..m : i \in 1..len
      BY <1>1 DEF len
    <2> QED
      BY <1>1, <1>2, <1>3, <2>1 DEF ToSet
  <1>5. ASSUME NEW a PROVE Occurrences(a, s) <= Occurrences(a, list)
    <2> DEFINE S == {i \in DOMAIN s : s[i] = a}
               T == {i \in DOMAIN list : list[i] = a}
    <2>1. \A i \in 1..m : i \in 1..len
      BY <1>1 DEF len
    <2>2. S \in SUBSET T
      BY <1>1, <1>2, <1>3, <2>1
    <2>3. IsFiniteSet(1..len) /\ T \in SUBSET (1..len)
      BY <1>1, FS_Interval
    <2> HIDE DEF S, T
    <2>4. IsFiniteSet(T)
      BY <2>3, FS_Subset
    <2>5. Cardinality(S) <= Cardinality(T)
      BY <2>2, <2>4, FS_Subset
    <2> QED
      BY <2>5 DEF S, T, Occurrences
  <1> QED
    BY <1>2, <1>4, <1>5 DEF s

\* A list of different elements has each of them once.
LEMMA DifferentCounts ==
    ASSUME NEW A, NEW list \in Seq(A), NEW a,
           \A i, j \in DOMAIN list : list[i] = list[j] => i = j
    PROVE  Occurrences(a, list) <= 1
  <1> DEFINE S == {i \in DOMAIN list : list[i] = a}
  <1>1. S = {} \/ \E x : S = {x}
    OBVIOUS
  <1> HIDE DEF S
  <1>2. Cardinality(S) \in {0, 1}
    BY <1>1, FS_EmptySet, FS_Singleton
  <1> QED
    BY <1>2 DEF S, Occurrences

\* A list has finitely many elements.
LEMMA ToSetFinite ==
    ASSUME NEW A, NEW list \in Seq(A)
    PROVE  IsFiniteSet(ToSet(list)) /\ ToSet(list) \subseteq A
  <1>1. /\ Len(list) \in Nat /\ DOMAIN list = 1..Len(list)
        /\ list \in [1..Len(list) -> A]
    BY LenProperties
  <1>2. PICK n, T : n = Len(list) /\ T = ToSet(list)
    OBVIOUS
  <1>3. /\ list \in [1..n -> T]
        /\ \A t \in T : \E i \in 1..n : list[i] = t
        /\ T \subseteq A
    BY <1>1, <1>2 DEF ToSet
  <1>4. list \in Surjection(1..n, T)
    BY <1>3 DEF Surjection
  <1>5. IsFiniteSet(1..n)
    BY <1>1, <1>2, FS_Interval
  <1>6. IsFiniteSet(T)
    BY <1>4, <1>5, FS_Surjection
  <1> QED
    BY <1>2, <1>3, <1>6

\* What a resend sends of a list.
LEMMA FittingCounts ==
    ASSUME NEW A, NEW list \in Seq(A), NEW m \in Nat
    PROVE  /\ Fitting(list, m) \in Seq(A)
           /\ ToSet(Fitting(list, m)) \subseteq ToSet(list)
           /\ \A a : Occurrences(a, Fitting(list, m)) <= Occurrences(a, list)
  <1>1. CASE Len(list) > m
    <2>1. Fitting(list, m) = SubSeq(list, 1, m) /\ m <= Len(list)
      BY <1>1, LenProperties DEF Fitting
    <2> QED
      BY <2>1, PrefixCounts
  <1>2. CASE ~(Len(list) > m)
    <2>1. Fitting(list, m) = list
      BY <1>2 DEF Fitting
    <2>2. \A a : Occurrences(a, list) \in Nat
      BY OccurrencesType
    <2> QED
      BY <2>1, <2>2
  <1> QED
    BY <1>1, <1>2

-----------------------------------------------------------------------------
(* The batches. *)

\* How often an address is in a list of batches.
InBatches(a, batches) ==
    SumFunctionOnSet([i \in DOMAIN batches |-> Occurrences(a, batches[i])],
                     DOMAIN batches)

LEMMA InBatchesGrow ==
    ASSUME NEW A, NEW batches \in Seq(Seq(A)), NEW batch \in Seq(A), NEW a
    PROVE  /\ InBatches(a, <<>>) = 0
           /\ InBatches(a, batches) \in Nat
           /\ InBatches(a, Append(batches, batch))
                = InBatches(a, batches) + Occurrences(a, batch)
  <1>1. PICK n, long : n = Len(batches) /\ long = Append(batches, batch)
    OBVIOUS
  <1>2. /\ n \in Nat /\ DOMAIN batches = 1..n /\ DOMAIN long = 1..(n + 1)
        /\ \A i \in 1..n : batches[i] \in Seq(A)
        /\ \A i \in 1..n : long[i] = batches[i]
        /\ long[n + 1] = batch
    <2>1. n \in Nat /\ DOMAIN batches = 1..n /\ \A i \in 1..n : batches[i] \in Seq(A)
      BY <1>1, LenProperties, ElementOfSeq
    <2>2. /\ long \in Seq(Seq(A)) /\ Len(long) = n + 1
          /\ \A i \in 1..n : long[i] = batches[i]
          /\ long[n + 1] = batch
      BY <1>1, AppendProperties
    <2>3. DOMAIN long = 1..(n + 1)
      BY <2>2, LenProperties
    <2> QED
      BY <2>1, <2>2, <2>3
  <1> DEFINE f == [i \in DOMAIN long |-> Occurrences(a, long[i])]
             g == [i \in DOMAIN batches |-> Occurrences(a, batches[i])]
  <1>3. \A i \in 1..n : g[i] \in Nat
    BY <1>2, OccurrencesType
  <1>4. \A i \in 1..n : i \in 1..(n + 1)
    BY <1>2
  <1>5. \A i \in 1..n : g[i] = f[i]
    BY <1>2, <1>4
  <1>6. n + 1 \in 1..(n + 1) /\ \A i \in 1..(n + 1) : i = n + 1 \/ i \in 1..n
    BY <1>2
  <1>7. f[n + 1] = Occurrences(a, batch)
    BY <1>2, <1>6
  <1>8. \A i \in 1..(n + 1) : f[i] \in Int
    <2>1. Occurrences(a, batch) \in Nat
      BY OccurrencesType
    <2> HIDE DEF f, g
    <2> QED
      BY <1>3, <1>5, <1>6, <1>7, <2>1
  <1>9. InBatches(a, long) = SumFunctionOnSet(f, 1..(n + 1))
    BY <1>2 DEF InBatches
  <1>10. InBatches(a, batches) = SumFunctionOnSet(g, 1..n)
    BY <1>2 DEF InBatches
  <1>11. InBatches(a, <<>>) = 0
    <2>1. DOMAIN <<>> = {}
      OBVIOUS
    <2> QED
      BY <2>1, SumEmpty DEF InBatches
  <1> HIDE DEF f, g
  <1>12. SumFunctionOnSet(f, 1..(n + 1)) = SumFunctionOnSet(g, 1..n) + f[n + 1]
    BY <1>2, <1>5, <1>8, SumLonger
  <1>13. SumFunctionOnSet(g, 1..n) \in Nat
    <2>1. IsFiniteSet(1..n)
      BY <1>2, FS_Interval
    <2> QED
      BY <1>3, <2>1, SumNatural
  <1> QED
    BY <1>1, <1>7, <1>9, <1>10, <1>11, <1>12, <1>13

\* Batched goes through the addresses.
BatchedBy(c, list, m) ==
    /\ c[0] = [full |-> <<>>, batch |-> <<>>]
    /\ \A n \in 1..Len(list) : c[n] = WithAddress(c[n - 1], list[n], m)

Splits(A) == [full : Seq(Seq(A)), batch : Seq(A)]

LEMMA WithAddressType ==
    ASSUME NEW A, NEW split \in Splits(A), NEW x \in A, NEW m
    PROVE  /\ WithAddress(split, x, m) \in Splits(A)
           /\ \/ /\ WithAddress(split, x, m).full
                      = Append(split.full, Append(split.batch, x))
                 /\ WithAddress(split, x, m).batch = <<>>
              \/ /\ WithAddress(split, x, m).full = split.full
                 /\ WithAddress(split, x, m).batch = Append(split.batch, x)
  <1>1. split.full \in Seq(Seq(A)) /\ split.batch \in Seq(A)
    BY DEF Splits
  <1>2. PICK b : b = Append(split.batch, x)
    OBVIOUS
  <1>3. b \in Seq(A) /\ <<>> \in Seq(A)
    BY <1>1, <1>2
  <1>4. Append(split.full, b) \in Seq(Seq(A))
    BY <1>1, <1>3, AppendProperties
  <1>5. CASE Len(b) >= m
    <2>1. WithAddress(split, x, m)
            = [full |-> Append(split.full, b), batch |-> <<>>]
      BY <1>2, <1>5 DEF WithAddress
    <2> QED
      BY <1>2, <1>3, <1>4, <2>1 DEF Splits
  <1>6. CASE ~(Len(b) >= m)
    <2>1. WithAddress(split, x, m) = [full |-> split.full, batch |-> b]
      BY <1>2, <1>6 DEF WithAddress
    <2> QED
      BY <1>1, <1>2, <1>3, <2>1 DEF Splits
  <1> QED
    BY <1>5, <1>6

LEMMA BatchedChain ==
    ASSUME NEW A, NEW list \in Seq(A), NEW m
    PROVE  \E c : /\ BatchedBy(c, list, m)
                  /\ Batched(list, m) = IF c[Len(list)].batch # <<>>
                                        THEN Append(c[Len(list)].full, c[Len(list)].batch)
                                        ELSE c[Len(list)].full
  <1> DEFINE len == Len(list)
             D == Splits(A)
             Is(s) == s = [n \in 0..len |->
                             IF n = 0 THEN [full |-> <<>>, batch |-> <<>>]
                             ELSE WithAddress(s[n - 1], list[n], m)]
             c == CHOOSE s : Is(s)
             F == [n \in Nat |-> [x \in D |->
                     IF n \in 1..len THEN WithAddress(x, list[n], m) ELSE x]]
             none == [full |-> <<>>, batch |-> <<>>]
  <1>0. len \in Nat /\ \A n \in 1..len : list[n] \in A
    BY LenProperties, ElementOfSeq
  <1>1. F \in [Nat -> [D -> D]]
    <2>1. \A n \in 1..len : \A x \in D : WithAddress(x, list[n], m) \in D
      BY <1>0, WithAddressType
    <2> HIDE DEF D, len
    <2> QED
      BY <2>1
  <1>2. PICK s \in [0..len -> D] : Follows(s, len, none, F)
    <2>1. none \in D
      BY DEF Splits
    <2> HIDE DEF F, len, D, none
    <2> QED
      BY <1>0, <1>1, <2>1, FiniteRecursion
  <1>3. \A n \in 1..len : s[n] = WithAddress(s[n - 1], list[n], m)
    <2> SUFFICES ASSUME NEW n \in 1..len
                 PROVE  s[n] = WithAddress(s[n - 1], list[n], m)
      OBVIOUS
    <2>2. n \in Nat /\ n - 1 \in 0..len
      <3> HIDE DEF len
      <3> QED
        BY <1>0
    <2> HIDE DEF D
    <2>1. s[n - 1] \in D
      BY <1>2, <2>2
    <2>3. s[n] = F[n][s[n - 1]]
      BY <1>2 DEF Follows
    <2> QED
      BY <2>1, <2>2, <2>3
  <1> HIDE DEF F
  <1>4. Is(s)
    <2>1. s[0] = none
      BY <1>2 DEF Follows
    <2>2. \A n \in 0..len : n # 0 => n \in 1..len
      BY <1>0
    <2> HIDE DEF len, D
    <2> QED
      BY <1>2, <1>3, <2>1, <2>2
  <1>5. Is(c)
    <2> HIDE DEF Is
    <2> QED
      BY <1>4
  <1>6. Batched(list, m) = IF c[len].batch # <<>>
                           THEN Append(c[len].full, c[len].batch) ELSE c[len].full
    BY DEF Batched
  <1> HIDE DEF c
  <1>7. c[0] = none /\ \A n \in 1..len : c[n] = WithAddress(c[n - 1], list[n], m)
    <2>1. c[0] = none
      BY <1>0, <1>5
    <2>2. \A n \in 1..len : n \in 0..len /\ n # 0
      BY <1>0
    <2> HIDE DEF len
    <2> QED
      BY <1>5, <2>1, <2>2
  <1> QED
    BY <1>6, <1>7 DEF BatchedBy

\* The batches hold the addresses, each as often as the list.
LEMMA BatchedCounts ==
    ASSUME NEW A, NEW list \in Seq(A), NEW m
    PROVE  /\ Batched(list, m) \in Seq(Seq(A))
           /\ \A a : InBatches(a, Batched(list, m)) = Occurrences(a, list)
  <1> DEFINE len == Len(list)
  <1>0. len \in Nat /\ \A n \in 1..len : list[n] \in A
    BY LenProperties, ElementOfSeq
  <1>1. PICK c : /\ BatchedBy(c, list, m)
                 /\ Batched(list, m) = IF c[len].batch # <<>>
                                       THEN Append(c[len].full, c[len].batch)
                                       ELSE c[len].full
    BY BatchedChain
  <1> DEFINE Right(n) == /\ c[n] \in Splits(A)
                         /\ \A a : InBatches(a, c[n].full) + Occurrences(a, c[n].batch)
                                     = Among(a, list, n)
             N == {n \in Nat : n <= len => Right(n)}
  <1>e. <<>> \in Seq(A) /\ <<>> \in Seq(Seq(A))
    OBVIOUS
  <1>2. 0 \in N
    <2>1. c[0] = [full |-> <<>>, batch |-> <<>>]
      BY <1>1 DEF BatchedBy
    <2>2. c[0] \in Splits(A) /\ c[0].full = <<>> /\ c[0].batch = <<>>
      BY <1>e, <2>1 DEF Splits
    <2>3. \A a : /\ Occurrences(a, <<>>) = 0 /\ Among(a, list, 0) = 0
                 /\ InBatches(a, <<>>) = 0
      BY <1>e, OccurrencesType, AmongStep, InBatchesGrow
    <2> QED
      BY <2>2, <2>3
  <1>3. ASSUME NEW n \in Nat, n \in N PROVE n + 1 \in N
    <2> SUFFICES ASSUME n + 1 <= len PROVE Right(n + 1)
      OBVIOUS
    <2>1. Right(n)
      BY <1>0, <1>3
    <2>2. PICK p, q, x : p = c[n] /\ q = c[n + 1] /\ x = list[n + 1]
      OBVIOUS
    <2>3. x \in A /\ q = WithAddress(p, x, m) /\ p \in Splits(A)
      <3>1. n + 1 \in 1..len /\ (n + 1) - 1 = n
        BY <1>0
      <3> QED
        BY <1>0, <1>1, <2>1, <2>2, <3>1 DEF BatchedBy
    <2>4. /\ q \in Splits(A)
          /\ \/ q.full = Append(p.full, Append(p.batch, x)) /\ q.batch = <<>>
             \/ q.full = p.full /\ q.batch = Append(p.batch, x)
      BY <2>3, WithAddressType
    <2>5. p.full \in Seq(Seq(A)) /\ p.batch \in Seq(A)
      BY <2>3 DEF Splits
    <2>6. ASSUME NEW a
          PROVE  InBatches(a, q.full) + Occurrences(a, q.batch) = Among(a, list, n + 1)
      <3>1. PICK b : b = Append(p.batch, x)
        OBVIOUS
      <3>2. b \in Seq(A) /\ Occurrences(a, b) = Occurrences(a, p.batch) + One(x, a)
        BY <2>3, <2>5, <3>1, OccurrencesGrow
      <3>3. InBatches(a, Append(p.full, b)) = InBatches(a, p.full) + Occurrences(a, b)
        BY <2>5, <3>2, InBatchesGrow
      <3>4. /\ Occurrences(a, <<>>) = 0 /\ Occurrences(a, b) \in Nat
            /\ Occurrences(a, p.batch) \in Nat
        BY <2>5, <3>2, OccurrencesType
      <3>5. InBatches(a, p.full) \in Nat
        BY <2>5, InBatchesGrow
      <3>6. InBatches(a, p.full) + Occurrences(a, p.batch) = Among(a, list, n)
        BY <2>1, <2>2
      <3>7. Among(a, list, n + 1) = Among(a, list, n) + One(x, a)
        BY <2>2, AmongStep
      <3>8. One(x, a) \in Nat
        BY DEF One
      <3>9. PICK i, o, l : /\ i = InBatches(a, p.full)
                           /\ o = Occurrences(a, p.batch)
                           /\ l = Among(a, list, n)
        OBVIOUS
      <3>10. CASE q.full = Append(p.full, b) /\ q.batch = <<>>
        <4>1. /\ InBatches(a, q.full) = i + (o + One(x, a))
              /\ Occurrences(a, q.batch) = 0
          BY <3>2, <3>3, <3>4, <3>9, <3>10
        <4> QED
          BY <3>4, <3>5, <3>6, <3>7, <3>8, <3>9, <4>1
      <3>11. CASE q.full = p.full /\ q.batch = b
        <4>1. InBatches(a, q.full) = i /\ Occurrences(a, q.batch) = o + One(x, a)
          BY <3>2, <3>9, <3>11
        <4> QED
          BY <3>4, <3>5, <3>6, <3>7, <3>8, <3>9, <4>1
      <3> QED
        BY <2>4, <3>1, <3>10, <3>11
    <2> QED
      BY <2>2, <2>4, <2>6
  <1>4. \A n \in Nat : n \in N
    <2> HIDE DEF N
    <2> QED
      BY <1>2, <1>3, SetInduction
  <1>5. Right(len)
    BY <1>0, <1>4
  <1>6. PICK p : p = c[len]
    OBVIOUS
  <1>7. p.full \in Seq(Seq(A)) /\ p.batch \in Seq(A)
    BY <1>5, <1>6 DEF Splits
  <1>8. \A a : InBatches(a, p.full) + Occurrences(a, p.batch) = Occurrences(a, list)
    BY <1>5, <1>6, OccurrencesAmong
  <1>9. CASE p.batch # <<>>
    <2>1. Batched(list, m) = Append(p.full, p.batch)
      BY <1>1, <1>6, <1>9
    <2>2. Append(p.full, p.batch) \in Seq(Seq(A))
      BY <1>7, AppendProperties
    <2>3. \A a : InBatches(a, Append(p.full, p.batch))
                   = InBatches(a, p.full) + Occurrences(a, p.batch)
      BY <1>7, InBatchesGrow
    <2> QED
      BY <1>8, <2>1, <2>2, <2>3
  <1>10. CASE p.batch = <<>>
    <2>1. Batched(list, m) = p.full
      BY <1>1, <1>6, <1>10
    <2>2. \A a : Occurrences(a, <<>>) = 0 /\ InBatches(a, p.full) \in Nat
      BY <1>7, <1>e, OccurrencesType, InBatchesGrow
    <2> QED
      BY <1>7, <1>8, <1>10, <2>1, <2>2
  <1> QED
    BY <1>9, <1>10

-----------------------------------------------------------------------------
(* The shape of the state. *)

Batches == Seq([sig : Nat, batch : Seq(Addresses)])
Signed == Seq([to : Seq(Payable), status : Statuses])

LEMMA QualifiedType ==
    ASSUME NEW batch \in Seq(Addresses)
    PROVE  Qualified(batch) \in Seq(Payable)
  <1>1. Kept(batch, Payable) \in Seq(Addresses \cap Payable)
    BY KeptCounts
  <1>2. Addresses \cap Payable = Payable
    BY DEF Payable
  <1> QED
    BY <1>1, <1>2 DEF Qualified, Payable

\* What is done to the transactions: none is lost.
LEMMA TxsGrow ==
    ASSUME txs \in Signed, NEW to \in Seq(Payable), NEW sig, sig = Len(txs) + 1,
           txs' = Append(txs, [to |-> to, status |-> "sent"])
    PROVE  /\ txs' \in Signed
           /\ sig \in Nat /\ DOMAIN txs = 1..Len(txs) /\ Len(txs) \in Nat
           /\ DOMAIN txs' = 1..(Len(txs) + 1)
           /\ DOMAIN txs' = DOMAIN txs \cup {sig} /\ sig \notin DOMAIN txs
           /\ \A i \in DOMAIN txs : txs'[i] = txs[i]
           /\ txs'[sig] = [to |-> to, status |-> "sent"]
  <1> DEFINE tx == [to |-> to, status |-> "sent"]
             Tx == [to : Seq(Payable), status : Statuses]
  <1>1. tx \in Tx
    BY DEF Statuses
  <1>2. txs \in Seq(Tx)
    BY DEF Signed
  <1> HIDE DEF tx, Tx
  <1>3. /\ txs' \in Seq(Tx) /\ Len(txs') = Len(txs) + 1
        /\ \A i \in 1..Len(txs) : txs'[i] = txs[i]
        /\ txs'[Len(txs) + 1] = tx
    BY <1>1, <1>2, AppendProperties DEF tx
  <1>4. Len(txs) \in Nat /\ DOMAIN txs = 1..Len(txs)
    BY <1>2, LenProperties
  <1>5. DOMAIN txs' = 1..(Len(txs) + 1)
    BY <1>3, LenProperties
  <1>6. 1..(Len(txs) + 1) = 1..Len(txs) \cup {sig} /\ sig \notin 1..Len(txs)
    BY <1>4
  <1> QED
    BY <1>3, <1>4, <1>5, <1>6 DEF tx, Tx, Signed

LEMMA TxsProgress ==
    ASSUME txs \in Signed, NEW sig \in DOMAIN txs, NEW status \in Statuses,
           txs' = [txs EXCEPT ![sig].status = status]
    PROVE  /\ txs' \in Signed
           /\ DOMAIN txs' = DOMAIN txs
           /\ \A i \in DOMAIN txs \ {sig} : txs'[i] = txs[i]
           /\ txs'[sig].to = txs[sig].to
           /\ txs'[sig].status = status
           /\ txs[sig].to \in Seq(Payable)
  <1> DEFINE Tx == [to : Seq(Payable), status : Statuses]
             tx == [txs[sig] EXCEPT !.status = status]
  <1>1. txs \in Seq(Tx) /\ DOMAIN txs = 1..Len(txs)
    BY LenProperties DEF Signed
  <1>2. txs[sig] \in Tx
    BY <1>1, ElementOfSeq
  <1>3. /\ tx \in Tx /\ tx.to = txs[sig].to /\ tx.status = status
        /\ txs[sig].to \in Seq(Payable)
    BY <1>2
  <1>4. txs' = [txs EXCEPT ![sig] = tx]
    OBVIOUS
  <1> HIDE DEF tx, Tx
  <1>5. /\ txs' \in Seq(Tx) /\ Len(txs') = Len(txs)
        /\ \A i \in 1..Len(txs) : txs'[i] = IF i = sig THEN tx ELSE txs[i]
    BY <1>1, <1>3, <1>4, ExceptSeq
  <1>6. DOMAIN txs' = DOMAIN txs
    BY <1>1, <1>4
  <1> QED
    BY <1>1, <1>3, <1>5, <1>6 DEF Signed, Tx

\* A record stays one while transactions are added, and when what is sent is
\* noted.
LEMMA RecordStays ==
    ASSUME NEW map, IsRecord(map), DOMAIN txs \subseteq DOMAIN txs'
    PROVE  /\ IsFiniteSet(DOMAIN map) /\ DOMAIN map \subseteq Payable
           /\ \A a \in DOMAIN map : map[a] \in DOMAIN txs'
  BY DEF IsRecord

\* The lists of a set are lists without repetition.
LEMMA ListsOfSet ==
    ASSUME NEW S, IsFiniteSet(S), NEW list \in SetToSeqs(S)
    PROVE  /\ list \in Seq(S) /\ DOMAIN list = 1..Len(list)
           /\ \A i, j \in DOMAIN list : list[i] = list[j] => i = j
  <1>1. PICK n : n = Cardinality(S)
    OBVIOUS
  <1>2. n \in Nat
    BY <1>1, FS_CardinalityType
  <1>3. /\ list \in [1..n -> S]
        /\ \A i, j \in 1..n : i # j => list[i] # list[j]
    BY <1>1 DEF SetToSeqs
  <1>4. list \in Seq(S)
    BY <1>2, <1>3
  <1>5. DOMAIN list = 1..Len(list)
    BY <1>4, LenProperties
  <1> QED
    BY <1>3, <1>4, <1>5

\* Batches that replace nothing.
Tagged(batches) == [i \in DOMAIN batches |-> [sig |-> 0, batch |-> batches[i]]]

LEMMA TaggedCounts ==
    ASSUME NEW A, NEW batches \in Seq(Seq(A)), NEW list, list = Tagged(batches)
    PROVE  /\ list \in Seq([sig : Nat, batch : Seq(A)])
           /\ \A a : Listed(a, list) = InBatches(a, batches)
  <1> DEFINE B == [sig : Nat, batch : Seq(A)]
  <1>1. PICK n : n = Len(batches)
    OBVIOUS
  <1>2. /\ n \in Nat /\ DOMAIN batches = 1..n
        /\ \A i \in 1..n : batches[i] \in Seq(A)
    BY <1>1, LenProperties, ElementOfSeq
  <1>3. DOMAIN list = 1..n /\ list = [i \in 1..n |-> list[i]]
    BY <1>2 DEF Tagged
  <1>4. ASSUME NEW i \in 1..n
        PROVE  list[i] \in B /\ list[i].batch = batches[i]
    <2>1. list[i] = [sig |-> 0, batch |-> batches[i]]
      BY <1>2 DEF Tagged
    <2>2. PICK b : b = batches[i]
      OBVIOUS
    <2>3. b \in Seq(A)
      BY <1>2, <2>2
    <2> QED
      BY <2>1, <2>2, <2>3
  <1> HIDE DEF B
  <1>5. list \in [1..n -> B]
    BY <1>3, <1>4
  <1>6. n \in Nat
    BY <1>2
  <1>7. list \in Seq(B)
    BY <1>5, <1>6
  <1>8. ASSUME NEW a PROVE Listed(a, list) = InBatches(a, batches)
    <2> DEFINE f == [i \in DOMAIN list |-> Occurrences(a, list[i].batch)]
               g == [i \in DOMAIN batches |-> Occurrences(a, batches[i])]
    <2>1. f = g
      BY <1>2, <1>3, <1>4
    <2> QED
      BY <1>2, <1>3, <2>1 DEF Listed, InBatches
  <1> QED
    BY <1>7, <1>8 DEF B

\* The batches of a mass-send.
LEMMA MassSendBatches ==
    ASSUME csv \in Seq(Addresses), NEW m, NEW list,
           list = Tagged(Batched(Kept(csv, Addresses \ DOMAIN record), m))
    PROVE  /\ list \in Batches
           /\ \A a \in Addresses :
                 Listed(a, list) = IF a \in DOMAIN record THEN 0 ELSE Occurrences(a, csv)
  <1>1. PICK A, unsent, batches : /\ A = Addresses \ DOMAIN record
                                  /\ unsent = Kept(csv, A)
                                  /\ batches = Batched(unsent, m)
    OBVIOUS
  <1>2. /\ unsent \in Seq(Addresses \cap A)
        /\ \A a : Occurrences(a, unsent) = IF a \in A THEN Occurrences(a, csv) ELSE 0
    <2>1. /\ Kept(csv, A) \in Seq(Addresses \cap A)
          /\ \A a : Occurrences(a, Kept(csv, A))
                      = IF a \in A THEN Occurrences(a, csv) ELSE 0
      BY KeptCounts
    <2> QED
      BY <1>1, <2>1
  <1>3. unsent \in Seq(Addresses)
    <2>1. Addresses \cap A \subseteq Addresses
      OBVIOUS
    <2> QED
      BY <1>2, <2>1, SeqMonotonic
  <1>4. /\ batches \in Seq(Seq(Addresses))
        /\ \A a : InBatches(a, batches) = Occurrences(a, unsent)
    BY <1>1, <1>3, BatchedCounts
  <1>5. list = Tagged(batches)
    BY <1>1
  <1>6. /\ list \in Batches
        /\ \A a : Listed(a, list) = InBatches(a, batches)
    BY <1>4, <1>5, TaggedCounts DEF Batches
  <1> QED
    BY <1>1, <1>2, <1>4, <1>6

\* Groups of the addresses recorded for some signatures.
Grouped(list, sigs) ==
    /\ DOMAIN list = DOMAIN sigs
    /\ \A i \in DOMAIN list :
          /\ list[i].sig = sigs[i]
          /\ ToSet(list[i].batch) \subseteq Recorded(sigs[i])
          /\ \A a : Occurrences(a, list[i].batch) <= 1

LEMMA ResendGroups ==
    ASSUME IsRecord(record), DOMAIN txs \subseteq Nat,
           NEW m \in Nat,
           NEW order \in SetToSeqs(DOMAIN record),
           NEW sigs \in Seq(DOMAIN txs),
           NEW list, list = [i \in DOMAIN sigs |->
                               [sig |-> sigs[i],
                                batch |-> Fitting(Kept(order, Recorded(sigs[i])), m)]]
    PROVE  list \in Batches /\ Grouped(list, sigs)
  <1> DEFINE D == DOMAIN record
             B == [sig : Nat, batch : Seq(Addresses)]
  <1>1. IsFiniteSet(D) /\ D \subseteq Addresses
    BY DEF IsRecord, Payable
  <1>2. /\ order \in Seq(D)
        /\ \A i, j \in DOMAIN order : order[i] = order[j] => i = j
    <2> HIDE DEF D
    <2>1. order \in SetToSeqs(D)
      BY DEF D
    <2> QED
      BY <1>1, <2>1, ListsOfSet
  <1> HIDE DEF D
  <1>3. \A a : Occurrences(a, order) <= 1
    BY <1>2, DifferentCounts
  <1>4. PICK n : n = Len(sigs)
    OBVIOUS
  <1>5. n \in Nat /\ DOMAIN sigs = 1..n /\ \A i \in 1..n : sigs[i] \in Nat
    BY <1>4, LenProperties, ElementOfSeq
  <1>6. ASSUME NEW i \in 1..n
        PROVE  /\ list[i] \in B
               /\ list[i].sig = sigs[i]
               /\ ToSet(list[i].batch) \subseteq Recorded(sigs[i])
               /\ \A a : Occurrences(a, list[i].batch) <= 1
    <2>1. PICK R, k, b : R = Recorded(sigs[i]) /\ k = Kept(order, R) /\ b = Fitting(k, m)
      OBVIOUS
    <2>2. list[i] = [sig |-> sigs[i], batch |-> b]
      BY <1>5, <2>1
    <2>3. /\ k \in Seq(D \cap R)
          /\ \A a : Occurrences(a, k) = IF a \in R THEN Occurrences(a, order) ELSE 0
      <3>1. order \in Seq(D) /\ k = Kept(order, R)
        BY <1>2, <2>1
      <3> QED
        BY ONLY <3>1, KeptCounts
    <2>4. /\ b \in Seq(D \cap R)
          /\ \A a : Occurrences(a, b) <= Occurrences(a, k)
      <3>1. PICK A : A = D \cap R
        OBVIOUS
      <3>2. k \in Seq(A) /\ b = Fitting(k, m) /\ m \in Nat
        BY <2>1, <2>3, <3>1
      <3>3. b \in Seq(A) /\ \A a : Occurrences(a, b) <= Occurrences(a, k)
        BY ONLY <3>2, FittingCounts
      <3> QED
        BY ONLY <3>1, <3>3
    <2>5. b \in Seq(Addresses)
      <3>1. D \cap R \subseteq Addresses
        BY <1>1
      <3> QED
        BY <2>4, <3>1, SeqMonotonic
    <2>6. ToSet(b) \subseteq R
      BY <2>4, ToSetFinite
    <2>7. ASSUME NEW a PROVE Occurrences(a, b) <= 1
      <3>1. Occurrences(a, b) \in Nat /\ Occurrences(a, k) \in Nat
            /\ Occurrences(a, order) \in Nat
        BY <1>2, <2>3, <2>4, OccurrencesType
      <3>2. Occurrences(a, k) <= 1
        BY <1>3, <2>3, <3>1
      <3> QED
        BY <2>4, <3>1, <3>2
    <2>8. list[i] \in B
      BY <1>5, <2>2, <2>5
    <2>9. list[i].sig = sigs[i] /\ list[i].batch = b
      BY <2>2
    <2> HIDE DEF B
    <2> QED
      BY <2>1, <2>6, <2>7, <2>8, <2>9
  <1>7. list \in [1..n -> B] /\ DOMAIN list = 1..n
    <2>1. list = [i \in 1..n |-> list[i]]
      BY <1>5
    <2> HIDE DEF B
    <2> QED
      BY <1>6, <2>1
  <1>8. list \in Seq(B)
    <2> HIDE DEF B
    <2> QED
      BY <1>5, <1>7
  <1> QED
    BY <1>5, <1>6, <1>7, <1>8 DEF Batches, Grouped

\* What is sent is noted for the addresses it is sent to.
WithNote(map, to, sig) ==
    [a \in DOMAIN map \cup ToSet(to) |-> IF a \in ToSet(to) THEN sig ELSE map[a]]

LEMMA NoteIsRecord ==
    ASSUME txs \in Signed, IsRecord(sent), NEW to \in Seq(Payable),
           NEW sig, sig = Len(txs) + 1,
           txs' = Append(txs, [to |-> to, status |-> "sent"]),
           sent' = WithNote(sent, to, sig)
    PROVE  IsRecord(sent)'
  <1>1. DOMAIN txs' = DOMAIN txs \cup {sig}
    BY TxsGrow
  <1>2. IsFiniteSet(ToSet(to)) /\ ToSet(to) \subseteq Payable
    BY ToSetFinite
  <1>3. PICK S : S = ToSet(to)
    OBVIOUS
  <1>4. /\ DOMAIN sent' = DOMAIN sent \cup S
        /\ \A a \in DOMAIN sent' : sent'[a] = IF a \in S THEN sig ELSE sent[a]
    BY <1>3 DEF WithNote
  <1>5. IsFiniteSet(DOMAIN sent) /\ DOMAIN sent \subseteq Payable
        /\ \A a \in DOMAIN sent : sent[a] \in DOMAIN txs
    BY DEF IsRecord
  <1>6. IsFiniteSet(DOMAIN sent \cup S)
    BY <1>2, <1>3, <1>5, FS_Union
  <1>7. \A a \in DOMAIN sent' : sent'[a] \in DOMAIN txs'
    BY <1>1, <1>4, <1>5
  <1> QED
    BY <1>2, <1>3, <1>4, <1>5, <1>6, <1>7 DEF IsRecord

\* What one batch may do.
Sends(to, sig) ==
    /\ txs' = Append(txs, [to |-> to, status |-> "sent"])
    /\ sent' = WithNote(sent, to, sig)
    /\ unsaved' = TRUE
    /\ disturbed' = disturbed
Fails(to) ==
    /\ txs' = txs \/ txs' = Append(txs, [to |-> to, status |-> "sent"])
    /\ sent' = sent
    /\ unsaved' = unsaved
    /\ disturbed' = TRUE

LEMMA SendBatchCases ==
    ASSUME NEW batch, SendBatch(batch)
    PROVE  /\ Sends(Qualified(batch), Len(txs) + 1) \/ Fails(Qualified(batch))
           /\ todo' = Tail(todo)
           /\ csv' = csv /\ record' = record /\ command' = command
  BY DEF SendBatch, Sends, Fails, WithNote

LEMMA TailOfTodo ==
    ASSUME todo \in Batches, todo # <<>>
    PROVE  /\ Tail(todo) \in Batches /\ Head(todo) = todo[1]
           /\ todo[1].batch \in Seq(Addresses)
           /\ \E n \in Nat :
                 /\ DOMAIN todo = 1..(n + 1) /\ DOMAIN Tail(todo) = 1..n
                 /\ \A i \in 1..n : Tail(todo)[i] = todo[i + 1]
  <1> DEFINE B == [sig : Nat, batch : Seq(Addresses)]
  <1>1. todo \in Seq(B)
    BY DEF Batches
  <1>2. todo[1] \in B => todo[1].batch \in Seq(Addresses)
    OBVIOUS
  <1> HIDE DEF B
  <1>3. /\ Tail(todo) \in Seq(B) /\ Len(Tail(todo)) = Len(todo) - 1
        /\ \A i \in 1..Len(Tail(todo)) : Tail(todo)[i] = todo[i + 1]
    BY <1>1, HeadTailProperties
  <1>4. Head(todo) = todo[1]
    OBVIOUS
  <1>5. Len(todo) \in Nat \ {0} /\ DOMAIN todo = 1..Len(todo)
    BY <1>1, EmptySeq, LenProperties
  <1>6. todo[1] \in B
    BY <1>1, <1>5, ElementOfSeq
  <1>7. DOMAIN Tail(todo) = 1..Len(Tail(todo))
    BY <1>3, LenProperties
  <1>8. PICK n : n = Len(todo) - 1
    OBVIOUS
  <1>9. n \in Nat /\ n + 1 = Len(todo) /\ n = Len(Tail(todo))
    BY <1>3, <1>5, <1>8
  <1> QED
    BY <1>2, <1>3, <1>4, <1>5, <1>6, <1>7, <1>9 DEF Batches, B

\* One batch is sent, or not.
LEMMA SendBatchShape ==
    ASSUME ShapeInv, NEW batch \in Seq(Addresses), todo # <<>>,
           command # "idle", unsaved = FALSE, SendBatch(batch)
    PROVE  ShapeInv'
  <1>1. PICK to : to = Qualified(batch)
    OBVIOUS
  <1>2. to \in Seq(Payable)
    BY <1>1, QualifiedType
  <1>3. /\ Sends(to, Len(txs) + 1) \/ Fails(to)
        /\ todo' = Tail(todo)
        /\ csv' = csv /\ record' = record /\ command' = command
    BY <1>1, SendBatchCases
  <1>4. /\ csv \in Seq(Addresses) /\ txs \in Signed /\ todo \in Batches
        /\ IsRecord(record) /\ IsRecord(sent) /\ sent = record
        /\ command \in {"idle", "mass_send", "resend"}
    BY DEF ShapeInv, Signed, Batches
  <1>5. todo' \in Batches
    BY <1>3, <1>4, TailOfTodo
  <1>6. CASE txs' = Append(txs, [to |-> to, status |-> "sent"])
    <2>1. txs' \in Signed /\ DOMAIN txs \subseteq DOMAIN txs'
      BY <1>2, <1>4, <1>6, TxsGrow
    <2>2. IsRecord(record)'
      BY <1>3, <1>4, <2>1, RecordStays DEF IsRecord
    <2>3. IsRecord(sent)' /\ unsaved' \in BOOLEAN
          /\ (unsaved' = FALSE => sent' = record')
      <3>1. CASE Sends(to, Len(txs) + 1)
        BY <1>2, <1>4, <3>1, NoteIsRecord DEF Sends
      <3>2. CASE Fails(to)
        BY <1>3, <1>4, <2>1, <3>2, RecordStays DEF IsRecord, Fails
      <3> QED
        BY <1>3, <3>1, <3>2
    <2> QED
      BY <1>3, <1>4, <1>5, <2>1, <2>2, <2>3 DEF ShapeInv, Signed, Batches
  <1>7. CASE txs' = txs /\ Fails(to)
    BY <1>3, <1>4, <1>5, <1>7 DEF ShapeInv, Signed, Batches, IsRecord, Fails
  <1> QED
    BY <1>3, <1>6, <1>7 DEF Sends, Fails

\* The signatures that the record has.
LEMMA RecordedSignatures ==
    ASSUME txs \in Signed, IsRecord(record),
           NEW sigs \in SetToSeqs({record[a] : a \in DOMAIN record})
    PROVE  /\ DOMAIN txs \subseteq Nat
           /\ sigs \in Seq(DOMAIN txs)
           /\ \A i, j \in DOMAIN sigs : sigs[i] = sigs[j] => i = j
  <1>1. PICK S : S = {record[a] : a \in DOMAIN record}
    OBVIOUS
  <1>2. S \in SUBSET DOMAIN txs
    BY <1>1 DEF IsRecord
  <1>3. DOMAIN txs = 1..Len(txs) /\ Len(txs) \in Nat
    BY LenProperties DEF Signed
  <1>4. IsFiniteSet(DOMAIN txs)
    BY <1>3, FS_Interval
  <1>5. IsFiniteSet(S)
    BY <1>2, <1>4, FS_Subset
  <1>6. sigs \in SetToSeqs(S)
    BY <1>1
  <1>7. sigs \in Seq(S) /\ \A i, j \in DOMAIN sigs : sigs[i] = sigs[j] => i = j
    BY <1>5, <1>6, ListsOfSet
  <1>8. sigs \in Seq(DOMAIN txs)
    BY <1>2, <1>7, SeqMonotonic
  <1> QED
    BY <1>3, <1>7, <1>8

\* Every step keeps the shape.
LEMMA NextShape ==
    ASSUME ShapeInv, [Next]_vars
    PROVE  ShapeInv'
  <1>0. /\ csv \in Seq(Addresses) /\ txs \in Signed /\ todo \in Batches
        /\ IsRecord(record) /\ IsRecord(sent)
        /\ command \in {"idle", "mass_send", "resend"}
        /\ unsaved \in BOOLEAN
        /\ (command = "idle" => unsaved = FALSE /\ todo = <<>>)
        /\ (command # "idle" /\ unsaved = FALSE => sent = record)
    BY DEF ShapeInv, Signed, Batches
  <1>e. <<>> \in Batches /\ IsRecord(<<>>)
    <2>1. DOMAIN <<>> = {}
      OBVIOUS
    <2> QED
      BY <2>1, FS_EmptySet DEF IsRecord, Batches
  <1>1. ASSUME NEW m \in Limits, StartMassSend(m)
        PROVE  ShapeInv'
    <2>1. /\ todo' = Tagged(Batched(Kept(csv, Addresses \ DOMAIN record), m))
          /\ Start("mass_send")
      BY <1>1 DEF StartMassSend, Tagged
    <2>2. todo' \in Batches
      BY <1>0, <2>1, MassSendBatches
    <2> QED
      BY <1>0, <2>1, <2>2 DEF ShapeInv, Start, Signed, Batches, IsRecord
  <1>2. ASSUME NEW m \in Limits, StartResend(m)
        PROVE  ShapeInv'
    <2>1. PICK list \in SetToSeqs(DOMAIN record),
               sigs \in SetToSeqs({record[a] : a \in DOMAIN record}) :
                 todo' = [i \in DOMAIN sigs |->
                            [sig |-> sigs[i],
                             batch |-> Fitting(Kept(list, Recorded(sigs[i])), m)]]
      BY <1>2 DEF StartResend
    <2>2. DOMAIN txs \subseteq Nat /\ sigs \in Seq(DOMAIN txs)
      BY <1>0, RecordedSignatures
    <2>3. m \in Nat
      BY MassSendAssumption
    <2>4. todo' \in Batches
      BY <1>0, <2>1, <2>2, <2>3, ResendGroups
    <2>5. Start("resend")
      BY <1>2 DEF StartResend
    <2> QED
      BY <1>0, <2>4, <2>5 DEF ShapeInv, Start, Signed, Batches, IsRecord
  <1>3. CASE SendNextBatch
    <2>1. /\ todo # <<>> /\ command # "idle" /\ unsaved = FALSE
          /\ SendBatch(Head(todo).batch)
      BY <1>0, <1>3 DEF SendNextBatch
    <2>2. Head(todo).batch \in Seq(Addresses)
      BY <1>0, <2>1, TailOfTodo
    <2> QED
      BY <2>1, <2>2, SendBatchShape
  <1>4. CASE ResendNextGroup
    <2>1. /\ todo # <<>> /\ command # "idle" /\ unsaved = FALSE
          /\ \/ SendBatch(Head(todo).batch)
             \/ /\ todo' = Tail(todo)
                /\ UNCHANGED <<csv, record, txs, command, sent, unsaved>>
      BY <1>0, <1>4 DEF ResendNextGroup
    <2>2. Head(todo).batch \in Seq(Addresses) /\ Tail(todo) \in Batches
      BY <1>0, <2>1, TailOfTodo
    <2>3. CASE SendBatch(Head(todo).batch)
      BY <2>1, <2>2, <2>3, SendBatchShape
    <2>4. CASE /\ todo' = Tail(todo)
               /\ UNCHANGED <<csv, record, txs, command, sent, unsaved>>
      BY <1>0, <2>1, <2>2, <2>4 DEF ShapeInv, Signed, Batches, IsRecord
    <2> QED
      BY <2>1, <2>3, <2>4
  <1>5. CASE WriteRecord
    BY <1>0, <1>5 DEF WriteRecord, ShapeInv, Signed, Batches, IsRecord
  <1>6. CASE Crash
    <2>1. /\ csv' = csv /\ txs' = txs /\ todo' = <<>> /\ record' = record
          /\ sent' = <<>> /\ command' = "idle" /\ unsaved' = FALSE
      BY <1>6 DEF Crash
    <2>2. IsRecord(sent)' /\ IsRecord(record)'
      BY <1>0, <1>e, <2>1 DEF IsRecord
    <2> QED
      BY <1>0, <1>e, <2>1, <2>2 DEF ShapeInv, Signed, Batches
  <1>7. CASE Finish
    <2>1. /\ csv' = csv /\ txs' = txs /\ todo' = <<>> /\ record' = record
          /\ sent' = <<>> /\ command' = "idle" /\ unsaved' = FALSE
      BY <1>0, <1>7 DEF Finish
    <2>2. IsRecord(sent)' /\ IsRecord(record)'
      BY <1>0, <1>e, <2>1 DEF IsRecord
    <2> QED
      BY <1>0, <1>e, <2>1, <2>2 DEF ShapeInv, Signed, Batches
  <1>8. ASSUME NEW sig \in DOMAIN txs,
               NEW status \in {"confirmed", "failed", "expired", "finalized"},
               Progress(sig, status)
        PROVE  ShapeInv'
    <2>1. /\ status \in Statuses
          /\ txs' = [txs EXCEPT ![sig].status = status]
          /\ UNCHANGED <<csv, record, command, sent, todo, unsaved>>
      BY <1>8 DEF Progress, Statuses
    <2>2. txs' \in Signed /\ DOMAIN txs' = DOMAIN txs
      BY <1>0, <2>1, TxsProgress
    <2> QED
      BY <1>0, <2>1, <2>2 DEF ShapeInv, Signed, Batches, IsRecord
  <1>9. CASE UNCHANGED vars
    BY <1>0, <1>9 DEF ShapeInv, Signed, Batches, IsRecord, vars
  <1> QED
    BY <1>1, <1>2, <1>3, <1>4, <1>5, <1>6, <1>7, <1>8, <1>9 DEF Next

LEMMA InitShape ==
    ASSUME Init
    PROVE  ShapeInv
  <1>1. PICK n \in 1..MaxRows : csv \in [1..n -> Addresses]
    BY DEF Init
  <1>2. csv \in Seq(Addresses)
    <2>1. n \in Nat
      BY <1>1, MassSendAssumption
    <2> QED
      BY <1>1, <2>1
  <1>3. DOMAIN <<>> = {}
    OBVIOUS
  <1>4. IsRecord(record) /\ IsRecord(sent)
    BY <1>3, FS_EmptySet DEF Init, IsRecord
  <1>5. /\ txs \in Seq([to : Seq(Payable), status : Statuses])
        /\ todo \in Seq([sig : Nat, batch : Seq(Addresses)])
    BY EmptySeq DEF Init
  <1>6. command = "idle" /\ unsaved = FALSE /\ todo = <<>>
    BY DEF Init
  <1> QED
    BY <1>2, <1>4, <1>5, <1>6 DEF ShapeInv

\* The record and the copy of a running command hold public keys and
\* signatures of transactions that were signed, and the copy is the file but
\* for the last transaction, for every CSV, batch size and sequence of commands,
\* failing calls and crashes.
THEOREM MassSendTypes == Spec => []TypeOK
  <1>1. ShapeInv => TypeOK
    <2> SUFFICES ASSUME ShapeInv PROVE TypeOK
      OBVIOUS
    <2>1. txs \in Signed
      BY DEF ShapeInv, Signed
    <2>2. \A sig \in DOMAIN txs : txs[sig].status \in Statuses
      <3> DEFINE Tx == [to : Seq(Payable), status : Statuses]
      <3>1. \A tx \in Tx : tx.status \in Statuses
        OBVIOUS
      <3> HIDE DEF Tx
      <3>2. txs \in Seq(Tx)
        BY <2>1 DEF Signed, Tx
      <3>3. \A sig \in DOMAIN txs : txs[sig] \in Tx
        BY <3>2, LenProperties, ElementOfSeq
      <3> QED
        BY <3>1, <3>3
    <2> QED
      BY <2>2 DEF ShapeInv, IsRecord, Payable, Statuses, TypeOK
  <1>2. Init => ShapeInv
    BY InitShape
  <1>3. ShapeInv /\ [Next]_vars => ShapeInv'
    BY NextShape
  <1> QED
    BY <1>1, <1>2, <1>3, PTL DEF Spec

-----------------------------------------------------------------------------
(* Counting payments. *)

\* A transaction signed has a shape.
LEMMA SignedElement ==
    ASSUME NEW list \in Signed, NEW sig \in DOMAIN list
    PROVE  list[sig].to \in Seq(Payable) /\ list[sig].status \in Statuses
  <1> DEFINE Tx == [to : Seq(Payable), status : Statuses]
  <1>1. \A tx \in Tx : tx.to \in Seq(Payable) /\ tx.status \in Statuses
    OBVIOUS
  <1> HIDE DEF Tx
  <1>2. list \in Seq(Tx)
    BY DEF Signed, Tx
  <1>3. list[sig] \in Tx
    BY <1>2, LenProperties, ElementOfSeq
  <1> QED
    BY <1>1, <1>3

LEMMA LiveType ==
    ASSUME NEW list \in Signed, NEW a
    PROVE  /\ \A sig \in DOMAIN list : LiveIn(a, list[sig]) \in Nat
           /\ Live(a, list) \in Nat
           /\ IsFiniteSet(DOMAIN list)
  <1> DEFINE f == [sig \in DOMAIN list |-> LiveIn(a, list[sig])]
  <1>1. ASSUME NEW sig \in DOMAIN list PROVE LiveIn(a, list[sig]) \in Nat
    <2>1. Occurrences(a, list[sig].to) \in Nat
      BY SignedElement, OccurrencesType
    <2> QED
      BY <2>1 DEF LiveIn
  <1>2. IsFiniteSet(DOMAIN list)
    <2>1. DOMAIN list = 1..Len(list) /\ Len(list) \in Nat
      BY LenProperties DEF Signed
    <2> QED
      BY <2>1, FS_Interval
  <1>3. \A sig \in DOMAIN list : f[sig] \in Nat
    BY <1>1
  <1>4. SumFunctionOnSet(f, DOMAIN list) \in Nat
    <2> HIDE DEF f
    <2> QED
      BY <1>2, <1>3, SumNatural
  <1> QED
    BY <1>1, <1>2, <1>4 DEF Live

\* Nobody is paid by no transaction.
LEMMA LiveNone ==
    ASSUME NEW list \in Signed, NEW a,
           \A sig \in DOMAIN list : a \notin ToSet(list[sig].to)
    PROVE  Live(a, list) = 0
  <1> DEFINE f == [sig \in DOMAIN list |-> LiveIn(a, list[sig])]
  <1>1. ASSUME NEW sig \in DOMAIN list PROVE LiveIn(a, list[sig]) = 0
    <2>1. Occurrences(a, list[sig].to) = 0
      BY SignedElement, OccurrencesType
    <2> QED
      BY <2>1 DEF LiveIn
  <1>2. \A sig \in DOMAIN list : f[sig] = 0
    BY <1>1
  <1>3. IsFiniteSet(DOMAIN list)
    BY LiveType
  <1>4. SumFunctionOnSet(f, DOMAIN list) = 0
    <2> HIDE DEF f
    <2> QED
      BY <1>2, <1>3, SumZero
  <1> QED
    BY <1>4 DEF Live

\* A transaction is sent.
LEMMA LiveGrows ==
    ASSUME txs \in Signed, NEW to \in Seq(Payable), NEW a,
           txs' = Append(txs, [to |-> to, status |-> "sent"])
    PROVE  Live(a, txs') = Live(a, txs) + Occurrences(a, to)
  <1>1. PICK n, sig : n = Len(txs) /\ sig = n + 1
    OBVIOUS
  <1>2. /\ txs' \in Signed /\ n \in Nat
        /\ DOMAIN txs = 1..n /\ DOMAIN txs' = 1..(n + 1)
        /\ \A i \in 1..n : txs'[i] = txs[i]
        /\ txs'[n + 1] = [to |-> to, status |-> "sent"]
    BY <1>1, TxsGrow
  <1> DEFINE f == [i \in DOMAIN txs' |-> LiveIn(a, txs'[i])]
             g == [i \in DOMAIN txs |-> LiveIn(a, txs[i])]
  <1>3. \A i \in 1..n : i \in 1..(n + 1)
    BY <1>2
  <1>4. \A i \in 1..n : g[i] = f[i]
    BY <1>2, <1>3
  <1>5. \A i \in 1..(n + 1) : f[i] \in Int
    <2>1. \A i \in DOMAIN txs' : LiveIn(a, txs'[i]) \in Nat
      BY <1>2, LiveType
    <2> QED
      BY <1>2, <2>1
  <1>6. f[n + 1] = Occurrences(a, to)
    <2>1. n + 1 \in 1..(n + 1)
      BY <1>2
    <2>2. f[n + 1] = LiveIn(a, txs'[n + 1])
      BY <1>2, <2>1
    <2>3. txs'[n + 1].status = "sent" /\ txs'[n + 1].to = to
      BY <1>2
    <2>4. LiveIn(a, txs'[n + 1]) = Occurrences(a, to)
      BY <2>3 DEF LiveIn, Dead
    <2> QED
      BY <2>2, <2>4
  <1>7. Live(a, txs') = SumFunctionOnSet(f, 1..(n + 1))
    BY <1>2 DEF Live
  <1>8. Live(a, txs) = SumFunctionOnSet(g, 1..n)
    BY <1>2 DEF Live
  <1> HIDE DEF f, g
  <1>9. SumFunctionOnSet(f, 1..(n + 1)) = SumFunctionOnSet(g, 1..n) + f[n + 1]
    BY <1>2, <1>4, <1>5, SumLonger
  <1> QED
    BY <1>6, <1>7, <1>8, <1>9

\* A transaction makes progress.
LEMMA LiveProgress ==
    ASSUME txs \in Signed, NEW sig \in DOMAIN txs, NEW status \in Statuses, NEW a,
           txs' = [txs EXCEPT ![sig].status = status]
    PROVE  Live(a, txs') = Live(a, txs)
                             + (LiveIn(a, txs'[sig]) - LiveIn(a, txs[sig]))
  <1>1. /\ txs' \in Signed /\ DOMAIN txs' = DOMAIN txs
        /\ \A i \in DOMAIN txs \ {sig} : txs'[i] = txs[i]
    BY TxsProgress
  <1>2. PICK S : S = DOMAIN txs
    OBVIOUS
  <1> DEFINE f == [i \in S |-> LiveIn(a, txs[i])]
             g == [i \in S |-> LiveIn(a, txs'[i])]
             d == LiveIn(a, txs'[sig]) - LiveIn(a, txs[sig])
  <1>3. /\ \A i \in S : LiveIn(a, txs[i]) \in Nat
        /\ \A i \in S : LiveIn(a, txs'[i]) \in Nat
        /\ IsFiniteSet(S)
    BY <1>1, <1>2, LiveType
  <1>4. d \in Int /\ g[sig] = f[sig] + d
    BY <1>2, <1>3
  <1>5. (\A i \in S : f[i] \in Int) /\ \A i \in S \ {sig} : g[i] = f[i]
    BY <1>1, <1>2, <1>3
  <1>6. Live(a, txs) = SumFunctionOnSet(f, S) /\ Live(a, txs') = SumFunctionOnSet(g, S)
    BY <1>1, <1>2 DEF Live
  <1>7. sig \in S
    BY <1>2
  <1> HIDE DEF f, g, d
  <1>8. SumFunctionOnSet(g, S) = SumFunctionOnSet(f, S) + d
    BY <1>3, <1>4, <1>5, <1>7, SumUpdate
  <1> QED
    BY <1>6, <1>8 DEF d

\* What is paid is not dead.
LEMMA PaymentsLive ==
    ASSUME txs \in Signed, NEW a
    PROVE  Payments(a) <= Live(a, txs)
  <1> DEFINE S == DOMAIN txs
             f == [sig \in S |-> IF txs[sig].status \in {"confirmed", "finalized"}
                                 THEN Occurrences(a, txs[sig].to) ELSE 0]
             g == [sig \in S |-> LiveIn(a, txs[sig])]
  <1>1. ASSUME NEW sig \in S
        PROVE  f[sig] \in Int /\ g[sig] \in Int /\ f[sig] <= g[sig]
    <2>1. Occurrences(a, txs[sig].to) \in Nat
      BY SignedElement, OccurrencesType
    <2> QED
      BY <2>1 DEF LiveIn, Dead
  <1>2. IsFiniteSet(S)
    BY LiveType
  <1>3. Payments(a) = SumFunctionOnSet(f, S)
    BY DEF Payments, SumFunction
  <1>4. Live(a, txs) = SumFunctionOnSet(g, S)
    BY DEF Live
  <1> HIDE DEF S, f, g
  <1>5. SumFunctionOnSet(f, S) <= SumFunctionOnSet(g, S)
    BY <1>1, <1>2, SumMonotone
  <1> QED
    BY <1>3, <1>4, <1>5

LEMMA BatchesElement ==
    ASSUME NEW list \in Batches, NEW i \in DOMAIN list
    PROVE  list[i].batch \in Seq(Addresses) /\ list[i].sig \in Nat
  <1> DEFINE B == [sig : Nat, batch : Seq(Addresses)]
  <1>1. \A b \in B : b.batch \in Seq(Addresses) /\ b.sig \in Nat
    OBVIOUS
  <1> HIDE DEF B
  <1>2. list \in Seq(B)
    BY DEF Batches, B
  <1>3. list[i] \in B
    BY <1>2, LenProperties, ElementOfSeq
  <1> QED
    BY <1>1, <1>3

\* What the batches still pay.
LEMMA ListedType ==
    ASSUME NEW list \in Batches, NEW a
    PROVE  Listed(a, list) \in Nat /\ Listed(a, <<>>) = 0
  <1> DEFINE S == DOMAIN list
             f == [i \in S |-> Occurrences(a, list[i].batch)]
  <1>1. \A i \in S : f[i] \in Nat
    BY BatchesElement, OccurrencesType
  <1>2. IsFiniteSet(S)
    <2>1. S = 1..Len(list) /\ Len(list) \in Nat
      BY LenProperties DEF Batches
    <2> QED
      BY <2>1, FS_Interval
  <1>3. Listed(a, list) = SumFunctionOnSet(f, S)
    BY DEF Listed
  <1> HIDE DEF S, f
  <1>4. SumFunctionOnSet(f, S) \in Nat
    BY <1>1, <1>2, SumNatural
  <1>5. Listed(a, <<>>) = 0
    <2>1. DOMAIN <<>> = {}
      OBVIOUS
    <2> QED
      BY <2>1, SumEmpty DEF Listed
  <1> QED
    BY <1>3, <1>4, <1>5

LEMMA ListedTail ==
    ASSUME todo \in Batches, todo # <<>>, NEW a
    PROVE  Listed(a, todo) = Listed(a, Tail(todo)) + Occurrences(a, todo[1].batch)
  <1>1. PICK n \in Nat :
          /\ DOMAIN todo = 1..(n + 1) /\ DOMAIN Tail(todo) = 1..n
          /\ \A i \in 1..n : Tail(todo)[i] = todo[i + 1]
    BY TailOfTodo
  <1> DEFINE f == [i \in DOMAIN todo |-> Occurrences(a, todo[i].batch)]
             g == [i \in DOMAIN Tail(todo) |-> Occurrences(a, Tail(todo)[i].batch)]
  <1>2. \A i \in 1..(n + 1) : f[i] \in Int
    BY <1>1, BatchesElement, OccurrencesType
  <1>3. \A i \in 1..n : g[i] = f[i + 1]
    <2>1. \A i \in 1..n : i + 1 \in 1..(n + 1)
      OBVIOUS
    <2> QED
      BY <1>1, <2>1
  <1>4. f[1] = Occurrences(a, todo[1].batch)
    <2>1. 1 \in 1..(n + 1)
      OBVIOUS
    <2> QED
      BY <1>1, <2>1
  <1>5. Listed(a, todo) = SumFunctionOnSet(f, 1..(n + 1))
    BY <1>1 DEF Listed
  <1>6. Listed(a, Tail(todo)) = SumFunctionOnSet(g, 1..n)
    BY <1>1 DEF Listed
  <1> HIDE DEF f, g
  <1>7. SumFunctionOnSet(f, 1..(n + 1)) = SumFunctionOnSet(g, 1..n) + f[1]
    BY <1>2, <1>3, SumShorter
  <1> QED
    BY <1>4, <1>5, <1>6, <1>7

-----------------------------------------------------------------------------
(* Steps of an undisturbed operator. *)

LEMMA CountTypes ==
    ASSUME ShapeInv, NEW a
    PROVE  /\ Live(a, txs) \in Nat /\ Occurrences(a, csv) \in Nat
           /\ Owed(a, Current, txs) \in {0, 1}
           /\ Pending(a) \in Nat /\ Listed(a, todo) \in Nat
  <1>1. txs \in Signed /\ csv \in Seq(Addresses) /\ todo \in Batches
    BY DEF ShapeInv, Signed, Batches
  <1>2. Live(a, txs) \in Nat
    BY <1>1, LiveType
  <1>3. Occurrences(a, csv) \in Nat
    BY <1>1, OccurrencesType
  <1>4. Listed(a, todo) \in Nat
    BY <1>1, ListedType
  <1> QED
    BY <1>2, <1>3, <1>4 DEF Owed, Pending

\* The next state has the count when its parts have it.
LEMMA CountNext ==
    ASSUME NEW map, map = Current', csv' = csv,
           Noted(map, txs'),
           \A a \in Addresses :
              Live(a, txs') + Owed(a, map, txs') + Pending(a)' <= Occurrences(a, csv),
           command' = "resend" => Groups(todo', sent', txs')
    PROVE  CountInv'
  BY DEF CountInv

\* A step that sends nothing.
LEMMA CountSame ==
    ASSUME ShapeInv, CountInv, txs' = txs, csv' = csv, Current' = Current,
           \A a \in Addresses : Pending(a)' \in Nat /\ Pending(a)' <= Pending(a),
           command' = "resend" => Groups(todo', sent', txs)
    PROVE  CountInv'
  <1>1. PICK map : map = Current
    OBVIOUS
  <1>2. Noted(map, txs)
    BY <1>1 DEF CountInv
  <1>3. ASSUME NEW a \in Addresses
        PROVE  Live(a, txs) + Owed(a, map, txs) + Pending(a)' <= Occurrences(a, csv)
    <2>1. Live(a, txs) + Owed(a, map, txs) + Pending(a) <= Occurrences(a, csv)
      BY <1>1 DEF CountInv
    <2>2. /\ Live(a, txs) \in Nat /\ Occurrences(a, csv) \in Nat
          /\ Owed(a, map, txs) \in {0, 1} /\ Pending(a) \in Nat
      BY <1>1, CountTypes
    <2>3. Pending(a)' \in Nat /\ Pending(a)' <= Pending(a)
      OBVIOUS
    <2> QED
      BY <2>1, <2>2, <2>3
  <1> QED
    BY <1>1, <1>2, <1>3, CountNext

\* A mass-send takes the addresses of which nothing is noted.
LEMMA CountStartMassSend ==
    ASSUME ShapeInv, CountInv, NEW m, StartMassSend(m)
    PROVE  CountInv'
  <1>1. /\ todo' = Tagged(Batched(Kept(csv, Addresses \ DOMAIN record), m))
        /\ command = "idle" /\ command' = "mass_send" /\ sent' = record
        /\ csv' = csv /\ txs' = txs
    BY DEF StartMassSend, Start, Tagged
  <1>2. \A a \in Addresses :
           Listed(a, todo') = IF a \in DOMAIN record THEN 0 ELSE Occurrences(a, csv)
    <2>1. csv \in Seq(Addresses)
      BY DEF ShapeInv
    <2> QED
      BY <1>1, <2>1, MassSendBatches
  <1>3. Current = record /\ Current' = record
    BY <1>1 DEF Current
  <1>4. Noted(record, txs)
    BY <1>3 DEF CountInv
  <1>5. ASSUME NEW a \in Addresses
        PROVE  Live(a, txs) + Owed(a, record, txs) + Pending(a)' <= Occurrences(a, csv)
    <2>1. Pending(a)' = Listed(a, todo')
      BY <1>1 DEF Pending
    <2>2. /\ Live(a, txs) \in Nat /\ Occurrences(a, csv) \in Nat
          /\ Owed(a, record, txs) \in {0, 1} /\ Pending(a) \in Nat
      BY <1>3, CountTypes
    <2>3. Live(a, txs) + Owed(a, record, txs) + Pending(a) <= Occurrences(a, csv)
      BY <1>3 DEF CountInv
    <2>4. CASE a \in DOMAIN record
      <3>1. Pending(a)' = 0
        BY <1>2, <2>1, <2>4
      <3> QED
        BY <2>2, <2>3, <3>1
    <2>5. CASE a \notin DOMAIN record
      <3>1. Pending(a)' = Occurrences(a, csv)
        BY <1>2, <2>1, <2>5
      <3>2. Owed(a, record, txs) = 0
        BY <2>5 DEF Owed
      <3>3. Live(a, txs) = 0
        <4>1. txs \in Signed
          BY DEF ShapeInv, Signed
        <4>2. \A sig \in DOMAIN txs : a \notin ToSet(txs[sig].to)
          BY <1>4, <2>5 DEF Noted
        <4> QED
          BY <4>1, <4>2, LiveNone
      <3> QED
        BY <2>2, <3>1, <3>2, <3>3
    <2> QED
      BY <2>4, <2>5
  <1>6. PICK map : map = record
    OBVIOUS
  <1> QED
    BY <1>1, <1>3, <1>4, <1>5, <1>6, CountNext

\* A resend starts when nothing is in flight.
LEMMA CountStartResend ==
    ASSUME ShapeInv, CountInv, NEW m \in Nat, StartResend(m), Settled
    PROVE  CountInv'
  <1>1. /\ command = "idle" /\ command' = "resend" /\ sent' = record
        /\ csv' = csv /\ txs' = txs
    BY DEF StartResend, Start
  <1>2. PICK list \in SetToSeqs(DOMAIN record),
             sigs \in SetToSeqs({record[a] : a \in DOMAIN record}) :
               todo' = [i \in DOMAIN sigs |->
                          [sig |-> sigs[i],
                           batch |-> Fitting(Kept(list, Recorded(sigs[i])), m)]]
    BY DEF StartResend
  <1>3. txs \in Signed /\ IsRecord(record)
    BY DEF ShapeInv, Signed
  <1>4. /\ DOMAIN txs \subseteq Nat /\ sigs \in Seq(DOMAIN txs)
        /\ \A i, j \in DOMAIN sigs : sigs[i] = sigs[j] => i = j
    BY <1>3, RecordedSignatures
  <1>5. PICK t : t = todo'
    OBVIOUS
  <1>6. /\ DOMAIN t = DOMAIN sigs
        /\ \A i \in DOMAIN t :
              /\ t[i].sig = sigs[i]
              /\ ToSet(t[i].batch) \subseteq Recorded(sigs[i])
              /\ \A a : Occurrences(a, t[i].batch) <= 1
    <2>1. Grouped(t, sigs)
      BY <1>2, <1>3, <1>4, <1>5, ResendGroups
    <2> QED
      BY <2>1 DEF Grouped
  <1>7. \A i \in DOMAIN sigs : sigs[i] \in DOMAIN txs
    BY <1>4, LenProperties, ElementOfSeq
  <1>8. Groups(t, record, txs)
    <2>1. ASSUME NEW i \in DOMAIN t PROVE Group(t[i], record, txs)
      <3>1. t[i].sig = sigs[i] /\ sigs[i] \in DOMAIN txs
        BY <1>6, <1>7
      <3>2. txs[sigs[i]].status \in Dead \cup {"finalized"}
        <4>1. txs[sigs[i]].status \in Statuses
          BY <1>3, <3>1, SignedElement
        <4> QED
          BY <3>1, <4>1 DEF Settled, Statuses, Dead
      <3>3. \A a \in ToSet(t[i].batch) : a \in DOMAIN record /\ record[a] = sigs[i]
        BY <1>6 DEF Recorded
      <3> QED
        BY <1>6, <3>1, <3>2, <3>3 DEF Group
    <2>2. \A i, j \in DOMAIN t : t[i].sig = t[j].sig => i = j
      BY <1>4, <1>6
    <2> QED
      BY <2>1, <2>2 DEF Groups
  <1>9. Current' = Current
    BY <1>1 DEF Current
  <1>10. \A a \in Addresses : Pending(a)' = 0 /\ Pending(a) \in Nat
    BY <1>1, CountTypes DEF Pending
  <1>11. Groups(todo', sent', txs)
    BY <1>1, <1>5, <1>8
  <1> QED
    BY <1>1, <1>9, <1>10, <1>11, CountSame

\* The tail of the groups.
LEMMA GroupsTail ==
    ASSUME todo \in Batches, todo # <<>>, NEW map, NEW list, Groups(todo, map, list)
    PROVE  /\ Groups(Tail(todo), map, list)
           /\ Group(todo[1], map, list)
           /\ \A i \in DOMAIN Tail(todo) : Tail(todo)[i].sig # todo[1].sig
  <1>1. PICK n \in Nat :
          /\ DOMAIN todo = 1..(n + 1) /\ DOMAIN Tail(todo) = 1..n
          /\ \A i \in 1..n : Tail(todo)[i] = todo[i + 1]
    BY TailOfTodo
  <1>2. 1 \in 1..(n + 1) /\ \A i \in 1..n : i + 1 \in 1..(n + 1) /\ i + 1 # 1
    OBVIOUS
  <1>3. \A i \in 1..n : Group(Tail(todo)[i], map, list)
    BY <1>1, <1>2 DEF Groups
  <1>4. \A i, j \in 1..n : i + 1 = j + 1 => i = j
    OBVIOUS
  <1>5. \A i, j \in 1..n : Tail(todo)[i].sig = Tail(todo)[j].sig => i = j
    BY <1>1, <1>2, <1>4 DEF Groups
  <1>6. \A i \in 1..n : Tail(todo)[i].sig # todo[1].sig
    BY <1>1, <1>2 DEF Groups
  <1> QED
    BY <1>1, <1>2, <1>3, <1>5, <1>6 DEF Groups

\* A batch has its public keys as often as it lists them.
LEMMA QualifiedCounts ==
    ASSUME NEW batch \in Seq(Addresses), NEW to, to = Qualified(batch), NEW a
    PROVE  /\ Occurrences(a, to) \in Nat /\ Occurrences(a, batch) \in Nat
           /\ Occurrences(a, to) <= Occurrences(a, batch)
           /\ a \in ToSet(to) => a \in ToSet(batch)
           /\ a \notin ToSet(to) => Occurrences(a, to) = 0
  <1>1. Occurrences(a, to) = IF a \in Payable THEN Occurrences(a, batch) ELSE 0
    <2>1. Occurrences(a, Kept(batch, Payable))
            = IF a \in Payable THEN Occurrences(a, batch) ELSE 0
      BY KeptCounts
    <2> QED
      BY <2>1 DEF Qualified, Payable
  <1>2. to \in Seq(Payable)
    BY QualifiedType
  <1>3. /\ Occurrences(a, to) \in Nat
        /\ Occurrences(a, to) = 0 <=> a \notin ToSet(to)
    BY <1>2, OccurrencesType
  <1>4. /\ Occurrences(a, batch) \in Nat
        /\ Occurrences(a, batch) = 0 <=> a \notin ToSet(batch)
    BY OccurrencesType
  <1> QED
    BY <1>1, <1>3, <1>4

\* A transaction is sent and noted: what it pays was pending or owed.
LEMMA CountSends ==
    ASSUME ShapeInv, CountInv, NEW to \in Seq(Payable),
           NEW sig, sig = Len(txs) + 1, Sends(to, sig),
           csv' = csv, command' = command, command # "idle",
           \A a \in Addresses :
              /\ Pending(a)' \in Nat
              /\ \/ /\ a \in ToSet(to)
                    /\ Pending(a)' + Occurrences(a, to)
                         <= Pending(a) + Owed(a, sent, txs)
                 \/ Pending(a)' + Occurrences(a, to) <= Pending(a),
           command = "resend" => Groups(todo', sent', txs')
    PROVE  CountInv'
  <1>1. /\ txs \in Signed /\ IsRecord(sent)
        /\ txs' = Append(txs, [to |-> to, status |-> "sent"])
        /\ sent' = WithNote(sent, to, sig)
    BY DEF ShapeInv, Signed, Sends
  <1>2. /\ DOMAIN txs' = DOMAIN txs \cup {sig}
        /\ \A i \in DOMAIN txs : txs'[i] = txs[i]
        /\ txs'[sig].to = to /\ txs'[sig].status = "sent"
    BY <1>1, TxsGrow
  <1>3. PICK S : S = ToSet(to)
    OBVIOUS
  <1>4. /\ DOMAIN sent' = DOMAIN sent \cup S
        /\ \A a \in S : sent'[a] = sig
        /\ \A a \in DOMAIN sent \ S : sent'[a] = sent[a]
    BY <1>1, <1>3 DEF WithNote
  <1>5. Current = sent /\ Current' = sent'
    BY DEF Current
  <1>6. Noted(sent', txs')
    <2> SUFFICES ASSUME NEW i \in DOMAIN txs'
                 PROVE  ToSet(txs'[i].to) \subseteq DOMAIN sent'
      BY DEF Noted
    <2>1. CASE i = sig
      BY <1>2, <1>3, <1>4, <2>1
    <2>2. CASE i \in DOMAIN txs
      <3>1. ToSet(txs[i].to) \subseteq DOMAIN sent
        BY <1>5, <2>2 DEF CountInv, Noted
      <3> QED
        BY <1>2, <1>4, <2>2, <3>1
    <2> QED
      BY <1>2, <2>1, <2>2
  <1>7. ASSUME NEW a \in Addresses
        PROVE  Live(a, txs') + Owed(a, sent', txs') + Pending(a)' <= Occurrences(a, csv)
    <2>1. Live(a, txs') = Live(a, txs) + Occurrences(a, to)
      BY <1>1, LiveGrows
    <2>2. Live(a, txs) + Owed(a, sent, txs) + Pending(a) <= Occurrences(a, csv)
      BY <1>5 DEF CountInv
    <2>3. /\ Live(a, txs) \in Nat /\ Occurrences(a, csv) \in Nat
          /\ Owed(a, sent, txs) \in {0, 1} /\ Pending(a) \in Nat
      BY <1>5, CountTypes
    <2>4. Occurrences(a, to) \in Nat /\ Pending(a)' \in Nat
      BY OccurrencesType
    <2>5. CASE a \in S
      <3>1. Owed(a, sent', txs') = 0
        BY <1>2, <1>4, <2>5 DEF Owed, Dead
      <3>2. Pending(a)' + Occurrences(a, to) <= Pending(a) + Owed(a, sent, txs)
        BY <2>3, <2>4
      <3> QED
        BY <2>1, <2>2, <2>3, <2>4, <3>1, <3>2
    <2>6. CASE a \notin S
      <3>1. Owed(a, sent', txs') = Owed(a, sent, txs)
        <4>1. a \in DOMAIN sent => txs'[sent'[a]] = txs[sent[a]]
          BY <1>1, <1>2, <1>4, <2>6 DEF IsRecord
        <4>2. a \in DOMAIN sent <=> a \in DOMAIN sent'
          BY <1>4, <2>6
        <4> QED
          BY <4>1, <4>2 DEF Owed
      <3>2. Pending(a)' + Occurrences(a, to) <= Pending(a)
        BY <1>3, <2>6
      <3> QED
        BY <2>1, <2>2, <2>3, <2>4, <3>1, <3>2
    <2> QED
      BY <2>5, <2>6
  <1>8. PICK map : map = sent'
    OBVIOUS
  <1> QED
    BY <1>5, <1>6, <1>7, <1>8, CountNext

\* A mass-send sends a batch that was pending.
LEMMA CountSendNextBatch ==
    ASSUME ShapeInv, CountInv, SendNextBatch, ~disturbed'
    PROVE  CountInv'
  <1>1. /\ todo # <<>> /\ command = "mass_send" /\ SendBatch(Head(todo).batch)
        /\ todo \in Batches
    BY DEF SendNextBatch, ShapeInv, Batches
  <1>2. PICK batch, to, sig : /\ batch = todo[1].batch /\ to = Qualified(batch)
                              /\ sig = Len(txs) + 1
    OBVIOUS
  <1>3. batch \in Seq(Addresses) /\ SendBatch(batch)
    BY <1>1, <1>2, TailOfTodo
  <1>4. to \in Seq(Payable)
    BY <1>2, <1>3, QualifiedType
  <1>5. /\ Sends(to, sig) /\ todo' = Tail(todo)
        /\ csv' = csv /\ command' = command
    BY <1>2, <1>3, SendBatchCases DEF Fails
  <1>6. ASSUME NEW a \in Addresses
        PROVE  Pending(a)' \in Nat /\ Pending(a)' + Occurrences(a, to) <= Pending(a)
    <2>1. Pending(a) = Listed(a, todo) /\ Pending(a)' = Listed(a, Tail(todo))
      BY <1>1, <1>5 DEF Pending
    <2>2. Listed(a, todo) = Listed(a, Tail(todo)) + Occurrences(a, batch)
      BY <1>1, <1>2, ListedTail
    <2>3. Listed(a, Tail(todo)) \in Nat
      BY <1>1, TailOfTodo, ListedType
    <2>4. /\ Occurrences(a, to) \in Nat /\ Occurrences(a, batch) \in Nat
          /\ Occurrences(a, to) <= Occurrences(a, batch)
      BY <1>2, <1>3, QualifiedCounts
    <2> QED
      BY <2>1, <2>2, <2>3, <2>4
  <1> QED
    BY <1>1, <1>2, <1>4, <1>5, <1>6, CountSends

\* A resend sends a group that is owed, or leaves it.
LEMMA CountResendNextGroup ==
    ASSUME ShapeInv, CountInv, ResendNextGroup, ~disturbed'
    PROVE  CountInv'
  <1>1. /\ todo # <<>> /\ command = "resend" /\ todo \in Batches
        /\ Groups(todo, sent, txs) /\ txs \in Signed /\ IsRecord(sent)
    BY DEF ResendNextGroup, ShapeInv, Batches, CountInv, Signed
  <1>2. PICK batch, to, sig, old :
          /\ batch = todo[1].batch /\ to = Qualified(batch)
          /\ sig = Len(txs) + 1 /\ old = todo[1].sig
    OBVIOUS
  <1>3. batch \in Seq(Addresses) /\ Head(todo) = todo[1]
    BY <1>1, <1>2, TailOfTodo
  <1>4. to \in Seq(Payable)
    BY <1>2, <1>3, QualifiedType
  <1>5. PICK rest : rest = Tail(todo)
    OBVIOUS
  <1>6. /\ Groups(rest, sent, txs)
        /\ Group(todo[1], sent, txs)
        /\ \A i \in DOMAIN rest : rest[i].sig # old
    BY <1>1, <1>2, <1>5, GroupsTail
  <1>7. CASE /\ txs[old].status # "finalized"
             /\ SendBatch(batch)
    <2>1. /\ Sends(to, sig) /\ todo' = rest
          /\ csv' = csv /\ command' = command
      BY <1>2, <1>5, <1>7, SendBatchCases DEF Fails
    <2>2. /\ \A a \in ToSet(batch) : a \in DOMAIN sent /\ sent[a] = old
          /\ txs[old].status \in Dead /\ old \in DOMAIN txs
          /\ \A a \in Addresses : Occurrences(a, batch) <= 1
      BY <1>2, <1>6, <1>7 DEF Group
    <2>3. ASSUME NEW a \in Addresses
          PROVE  /\ Pending(a)' \in Nat
                 /\ \/ /\ a \in ToSet(to)
                       /\ Pending(a)' + Occurrences(a, to)
                            <= Pending(a) + Owed(a, sent, txs)
                    \/ Pending(a)' + Occurrences(a, to) <= Pending(a)
      <3>1. Pending(a) = 0 /\ Pending(a)' = 0
        BY <1>1, <2>1 DEF Pending
      <3>2. /\ Occurrences(a, to) \in Nat /\ Occurrences(a, batch) \in Nat
            /\ Occurrences(a, to) <= Occurrences(a, batch)
            /\ (a \in ToSet(to) => a \in ToSet(batch))
            /\ (a \notin ToSet(to) => Occurrences(a, to) = 0)
        BY <1>2, <1>3, QualifiedCounts
      <3>3. CASE a \in ToSet(to)
        <4>1. Owed(a, sent, txs) = 1
          BY <2>2, <3>2, <3>3 DEF Owed
        <4> QED
          BY <2>2, <3>1, <3>2, <3>3, <4>1
      <3>4. CASE a \notin ToSet(to)
        BY <3>1, <3>2, <3>4
      <3> QED
        BY <3>3, <3>4
    <2>4. Groups(rest, sent', txs')
      <3>1. /\ txs' = Append(txs, [to |-> to, status |-> "sent"])
            /\ sent' = WithNote(sent, to, sig)
        BY <2>1 DEF Sends
      <3>2. /\ DOMAIN txs' = DOMAIN txs \cup {sig}
            /\ \A i \in DOMAIN txs : txs'[i] = txs[i]
        BY <1>1, <1>2, <1>4, <3>1, TxsGrow
      <3>3. ToSet(to) \subseteq ToSet(batch)
        BY <1>2, <1>3, QualifiedCounts
      <3>4. ASSUME NEW i \in DOMAIN rest PROVE Group(rest[i], sent', txs')
        <4>1. PICK item : item = rest[i]
          OBVIOUS
        <4>2. Group(item, sent, txs) /\ item.sig # old
          BY <1>6, <4>1 DEF Groups
        <4>3. ASSUME NEW a \in ToSet(item.batch)
              PROVE  a \in DOMAIN sent' /\ sent'[a] = item.sig
          <5>1. a \in DOMAIN sent /\ sent[a] = item.sig
            BY <4>2 DEF Group
          <5>2. a \notin ToSet(to)
            BY <2>2, <3>3, <4>2, <5>1
          <5> QED
            BY <3>1, <5>1, <5>2 DEF WithNote
        <4>4. item.sig \in DOMAIN txs /\ txs'[item.sig] = txs[item.sig]
          BY <3>2, <4>2 DEF Group
        <4> QED
          BY <3>2, <4>1, <4>2, <4>3, <4>4 DEF Group
      <3> QED
        BY <1>6, <3>4 DEF Groups
    <2> QED
      BY <1>1, <1>2, <1>4, <2>1, <2>3, <2>4, CountSends
  <1>8. CASE /\ todo' = Tail(todo)
             /\ UNCHANGED <<csv, record, txs, command, sent>>
    <2>1. Current' = Current
      BY <1>8 DEF Current
    <2>2. \A a \in Addresses : Pending(a)' = 0 /\ Pending(a) = 0
      BY <1>1, <1>8 DEF Pending
    <2>3. Groups(todo', sent', txs)
      BY <1>5, <1>6, <1>8
    <2> QED
      BY <1>8, <2>1, <2>2, <2>3, CountSame
  <1> QED
    BY <1>2, <1>3, <1>7, <1>8 DEF ResendNextGroup

\* A transaction that dies is owed at most to those it pays.
LEMMA CountProgress ==
    ASSUME ShapeInv, CountInv, Truthful(Current), NEW sig \in DOMAIN txs,
           NEW status \in Statuses, Progress(sig, status)
    PROVE  CountInv'
  <1>1. /\ txs' = [txs EXCEPT ![sig].status = status]
        /\ UNCHANGED <<csv, record, command, sent, todo>>
        /\ txs[sig].status \in {"sent", "confirmed"}
        /\ txs \in Signed
    BY DEF Progress, ShapeInv, Signed
  <1>2. /\ DOMAIN txs' = DOMAIN txs
        /\ \A i \in DOMAIN txs \ {sig} : txs'[i] = txs[i]
        /\ txs'[sig].to = txs[sig].to /\ txs'[sig].status = status
        /\ txs[sig].to \in Seq(Payable)
    BY <1>1, TxsProgress
  <1>3. PICK map, to : map = Current /\ to = txs[sig].to
    OBVIOUS
  <1>4. Current' = map
    BY <1>1, <1>3 DEF Current
  <1>5. Noted(map, txs')
    <2>1. Noted(map, txs)
      BY <1>3 DEF CountInv
    <2>2. \A i \in DOMAIN txs : txs'[i].to = txs[i].to
      BY <1>2
    <2> QED
      BY <1>2, <2>1, <2>2 DEF Noted
  <1>6. ASSUME NEW a \in Addresses
        PROVE  Live(a, txs') + Owed(a, map, txs') + Pending(a)' <= Occurrences(a, csv)
    <2>1. Live(a, txs') = Live(a, txs)
                            + (LiveIn(a, txs'[sig]) - LiveIn(a, txs[sig]))
      BY <1>1, LiveProgress
    <2>2. Live(a, txs) + Owed(a, map, txs) + Pending(a) <= Occurrences(a, csv)
      BY <1>3 DEF CountInv
    <2>3. /\ Live(a, txs) \in Nat /\ Occurrences(a, csv) \in Nat
          /\ Owed(a, map, txs) \in {0, 1} /\ Pending(a) \in Nat
      BY <1>3, CountTypes
    <2>4. Pending(a)' = Pending(a)
      BY <1>1 DEF Pending
    <2>5. /\ Occurrences(a, to) \in Nat
          /\ (a \in ToSet(to) => Occurrences(a, to) # 0)
      BY <1>2, <1>3, OccurrencesType
    <2>6. LiveIn(a, txs[sig]) = Occurrences(a, to)
      BY <1>1, <1>3 DEF LiveIn, Dead
    <2>7. \A b \in DOMAIN map : map[b] \in DOMAIN txs /\ b \in ToSet(txs[map[b]].to)
      BY <1>3 DEF Truthful
    <2>8. CASE status \notin Dead
      <3>1. LiveIn(a, txs'[sig]) = Occurrences(a, to)
        BY <1>2, <1>3, <2>8 DEF LiveIn
      <3>2. Owed(a, map, txs') = Owed(a, map, txs)
        <4>1. a \in DOMAIN map => (txs'[map[a]].status \in Dead
                                     <=> txs[map[a]].status \in Dead)
          BY <1>1, <1>2, <2>7, <2>8 DEF Dead
        <4> QED
          BY <4>1 DEF Owed
      <3> QED
        BY <2>1, <2>2, <2>3, <2>4, <2>5, <2>6, <3>1, <3>2
    <2>9. CASE status \in Dead
      <3>1. LiveIn(a, txs'[sig]) = 0
        BY <1>2, <2>9 DEF LiveIn
      <3>2. CASE a \in DOMAIN map /\ map[a] = sig
        <4>1. Occurrences(a, to) # 0
          BY <1>3, <2>5, <2>7, <3>2
        <4>2. Owed(a, map, txs') \in {0, 1} /\ Owed(a, map, txs) \in {0, 1}
          BY DEF Owed
        <4>3. Owed(a, map, txs) = 0
          BY <1>1, <3>2 DEF Owed, Dead
        <4> QED
          BY <2>1, <2>2, <2>3, <2>4, <2>5, <2>6, <3>1, <4>1, <4>2, <4>3
      <3>3. CASE ~(a \in DOMAIN map /\ map[a] = sig)
        <4>1. a \in DOMAIN map => txs'[map[a]] = txs[map[a]]
          BY <1>2, <2>7, <3>3
        <4>2. Owed(a, map, txs') = Owed(a, map, txs)
          BY <4>1 DEF Owed
        <4> QED
          BY <2>1, <2>2, <2>3, <2>4, <2>5, <2>6, <3>1, <4>2
      <3> QED
        BY <3>2, <3>3
    <2> QED
      BY <2>8, <2>9
  <1>7. ASSUME command' = "resend" PROVE Groups(todo', sent', txs')
    <2>1. Groups(todo, sent, txs)
      BY <1>1, <1>7 DEF CountInv
    <2>2. ASSUME NEW i \in DOMAIN todo PROVE Group(todo[i], sent, txs')
      <3>1. PICK item : item = todo[i]
        OBVIOUS
      <3>2. Group(item, sent, txs)
        BY <2>1, <3>1 DEF Groups
      <3>3. item.sig # sig
        BY <1>1, <3>2 DEF Group, Dead
      <3>4. item.sig \in DOMAIN txs' /\ txs'[item.sig] = txs[item.sig]
        BY <1>2, <3>2, <3>3 DEF Group
      <3> QED
        BY <3>1, <3>2, <3>4 DEF Group
    <2> QED
      BY <1>1, <2>1, <2>2 DEF Groups
  <1> QED
    BY <1>1, <1>4, <1>5, <1>6, <1>7, CountNext

\* Every step of an undisturbed operator keeps the count.
LEMMA NextCount ==
    ASSUME ShapeInv, RecordIInv, UndisturbedInv, [Next]_vars
    PROVE  UndisturbedInv'
  <1> SUFFICES ASSUME ~disturbed' PROVE CountInv'
    BY DEF UndisturbedInv
  <1>0. /\ command \in {"idle", "mass_send", "resend"} /\ unsaved \in BOOLEAN
        /\ (command = "idle" => unsaved = FALSE /\ todo = <<>>)
        /\ (command # "idle" /\ unsaved = FALSE => sent = record)
    BY DEF ShapeInv
  <1>s. ASSUME txs' = txs, csv' = csv, Current' = Current, todo' = todo,
               command' = command, sent' = sent, disturbed' = disturbed
        PROVE  CountInv'
    <2>1. CountInv
      BY <1>s DEF UndisturbedInv
    <2>2. \A a \in Addresses : Pending(a)' = Pending(a) /\ Pending(a) \in Nat
      BY <1>s, CountTypes DEF Pending
    <2>3. command' = "resend" => Groups(todo', sent', txs)
      BY <1>s, <2>1 DEF CountInv
    <2> QED
      BY <1>s, <2>1, <2>2, <2>3, CountSame
  <1>1. ASSUME NEW m \in Limits, StartMassSend(m)
        PROVE  CountInv'
    <2>1. ~disturbed
      BY <1>1 DEF StartMassSend, Start
    <2> QED
      BY <1>1, <2>1, CountStartMassSend DEF UndisturbedInv
  <1>2. ASSUME NEW m \in Limits, StartResend(m)
        PROVE  CountInv'
    <2>1. ~disturbed /\ Settled
      BY <1>2 DEF StartResend, Start
    <2>2. m \in Nat
      BY MassSendAssumption
    <2> QED
      BY <1>2, <2>1, <2>2, CountStartResend DEF UndisturbedInv
  <1>3. CASE SendNextBatch
    <2>1. SendBatch(Head(todo).batch)
      BY <1>3 DEF SendNextBatch
    <2>2. disturbed' = disturbed \/ disturbed' = TRUE
      BY <2>1, SendBatchCases DEF Sends, Fails
    <2>3. CountInv
      BY <2>2 DEF UndisturbedInv
    <2> QED
      BY <1>3, <2>3, CountSendNextBatch
  <1>4. CASE ResendNextGroup
    <2>1. disturbed' = disturbed \/ disturbed' = TRUE
      <3>1. SendBatch(Head(todo).batch) \/ disturbed' = disturbed
        BY <1>4 DEF ResendNextGroup
      <3> QED
        BY <3>1, SendBatchCases DEF Sends, Fails
    <2>2. CountInv
      BY <2>1 DEF UndisturbedInv
    <2> QED
      BY <1>4, <2>2, CountResendNextGroup
  <1>5. CASE WriteRecord
    <2>1. /\ txs' = txs /\ csv' = csv /\ todo' = todo /\ command' = command
          /\ sent' = sent /\ disturbed' = disturbed
      BY <1>5 DEF WriteRecord
    <2>2. command # "idle"
      BY <1>0, <1>5 DEF WriteRecord
    <2>3. Current' = Current
      BY <2>1, <2>2 DEF Current
    <2> QED
      BY <1>s, <2>1, <2>3
  <1>6. CASE Crash
    <2>1. disturbed' = TRUE
      BY <1>6 DEF Crash
    <2> QED
      BY <2>1
  <1>7. CASE Finish
    <2>1. /\ txs' = txs /\ csv' = csv /\ todo' = <<>> /\ todo = <<>>
          /\ command' = "idle" /\ command # "idle" /\ record' = record
          /\ disturbed' = disturbed /\ sent = record
      BY <1>0, <1>7 DEF Finish
    <2>2. Current' = Current
      BY <2>1 DEF Current
    <2>3. CountInv
      BY <2>1 DEF UndisturbedInv
    <2>4. ASSUME NEW a \in Addresses
          PROVE  Pending(a)' \in Nat /\ Pending(a)' <= Pending(a)
      <3>1. Pending(a) \in Nat
        BY CountTypes
      <3>2. <<>> \in Batches
        BY EmptySeq DEF Batches
      <3>3. Listed(a, <<>>) = 0
        BY <3>2, ListedType
      <3>4. Pending(a)' = 0
        BY <2>1, <3>3 DEF Pending
      <3> QED
        BY <3>1, <3>4
    <2> QED
      BY <2>1, <2>2, <2>3, <2>4, CountSame
  <1>8. ASSUME NEW sig \in DOMAIN txs,
               NEW status \in {"confirmed", "failed", "expired", "finalized"},
               Progress(sig, status)
        PROVE  CountInv'
    <2>1. disturbed' = disturbed /\ status \in Statuses
      BY <1>8 DEF Progress, Statuses
    <2>2. Truthful(Current)
      BY DEF RecordIInv, Truthful, Current
    <2>3. CountInv
      BY <2>1 DEF UndisturbedInv
    <2> QED
      BY <1>8, <2>1, <2>2, <2>3, CountProgress
  <1>9. CASE UNCHANGED vars
    <2>1. Current' = Current
      BY <1>9 DEF Current, vars
    <2> QED
      BY <1>9, <1>s, <2>1 DEF vars
  <1> QED
    BY <1>1, <1>2, <1>3, <1>4, <1>5, <1>6, <1>7, <1>8, <1>9 DEF Next

LEMMA InitCount ==
    ASSUME Init
    PROVE  UndisturbedInv
  <1>1. ShapeInv
    BY InitShape
  <1>2. txs = <<>> /\ todo = <<>> /\ command = "idle" /\ record = <<>>
    BY DEF Init
  <1>3. DOMAIN <<>> = {}
    OBVIOUS
  <1>4. Current = <<>> /\ Noted(Current, txs)
    BY <1>2, <1>3 DEF Current, Noted
  <1>5. ASSUME NEW a \in Addresses
        PROVE  Live(a, txs) + Owed(a, Current, txs) + Pending(a) <= Occurrences(a, csv)
    <2>1. Live(a, txs) = 0
      BY <1>2, <1>3, SumEmpty DEF Live
    <2>2. Pending(a) = 0
      BY <1>2, <1>3, SumEmpty DEF Pending, Listed
    <2>3. Owed(a, Current, txs) = 0
      BY <1>3, <1>4 DEF Owed
    <2>4. Occurrences(a, csv) \in Nat
      BY <1>1, CountTypes
    <2> QED
      BY <2>1, <2>2, <2>3, <2>4
  <1> QED
    BY <1>2, <1>4, <1>5 DEF UndisturbedInv, CountInv

\* Nobody is paid more often than the CSV lists the address, for every CSV and
\* any sequence of mass-sends and resends with any batch sizes, as long as no
\* call fails, no process dies and the operator waits until nothing is in
\* flight; transactions may fail or expire and are sent again.
THEOREM ListedIsPaidOnce == Spec => []PaidOnceUndisturbed
  <1>1. Init => ShapeInv /\ RecordIInv /\ UndisturbedInv
    <2>1. Init => RecordIInv
      BY EmptySeq DEF Init, RecordIInv, Truthful
    <2> QED
      BY <2>1, InitShape, InitCount
  <1>2. ShapeInv /\ RecordIInv /\ UndisturbedInv /\ [Next]_vars
          => ShapeInv' /\ RecordIInv' /\ UndisturbedInv'
    BY NextShape, NextRecordIInv, NextCount
  <1>3. ShapeInv /\ UndisturbedInv => PaidOnceUndisturbed
    <2> SUFFICES ASSUME ShapeInv, CountInv, NEW a \in Addresses
                 PROVE  Payments(a) <= Occurrences(a, csv)
      BY DEF UndisturbedInv, PaidOnceUndisturbed
    <2>1. txs \in Signed
      BY DEF ShapeInv, Signed
    <2>2. Payments(a) <= Live(a, txs)
      BY <2>1, PaymentsLive
    <2>3. Live(a, txs) + Owed(a, Current, txs) + Pending(a) <= Occurrences(a, csv)
      BY DEF CountInv
    <2>4. /\ Live(a, txs) \in Nat /\ Occurrences(a, csv) \in Nat
          /\ Owed(a, Current, txs) \in {0, 1} /\ Pending(a) \in Nat
      BY CountTypes
    <2>5. Payments(a) \in Int
      <3> DEFINE S == DOMAIN txs
                 f == [sig \in S |->
                         IF txs[sig].status \in {"confirmed", "finalized"}
                         THEN Occurrences(a, txs[sig].to) ELSE 0]
      <3>1. \A sig \in S : f[sig] \in Int
        BY <2>1, SignedElement, OccurrencesType
      <3>2. IsFiniteSet(S)
        BY <2>1, LiveType
      <3>3. Payments(a) = SumFunctionOnSet(f, S)
        BY DEF Payments, SumFunction
      <3> HIDE DEF S, f
      <3> QED
        BY <3>1, <3>2, <3>3, SumType
    <2> QED
      BY <2>2, <2>3, <2>4, <2>5
  <1> QED
    BY <1>1, <1>2, <1>3, PTL DEF Spec

=============================================================================
