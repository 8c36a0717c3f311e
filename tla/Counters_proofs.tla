--------------------------- MODULE Counters_proofs ---------------------------
(***************************************************************************)
(* Proofs about Counters for any number of goroutines that count, any      *)
(* number that take snapshots, all packet sizes and every modulus.         *)
(***************************************************************************)
EXTENDS Counters, SequenceTheorems, TLAPS

(* A snapshot under way has its loaded fields from its own history, which  *)
(* ends in the present values.                                             *)
SnapInv ==
  /\ counter \in [Field -> Nat] /\ snap \in [Readers -> [Field -> Nat]]
  /\ pos \in [Readers -> 0..Len(Fields)] /\ history \in [Readers -> Seq([Field -> Nat])]
  /\ \A r \in Readers :
       /\ pos[r] \in 1..(Len(Fields) - 1) =>
            history[r] # << >> /\ history[r][Len(history[r])] = counter
       /\ \A k \in 1..pos[r] : \E j \in 1..Len(history[r]) :
            snap[r][Fields[k]] = history[r][j][Fields[k]]

LEMMA FieldFacts ==
  /\ Len(Fields) = 6 /\ DOMAIN Fields = 1..6
  /\ \A k \in 1..6 : Fields[k] \in Field
  /\ \A f \in Field : \E k \in 1..6 : f = Fields[k]
  /\ \A k, l \in 1..6 : Fields[k] = Fields[l] => k = l
<1>1. Len(Fields) = 6 /\ DOMAIN Fields = 1..6
  BY DEF Fields
<1>2. \A k, l \in 1..6 : Fields[k] = Fields[l] => k = l
  <2>1. \A k \in 1..6 : k \in {1, 2, 3, 4, 5, 6}
    OBVIOUS
  <2> QED
    BY <2>1 DEF Fields
<1> QED
  BY <1>1, <1>2 DEF Field

LEMMA BumpStep ==
  ASSUME SnapInv, NEW field \in Field, NEW n \in Nat, Bump(field, n)
  PROVE  SnapInv'
<1>1. /\ counter' = [counter EXCEPT ![field] = (counter[field] + n) % Modulus]
      /\ history' = [r \in Readers |-> IF pos[r] \in 1..(Len(Fields) - 1)
                                       THEN Append(history[r], counter') ELSE history[r]]
      /\ snap' = snap /\ pos' = pos
  BY DEF Bump
<1>2. counter' \in [Field -> Nat]
  <2>1. counter[field] \in Nat /\ Modulus \in Nat \ {0}
    BY CountersAssumption DEF SnapInv
  <2>2. (counter[field] + n) % Modulus \in Nat
    BY <2>1
  <2> QED
    BY <1>1, <2>2 DEF SnapInv
<1>3. ASSUME NEW r \in Readers
      PROVE  /\ history'[r] \in Seq([Field -> Nat])
             /\ pos[r] \in 1..(Len(Fields) - 1) =>
                  history'[r] # << >> /\ history'[r][Len(history'[r])] = counter'
             /\ Len(history[r]) \in Nat /\ Len(history'[r]) \in Nat
             /\ Len(history[r]) <= Len(history'[r])
             /\ \A j \in 1..Len(history[r]) : history'[r][j] = history[r][j]
  <2>1. history[r] \in Seq([Field -> Nat]) /\ Len(history[r]) \in Nat
    BY LenProperties DEF SnapInv
  <2>2. CASE pos[r] \in 1..(Len(Fields) - 1)
    <3>1. history'[r] = Append(history[r], counter')
      BY <1>1, <2>2
    <3> QED
      BY <1>2, <2>1, <3>1, AppendProperties
  <2>3. CASE pos[r] \notin 1..(Len(Fields) - 1)
    BY <1>1, <2>1, <2>3
  <2> QED
    BY <2>2, <2>3
<1>4. history' \in [Readers -> Seq([Field -> Nat])]
  BY <1>1, <1>3
<1>5. ASSUME NEW r \in Readers, NEW k \in 1..pos[r]
      PROVE  \E j \in 1..Len(history'[r]) :
               snap[r][Fields[k]] = history'[r][j][Fields[k]]
  <2>1. PICK j \in 1..Len(history[r]) : snap[r][Fields[k]] = history[r][j][Fields[k]]
    BY DEF SnapInv
  <2>2. j \in 1..Len(history'[r]) /\ history'[r][j] = history[r][j]
    BY <1>3
  <2> QED
    BY <2>1, <2>2
<1>6. \A r \in Readers :
        pos[r] \in 1..(Len(Fields) - 1) =>
          history'[r] # << >> /\ history'[r][Len(history'[r])] = counter'
  BY <1>3
<1>7. /\ snap' \in [Readers -> [Field -> Nat]]
      /\ pos' \in [Readers -> 0..Len(Fields)]
  BY <1>1 DEF SnapInv
<1>8. \A r \in Readers :
        /\ pos'[r] \in 1..(Len(Fields) - 1) =>
             history'[r] # << >> /\ history'[r][Len(history'[r])] = counter'
        /\ \A k \in 1..pos'[r] : \E j \in 1..Len(history'[r]) :
             snap'[r][Fields[k]] = history'[r][j][Fields[k]]
  <2>1. pos' = pos /\ snap' = snap
    BY <1>1
  <2> QED
    BY <1>5, <1>6, <2>1, Zenon
<1> QED
  BY <1>2, <1>4, <1>7, <1>8 DEF SnapInv

LEMMA LoadStep ==
  ASSUME SnapInv, NEW r \in Readers, LoadNext(r)
  PROVE  SnapInv'
<1> DEFINE here == Fields[pos[r] + 1]
<1>0. Len(Fields) = 6
  BY FieldFacts
<1>1. /\ pos[r] \in 0..5 /\ pos' = [pos EXCEPT ![r] = pos[r] + 1]
      /\ snap' = [snap EXCEPT ![r][here] = counter[here]] /\ counter' = counter
      /\ history' = IF pos[r] = 0 THEN [history EXCEPT ![r] = <<counter>>] ELSE history
  BY <1>0 DEF LoadNext, SnapInv
<1>2. here \in Field /\ \A k \in 1..pos[r] : Fields[k] # here
  BY <1>1, FieldFacts
<1> HIDE DEF here
<1>3. /\ history' \in [Readers -> Seq([Field -> Nat])]
      /\ history'[r] # << >> /\ Len(history'[r]) \in Nat \ {0}
      /\ history'[r][Len(history'[r])] = counter
      /\ pos[r] # 0 => history' = history
      /\ \A q \in Readers : q # r => history'[q] = history[q]
  <2>1. CASE pos[r] = 0
    <3>1. history'[r] = <<counter>> /\ <<counter>> \in Seq([Field -> Nat])
      BY <1>1, <2>1 DEF SnapInv
    <3> QED
      BY <1>1, <2>1, <3>1 DEF SnapInv
  <2>2. CASE pos[r] # 0
    <3>1. pos[r] \in 1..(Len(Fields) - 1) /\ history' = history
      BY <1>0, <1>1, <2>2
    <3>2. history[r] # << >> /\ history[r][Len(history[r])] = counter
      BY <3>1 DEF SnapInv
    <3>3. Len(history[r]) \in Nat \ {0}
      BY <3>2, LenProperties, EmptySeq DEF SnapInv
    <3> QED
      BY <3>1, <3>2, <3>3 DEF SnapInv
  <2> QED
    BY <2>1, <2>2
<1>4. /\ snap' \in [Readers -> [Field -> Nat]] /\ snap'[r][here] = counter[here]
      /\ \A f \in Field : f # here => snap'[r][f] = snap[r][f]
      /\ \A q \in Readers : q # r => snap'[q] = snap[q]
  BY <1>1, <1>2 DEF SnapInv
<1>5. ASSUME NEW k \in 1..pos'[r]
      PROVE  \E j \in 1..Len(history'[r]) :
               snap'[r][Fields[k]] = history'[r][j][Fields[k]]
  <2>0. pos'[r] = pos[r] + 1
    BY <1>1 DEF SnapInv
  <2>1. CASE k = pos[r] + 1
    <3>1. Fields[k] = here
      BY <2>1 DEF here
    <3>2. Len(history'[r]) \in 1..Len(history'[r])
      BY <1>3
    <3> QED
      BY <1>3, <1>4, <3>1, <3>2
  <2>2. CASE k # pos[r] + 1
    <3>1. k \in 1..pos[r] /\ pos[r] # 0 /\ Fields[k] \in Field
      BY <1>1, <2>0, <2>2, FieldFacts
    <3>2. PICK j \in 1..Len(history[r]) : snap[r][Fields[k]] = history[r][j][Fields[k]]
      BY <3>1 DEF SnapInv
    <3> QED
      BY <1>2, <1>3, <1>4, <3>1, <3>2
  <2> QED
    BY <2>1, <2>2
<1>6. pos' \in [Readers -> 0..Len(Fields)] /\ \A q \in Readers : q # r => pos'[q] = pos[q]
  BY <1>0, <1>1 DEF SnapInv
<1>7. counter' \in [Field -> Nat]
  BY <1>1 DEF SnapInv
<1>8. ASSUME NEW q \in Readers
      PROVE  /\ pos'[q] \in 1..(Len(Fields) - 1) =>
                  history'[q] # << >> /\ history'[q][Len(history'[q])] = counter'
             /\ \A k \in 1..pos'[q] : \E j \in 1..Len(history'[q]) :
                  snap'[q][Fields[k]] = history'[q][j][Fields[k]]
  <2>1. CASE q = r
    BY <1>1, <1>3, <1>5, <2>1
  <2>2. CASE q # r
    <3>1. pos'[q] = pos[q] /\ snap'[q] = snap[q]
      BY <1>4, <1>6, <2>2
    <3>2. history'[q] = history[q] /\ counter' = counter
      BY <1>1, <1>3, <2>2
    <3>3. /\ pos[q] \in 1..(Len(Fields) - 1) =>
              history[q] # << >> /\ history[q][Len(history[q])] = counter
          /\ \A k \in 1..pos[q] : \E j \in 1..Len(history[q]) :
              snap[q][Fields[k]] = history[q][j][Fields[k]]
      BY DEF SnapInv
    <3> QED
      BY <3>1, <3>2, <3>3, Zenon
  <2> QED
    BY <2>1, <2>2
<1> QED
  BY <1>3, <1>4, <1>6, <1>7, <1>8 DEF SnapInv

LEMMA LogStep ==
  ASSUME SnapInv, NEW r \in Readers, Logged(r)
  PROVE  SnapInv'
<1>1. /\ pos' = [pos EXCEPT ![r] = 0] /\ snap' = [snap EXCEPT ![r] = Zero]
      /\ history' = [history EXCEPT ![r] = << >>] /\ counter' = counter
  BY DEF Logged
<1>2. Zero \in [Field -> Nat] /\ << >> \in Seq([Field -> Nat]) /\ Len(Fields) = 6
  BY FieldFacts DEF Zero
<1> QED
  BY <1>1, <1>2 DEF SnapInv

(* What every writer still has to add goes to a field.                     *)
OwedInv ==
  /\ owed \in [Writers -> [field : Field \cup {None}, bytes : Nat]]
  /\ \A w \in Writers : owed[w] # NothingOwed => owed[w].field \in Field

LEMMA CounterStep ==
  ASSUME SnapInv, OwedInv, [Next]_vars
  PROVE  SnapInv' /\ OwedInv'
<1>1. /\ "rxPackets" \in Field /\ "rxBytes" \in Field /\ "txPackets" \in Field
      /\ "txBytes" \in Field /\ "droppedPackets" \in Field /\ "errors" \in Field
  <2>1. /\ "rxPackets" = Fields[1] /\ "rxBytes" = Fields[2] /\ "txPackets" = Fields[3]
        /\ "txBytes" = Fields[4] /\ "droppedPackets" = Fields[5] /\ "errors" = Fields[6]
    BY DEF Fields
  <2> QED
    BY <2>1, FieldFacts
<1>2. NothingOwed \in [field : Field \cup {None}, bytes : Nat]
  BY DEF NothingOwed
<1>3. ASSUME NEW w \in Writers, AddRX(w) \/ AddTX(w)
      PROVE  SnapInv' /\ OwedInv'
  <2>1. PICK packets \in Field, bytes \in Field, size \in Sizes :
          AddPacket(w, packets, bytes, size)
    BY <1>1, <1>3 DEF AddRX, AddTX
  <2>2. size \in Nat
    BY CountersAssumption
  <2>3. SnapInv'
    BY <2>1, BumpStep DEF AddPacket
  <2>4. OwedInv'
    BY <2>1, <2>2 DEF AddPacket, OwedInv
  <2> QED
    BY <2>3, <2>4
<1>4. ASSUME NEW w \in Writers, AddBytes(w)
      PROVE  SnapInv' /\ OwedInv'
  <2>1. owed[w].field \in Field /\ owed[w].bytes \in Nat
    BY <1>4 DEF AddBytes, OwedInv
  <2>2. SnapInv'
    BY <1>4, <2>1, BumpStep DEF AddBytes
  <2>3. OwedInv'
    BY <1>2, <1>4 DEF AddBytes, OwedInv
  <2> QED
    BY <2>2, <2>3
<1>5. ASSUME NEW w \in Writers, AddDrop(w) \/ AddError(w)
      PROVE  SnapInv' /\ OwedInv'
  <2>1. SnapInv'
    BY <1>1, <1>5, BumpStep DEF AddDrop, AddError
  <2> QED
    BY <1>5, <2>1 DEF AddDrop, AddError, OwedInv
<1>6. ASSUME NEW r \in Readers, LoadNext(r) \/ Logged(r)
      PROVE  SnapInv' /\ OwedInv'
  <2>1. SnapInv'
    BY <1>6, LoadStep, LogStep
  <2> QED
    BY <1>6, <2>1 DEF LoadNext, Logged, OwedInv
<1>7. CASE UNCHANGED vars
  BY <1>7 DEF vars, SnapInv, OwedInv
<1> QED
  BY <1>3, <1>4, <1>5, <1>6, <1>7 DEF Next

LEMMA CounterInit == Init => SnapInv /\ OwedInv
<1> SUFFICES ASSUME Init PROVE SnapInv /\ OwedInv
  OBVIOUS
<1>1. Zero \in [Field -> Nat] /\ << >> \in Seq([Field -> Nat]) /\ Len(Fields) = 6
  BY FieldFacts DEF Zero
<1>2. SnapInv
  BY <1>1 DEF Init, SnapInv
<1>3. NothingOwed \in [field : Field \cup {None}, bytes : Nat]
  BY DEF NothingOwed
<1> QED
  BY <1>2, <1>3 DEF Init, OwedInv

(* Each field of a complete Snapshot is a value its counter had while the  *)
(* snapshot was taken (Counters.Snapshot), whatever is counted meanwhile.  *)
THEOREM FieldsAreReal == Spec => []SnapshotFieldsReal
<1>1. SnapInv => SnapshotFieldsReal
  <2> SUFFICES ASSUME SnapInv, NEW r \in Readers, Complete(r), NEW f \in Field
               PROVE  \E k \in DOMAIN history[r] : snap[r][f] = history[r][k][f]
    BY DEF SnapshotFieldsReal
  <2>1. pos[r] = 6
    BY FieldFacts DEF Complete
  <2>2. PICK k \in 1..6 : f = Fields[k]
    BY FieldFacts
  <2>3. PICK j \in 1..Len(history[r]) : snap[r][f] = history[r][j][f]
    BY <2>1, <2>2 DEF SnapInv
  <2>4. DOMAIN history[r] = 1..Len(history[r])
    BY LenProperties DEF SnapInv
  <2> QED
    BY <2>3, <2>4
<1> QED
  BY <1>1, CounterInit, CounterStep, PTL DEF Spec
=============================================================================
