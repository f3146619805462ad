---------------------------- MODULE SamplesProof ----------------------------
(***************************************************************************)
(* Proofs about the two samples of MCSamples that have no proof module of  *)
(* their own, for any number of notifications, any size of the record and  *)
(* of the value, and any marks: the producer and consumer on a bare        *)
(* condition variable, and the UDS bit codec.                              *)
(*                                                                         *)
(* Which sample runs does not matter to the others: a step of MCSamples is *)
(* a step or a stutter of each part, so that what is proved of a part from *)
(* its own Init and Next is true of the whole.                             *)
(***************************************************************************)
EXTENDS MCSamples, TLAPS

mcVars == <<sample, vars, bareVars, waitVars, udsVars>>

\* A step of the whole is a step of a part, or leaves the part alone.
LEMMA StepsAreSteps ==
    ASSUME [MCNext]_mcVars
    PROVE  /\ [Next]_vars
           /\ [Bare!Next]_(Bare!vars)
           /\ [TimedWait!Next]_(TimedWait!vars)
           /\ [Codec!Next]_(Codec!vars)
  BY DEF MCNext, mcVars, vars, bareVars, waitVars, udsVars,
         Bare!vars, TimedWait!vars, Codec!vars

\* Each sample runs as if it were alone: what is proved of TestHandler, ProduceConsume,
\* WaitFor and Uds from their steps is true of every behaviour that the run explores.
THEOREM PartsRunAlone ==
    MCSpec => /\ Init /\ [][Next]_vars
              /\ Bare!Spec
              /\ TimedWait!Init /\ [][TimedWait!Next]_(TimedWait!vars)
              /\ Codec!Spec
  <1>1. MCInit => Init /\ Bare!Init /\ TimedWait!Init /\ Codec!Init
    BY DEF MCInit
  <1> QED
    BY <1>1, StepsAreSteps, PTL DEF MCSpec, mcVars, Bare!Spec, Codec!Spec

-----------------------------------------------------------------------------
(* produce_consume.h *)

\* A wait that is over, or about to be, used up a wake-up of its own.
WaitsAreWakeUps ==
    /\ i <= notified + accidents
    /\ bareConsumer = "woken" => i < notified + accidents

\* A consumer that left its loop has all its waits behind it.
BareOK ==
    /\ Bare!TypeOK
    /\ WaitsAreWakeUps
    /\ bareConsumer = "done" <=> i > Count
    /\ bareProducer = "done" => bareConsumer = "done"

\* Every step of the two threads keeps the wake-ups and the waits in balance.
LEMMA BalanceStep == ASSUME BareOK, [Bare!Next]_(Bare!vars) PROVE BareOK'
  <1> USE SamplesAssumption DEF BareOK, Bare!TypeOK, WaitsAreWakeUps
  <1>1. CASE Bare!Wait
    BY <1>1 DEF Bare!Wait
  <1>2. CASE Bare!SpuriousWakeup
    BY <1>2 DEF Bare!SpuriousWakeup
  <1>3. CASE Bare!Relock
    BY <1>3 DEF Bare!Relock
  <1>4. CASE Bare!SleepEnds
    BY <1>4 DEF Bare!SleepEnds
  <1>5. CASE Bare!Notify
    BY <1>5 DEF Bare!Notify
  <1>6. CASE Bare!Unlock
    BY <1>6 DEF Bare!Unlock
  <1>7. CASE Bare!Join
    BY <1>7 DEF Bare!Join
  <1>8. CASE UNCHANGED Bare!vars
    BY <1>8 DEF Bare!vars
  <1> QED
    BY <1>1, <1>2, <1>3, <1>4, <1>5, <1>6, <1>7, <1>8 DEF Bare!Next

\* test_produce_consume() returns only if a wait of consume() ended that no notification
\* ended, for any number of notifications and one wait more.
THEOREM ReturnsByAccidentOnly == MCSpec => []EndsByAccidentOnly
  <1>1. MCInit => BareOK
    BY SamplesAssumption
       DEF MCInit, Bare!Init, BareOK, Bare!TypeOK, WaitsAreWakeUps
  <1>2. BareOK /\ [MCNext]_mcVars => BareOK'
    BY BalanceStep, StepsAreSteps
  <1>3. BareOK => EndsByAccidentOnly
    BY SamplesAssumption
       DEF BareOK, Bare!TypeOK, WaitsAreWakeUps, EndsByAccidentOnly, Bare!EndsByAccidentOnly
  <1> QED
    BY <1>1, <1>2, <1>3, PTL DEF MCSpec, mcVars

-----------------------------------------------------------------------------
(* fill_did_data_bits() *)

ByteOf(n) == Codec!ByteOf(n)
BitOf(n)  == Codec!BitOf(n)

Positions == 0..(8 * Size - 1)

\* What is left of the value after n bits.
ShiftedBy(n) ==
    [k \in 0..(Width - 1) |-> IF k + n < Width THEN u_tmp_action_value[k + n] ELSE 0]

CodecTypeOK ==
    /\ pc \in {"check", "refused", "fill", "undefined", "compare", "differs", "equal"}
    /\ did_data \in [0..(Size - 1) -> [0..7 -> {0, 1}]]
    /\ st_bit \in Nat /\ sp_bit \in Nat /\ index \in Nat
    /\ u_tmp_action_value \in Values

\* The loops run from st_bit to sp_bit, and shift the value with every bit.
LoopsOK ==
    /\ pc \in {"check", "fill", "compare"} =>
          /\ st_bit <= index
          /\ index <= sp_bit + 1 \/ index = st_bit
          /\ u_action_value = ShiftedBy(index - st_bit)
    /\ pc = "check" => index = st_bit
    /\ pc \in {"fill", "compare"} => Codec!MarksAreGood

\* The record while it is filled: the bits below index are written.
FilledSoFar ==
    pc \in {"check", "fill"} =>
        \A n \in Positions :
            did_data[ByteOf(n)][BitOf(n)] = IF n < index THEN Codec!BitAfter(n)
                                            ELSE Codec!InitialBit(n)

CodecOK ==
    /\ CodecTypeOK
    /\ LoopsOK
    /\ FilledSoFar
    /\ FillsTheMarkedBits
    /\ OneByteBeyondAtMost

\* The bits of the record are numbered: each has one byte and one place in it.
LEMMA PositionsAreBits ==
    /\ \A n \in Nat : ByteOf(n) \in Nat /\ BitOf(n) \in 0..7 /\ n = 8 * ByteOf(n) + BitOf(n)
    /\ \A n \in Nat : n \in Positions <=> ByteOf(n) \in 0..(Size - 1)
    /\ \A m, n \in Nat : ByteOf(m) = ByteOf(n) /\ BitOf(m) = BitOf(n) => m = n
    /\ \A m, n \in Nat : m <= n => ByteOf(m) <= ByteOf(n)
  <1>1. \A n \in Nat : /\ n \div 8 \in Nat /\ n % 8 \in 0..7
                       /\ n = 8 * (n \div 8) + (n % 8)
    OBVIOUS
  <1> QED
    BY <1>1, SamplesAssumption DEF ByteOf, BitOf, Codec!ByteOf, Codec!BitOf, Positions

LEMMA PlaceOfPosition ==
    \A n \in Positions : n \in Nat /\ ByteOf(n) \in 0..(Size - 1) /\ BitOf(n) \in 0..7
  BY PositionsAreBits, SamplesAssumption DEF Positions

\* >>= 1 leaves the value of which one more bit is gone.
LEMMA HalvedIsShifted ==
    ASSUME CodecTypeOK, NEW n \in Nat
    PROVE  /\ Codec!Halved(ShiftedBy(n)) = ShiftedBy(n + 1)
           /\ ShiftedBy(n)[0] = IF n < Width THEN u_tmp_action_value[n] ELSE 0
           /\ ShiftedBy(n)[0] \in {0, 1}
           /\ ShiftedBy(0) = u_tmp_action_value
  <1>1. Width \in Nat \ {0} /\ u_tmp_action_value \in [0..(Width - 1) -> {0, 1}]
    BY SamplesAssumption DEF CodecTypeOK, Values
  <1> QED
    BY <1>1 DEF Codec!Halved, ShiftedBy

\* A bit that is written is the only one that changes.
LEMMA OneBitIsWritten ==
    ASSUME CodecTypeOK, NEW n \in Positions, NEW b \in {0, 1},
           did_data' = [did_data EXCEPT ![ByteOf(n)][BitOf(n)] = b]
    PROVE  /\ did_data' \in [0..(Size - 1) -> [0..7 -> {0, 1}]]
           /\ did_data'[ByteOf(n)][BitOf(n)] = b
           /\ \A m \in Positions :
                 m # n => did_data'[ByteOf(m)][BitOf(m)] = did_data[ByteOf(m)][BitOf(m)]
  <1>1. n \in Nat /\ ByteOf(n) \in 0..(Size - 1) /\ BitOf(n) \in 0..7
    BY PlaceOfPosition
  <1>2. did_data \in [0..(Size - 1) -> [0..7 -> {0, 1}]]
    BY DEF CodecTypeOK
  <1>3. ASSUME NEW m \in Positions, m # n
        PROVE  did_data'[ByteOf(m)][BitOf(m)] = did_data[ByteOf(m)][BitOf(m)]
    <2>1. /\ m \in Nat /\ ByteOf(m) \in 0..(Size - 1) /\ BitOf(m) \in 0..7
          /\ ByteOf(m) # ByteOf(n) \/ BitOf(m) # BitOf(n)
      BY <1>1, <1>3, PositionsAreBits, PlaceOfPosition
    <2> QED
      BY <1>1, <1>2, <2>1
  <1> QED
    BY <1>1, <1>2, <1>3

\* Every byte of the record is 1 at first, and no bit is written.
LEMMA CodecStarts == MCInit => CodecOK
  <1> SUFFICES ASSUME MCInit PROVE CodecOK
    OBVIOUS
  <1> USE DEF MCInit, Codec!Init
  <1>1. CodecTypeOK
    BY SamplesAssumption DEF CodecTypeOK, Codec!InitialBit
  <1>2. LoopsOK
    <2>1. index - st_bit = 0
      BY SamplesAssumption
    <2>2. u_action_value = ShiftedBy(0)
      BY <1>1, HalvedIsShifted
    <2> QED
      BY <1>1, <2>1, <2>2 DEF LoopsOK, CodecTypeOK
  <1>3. FilledSoFar
    <2> SUFFICES ASSUME NEW n \in Positions
                 PROVE  did_data[ByteOf(n)][BitOf(n)] = Codec!InitialBit(n)
                        /\ (n < index => Codec!BitAfter(n) = Codec!InitialBit(n))
      BY DEF FilledSoFar
    <2>1. n \in Nat /\ ByteOf(n) \in 0..(Size - 1) /\ BitOf(n) \in 0..7
      BY PlaceOfPosition
    <2>2. did_data[ByteOf(n)][BitOf(n)] = Codec!InitialBit(BitOf(n))
      BY <2>1
    <2>3. Codec!InitialBit(BitOf(n)) = Codec!InitialBit(n)
      BY <2>1 DEF BitOf, Codec!BitOf, Codec!InitialBit
    <2> QED
      BY <1>1, <2>1, <2>2, <2>3 DEF Codec!BitAfter, CodecTypeOK
  <1> QED
    BY <1>1, <1>2, <1>3 DEF CodecOK, FillsTheMarkedBits, Codec!FillsTheMarkedBits,
       OneByteBeyondAtMost, Codec!OneByteBeyondAtMost

LEMMA CheckStep == ASSUME CodecOK, Codec!CheckMarks PROVE CodecOK'
  <1> USE DEF Codec!CheckMarks, Codec!arguments, CodecOK
  <1>1. CodecTypeOK'
    BY DEF CodecTypeOK
  <1>2. LoopsOK'
    BY DEF LoopsOK, ShiftedBy, Codec!MarksAreGood
  <1>3. FilledSoFar'
    BY DEF FilledSoFar, Codec!BitAfter
  <1> QED
    BY <1>1, <1>2, <1>3
       DEF FillsTheMarkedBits, Codec!FillsTheMarkedBits,
           OneByteBeyondAtMost, Codec!OneByteBeyondAtMost

\* The check lets sp_bit be in the byte behind the record, and no further.
LEMMA BeyondStep == ASSUME CodecOK, Codec!BeyondRecord PROVE CodecOK'
  <1> USE DEF Codec!BeyondRecord, Codec!arguments, CodecOK
  <1>1. CodecTypeOK'
    BY DEF CodecTypeOK
  <1>2. OneByteBeyondAtMost'
    <2>1. ByteOf(index) <= ByteOf(sp_bit) /\ ByteOf(index) \in Nat /\ ByteOf(sp_bit) \in Nat
      BY PositionsAreBits DEF CodecTypeOK
    <2>2. Size >= ByteOf(sp_bit) /\ ByteOf(index) >= Size
      BY DEF LoopsOK, Codec!MarksAreGood, ByteOf
    <2> QED
      BY <2>1, <2>2, SamplesAssumption
         DEF OneByteBeyondAtMost, Codec!OneByteBeyondAtMost, ByteOf
  <1> QED
    BY <1>1, <1>2 DEF LoopsOK, FilledSoFar, FillsTheMarkedBits, Codec!FillsTheMarkedBits

\* The loop has come to a bit of the record, of the value or behind its end.
LEMMA BitAtIndex ==
    ASSUME CodecOK, pc \in {"fill", "compare"}, index <= sp_bit, Codec!ByteOf(index) < Size
    PROVE  /\ index \in Positions /\ index \in st_bit..sp_bit /\ index - st_bit \in Nat
           /\ u_action_value = ShiftedBy(index - st_bit)
           /\ u_action_value[0] = Codec!BitAfter(index) /\ u_action_value[0] \in {0, 1}
           /\ Codec!Halved(u_action_value) = ShiftedBy(index + 1 - st_bit)
  <1>1. /\ index \in Nat /\ st_bit \in Nat /\ sp_bit \in Nat /\ CodecTypeOK
        /\ st_bit <= index /\ u_action_value = ShiftedBy(index - st_bit)
    BY DEF CodecOK, CodecTypeOK, LoopsOK
  <1>2. index \in Positions
    BY <1>1, PositionsAreBits, SamplesAssumption DEF ByteOf
  <1>3. index - st_bit \in Nat /\ index + 1 - st_bit = (index - st_bit) + 1
    BY <1>1
  <1>4. /\ Codec!Halved(u_action_value) = ShiftedBy(index + 1 - st_bit)
        /\ u_action_value[0] = IF index - st_bit < Width
                               THEN u_tmp_action_value[index - st_bit] ELSE 0
        /\ u_action_value[0] \in {0, 1}
    BY <1>1, <1>3, HalvedIsShifted
  <1> QED
    BY <1>1, <1>2, <1>3, <1>4 DEF Codec!BitAfter

LEMMA FillStep == ASSUME CodecOK, Codec!FillBit PROVE CodecOK'
  <1> USE DEF Codec!FillBit, Codec!arguments
  <1>1. /\ index \in Positions /\ index \in st_bit..sp_bit
        /\ u_action_value[0] = Codec!BitAfter(index) /\ u_action_value[0] \in {0, 1}
        /\ Codec!Halved(u_action_value) = ShiftedBy(index + 1 - st_bit)
    BY BitAtIndex
  <1>2. did_data' = [did_data EXCEPT ![ByteOf(index)][BitOf(index)] = u_action_value[0]]
    BY DEF Codec!Written, ByteOf, BitOf
  <1>3. /\ did_data' \in [0..(Size - 1) -> [0..7 -> {0, 1}]]
        /\ did_data'[ByteOf(index)][BitOf(index)] = u_action_value[0]
        /\ \A m \in Positions :
              m # index => did_data'[ByteOf(m)][BitOf(m)] = did_data[ByteOf(m)][BitOf(m)]
    BY <1>1, <1>2, OneBitIsWritten DEF CodecOK
  <1>4. CodecTypeOK'
    BY <1>3 DEF CodecOK, CodecTypeOK
  <1>5. LoopsOK'
    BY <1>1 DEF CodecOK, CodecTypeOK, LoopsOK, ShiftedBy, Codec!MarksAreGood
  <1>6. FilledSoFar'
    <2> SUFFICES ASSUME NEW n \in Positions
                 PROVE  did_data'[ByteOf(n)][BitOf(n)]
                           = IF n < index + 1 THEN Codec!BitAfter(n) ELSE Codec!InitialBit(n)
      BY DEF FilledSoFar, Codec!BitAfter
    <2>1. n \in Nat /\ index \in Nat
      BY SamplesAssumption DEF Positions, CodecOK, CodecTypeOK
    <2>2. CASE n = index
      BY <1>1, <1>3, <2>1, <2>2
    <2>3. CASE n # index
      BY <1>3, <2>1, <2>3 DEF CodecOK, FilledSoFar
    <2> QED
      BY <2>2, <2>3
  <1> QED
    BY <1>4, <1>5, <1>6 DEF CodecOK, FillsTheMarkedBits, Codec!FillsTheMarkedBits,
       OneByteBeyondAtMost, Codec!OneByteBeyondAtMost

\* Behind the last bit the record holds the value.
LEMMA FilledStep == ASSUME CodecOK, Codec!Filled PROVE CodecOK'
  <1> USE DEF Codec!Filled, Codec!arguments
  <1>1. CodecTypeOK /\ CodecTypeOK'
    BY DEF CodecOK, CodecTypeOK
  <1>2. LoopsOK'
    <2>1. index' - st_bit' = 0 /\ st_bit' \in Nat
      BY <1>1 DEF CodecTypeOK
    <2>2. ShiftedBy(0)' = u_tmp_action_value'
      BY <1>1, HalvedIsShifted DEF ShiftedBy
    <2> QED
      BY <1>1, <2>1, <2>2 DEF CodecOK, CodecTypeOK, LoopsOK, Codec!MarksAreGood, ShiftedBy
  <1>3. \A n \in Positions : did_data[ByteOf(n)][BitOf(n)] = Codec!BitAfter(n)
    <2> TAKE n \in Positions
    <2>1. n \in Nat
      BY SamplesAssumption DEF Positions
    <2>2. did_data[ByteOf(n)][BitOf(n)] = IF n < index THEN Codec!BitAfter(n)
                                          ELSE Codec!InitialBit(n)
      BY DEF CodecOK, FilledSoFar
    <2>3. n >= index => n \notin st_bit..sp_bit
      BY <1>1, <2>1 DEF CodecTypeOK
    <2> QED
      BY <1>1, <2>1, <2>2, <2>3 DEF Codec!BitAfter, CodecTypeOK
  <1>4. FillsTheMarkedBits'
    BY <1>3 DEF FillsTheMarkedBits, Codec!FillsTheMarkedBits, Codec!BitAfter, ByteOf, BitOf,
       Positions
  <1> QED
    BY <1>1, <1>2, <1>4
       DEF CodecOK, FilledSoFar, OneByteBeyondAtMost, Codec!OneByteBeyondAtMost

\* The bit that is compared is the one that was written there.
LEMMA CompareStep == ASSUME CodecOK, Codec!CompareBit PROVE CodecOK'
  <1> USE DEF Codec!CompareBit, Codec!arguments
  <1>1. /\ index \in Positions /\ index \in st_bit..sp_bit
        /\ u_action_value[0] = Codec!BitAfter(index)
        /\ Codec!Halved(u_action_value) = ShiftedBy(index + 1 - st_bit)
    BY BitAtIndex
  <1>2. pc' = "compare"
    BY <1>1 DEF CodecOK, FillsTheMarkedBits, Codec!FillsTheMarkedBits, Positions
  <1>3. CodecTypeOK'
    BY <1>2 DEF CodecOK, CodecTypeOK
  <1>4. LoopsOK'
    BY <1>1, <1>2 DEF CodecOK, CodecTypeOK, LoopsOK, ShiftedBy, Codec!MarksAreGood
  <1>5. FillsTheMarkedBits'
    BY <1>2 DEF CodecOK, FillsTheMarkedBits, Codec!FillsTheMarkedBits, Codec!BitAfter
  <1> QED
    BY <1>2, <1>3, <1>4, <1>5 DEF CodecOK, FilledSoFar, OneByteBeyondAtMost,
       Codec!OneByteBeyondAtMost

LEMMA ComparedStep == ASSUME CodecOK, Codec!Compared PROVE CodecOK'
  BY DEF Codec!Compared, Codec!arguments, CodecOK, CodecTypeOK, LoopsOK, FilledSoFar,
     FillsTheMarkedBits, Codec!FillsTheMarkedBits, Codec!BitAfter,
     OneByteBeyondAtMost, Codec!OneByteBeyondAtMost

LEMMA CodecStep == ASSUME CodecOK, [MCNext]_mcVars PROVE CodecOK'
  <1>1. CASE UNCHANGED Codec!vars
    BY <1>1 DEF Codec!vars, CodecOK, CodecTypeOK, LoopsOK, ShiftedBy, Codec!MarksAreGood,
       FilledSoFar, FillsTheMarkedBits, Codec!FillsTheMarkedBits, Codec!BitAfter,
       OneByteBeyondAtMost, Codec!OneByteBeyondAtMost
  <1> QED
    BY <1>1, StepsAreSteps, CheckStep, BeyondStep, FillStep, FilledStep, CompareStep,
       ComparedStep DEF Codec!Next

\* fill_did_data_bits() writes the value to the marked bits and to no other, for every
\* record, value and pair of marks, and compare_did_data_bits() finds it there.
THEOREM MarkedBitsAreFilled == MCSpec => []FillsTheMarkedBits
  <1>1. CodecOK => FillsTheMarkedBits
    BY DEF CodecOK
  <1> QED
    BY <1>1, CodecStarts, CodecStep, PTL DEF MCSpec, mcVars

\* A call whose marks pass check_did_bits_mark() leaves the record only if sp_bit is in
\* the byte behind it.
THEOREM LeavesByOneByte == MCSpec => []OneByteBeyondAtMost
  <1>1. CodecOK => OneByteBeyondAtMost
    BY DEF CodecOK
  <1> QED
    BY <1>1, CodecStarts, CodecStep, PTL DEF MCSpec, mcVars
=============================================================================
