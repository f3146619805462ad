-------------------------------- MODULE Uds --------------------------------
(***************************************************************************)
(* fill_did_data_bits() of activate/uds.h writes a value into the bits     *)
(* st_bit to sp_bit of a record, lowest bit first, and compares what it    *)
(* wrote with compare_did_data_bits().  A byte and the value are functions *)
(* from the number of a bit to the bit.                                    *)
(***************************************************************************)
EXTENDS Integers

CONSTANTS Size,   \* how many bytes did_data has
          Width,  \* 32: the bits of uint32_t
          Marks,  \* the values of st_bit and sp_bit
          Values  \* the values of u_action_value

Bit   == {0, 1}
Value == [0..(Width - 1) -> Bit]

VARIABLES pc, did_data,
          st_bit, sp_bit, u_tmp_action_value,  \* the arguments
          index,                               \* of the loops
          u_action_value                       \* what is left of the value

vars == <<pc, did_data, st_bit, sp_bit, u_tmp_action_value, index, u_action_value>>

arguments == <<st_bit, sp_bit, u_tmp_action_value>>

\* Every byte is 1 at first.
InitialBit(n) == IF n % 8 = 0 THEN 1 ELSE 0

Init ==
    /\ pc = "check"
    /\ did_data = [byte \in 0..(Size - 1) |-> [bit \in 0..7 |-> InitialBit(bit)]]
    /\ st_bit \in Marks
    /\ sp_bit \in Marks
    /\ u_tmp_action_value \in Values
    /\ index = st_bit
    /\ u_action_value = u_tmp_action_value

ByteOf(n) == n \div 8
BitOf(n)  == n % 8

Halved(v) == [k \in 0..(Width - 1) |-> IF k = Width - 1 THEN 0 ELSE v[k + 1]]

-----------------------------------------------------------------------------
\* Mutant: the size is not looked at.
InOrder == ByteOf(st_bit) <= ByteOf(sp_bit)

\* check_did_bits_mark(): the size may also be equal to the last byte.
MarksAreGood == ByteOf(st_bit) <= ByteOf(sp_bit) /\ Size >= ByteOf(sp_bit)

CheckMarks ==
    /\ pc = "check"
    /\ pc' = IF MarksAreGood THEN "fill" ELSE "refused"
    /\ UNCHANGED <<did_data, arguments, index, u_action_value>>

\* did_data[byte] is not checked: what comes after the record may be anything.
BeyondRecord ==
    /\ pc \in {"fill", "compare"}
    /\ index <= sp_bit
    /\ ByteOf(index) >= Size
    /\ pc' = "undefined"
    /\ UNCHANGED <<did_data, arguments, index, u_action_value>>

\* Mutant: a bit that is set is not cleared.
SetOnly(byte, bit) ==
    [did_data EXCEPT ![byte][bit] = IF u_action_value[0] = 1 THEN 1 ELSE did_data[byte][bit]]

Written(byte, bit) == [did_data EXCEPT ![byte][bit] = u_action_value[0]]

FillBit ==
    /\ pc = "fill"
    /\ index <= sp_bit
    /\ ByteOf(index) < Size
    /\ did_data' = Written(ByteOf(index), BitOf(index))
    /\ u_action_value' = Halved(u_action_value)
    /\ index' = index + 1
    /\ UNCHANGED <<pc, arguments>>

\* Mutant: the comparison goes on with what is left of the value.
CompareTheRest ==
    /\ pc = "fill"
    /\ index > sp_bit
    /\ pc' = "compare"
    /\ index' = st_bit
    /\ UNCHANGED <<did_data, arguments, u_action_value>>

Filled ==
    /\ pc = "fill"
    /\ index > sp_bit
    /\ pc' = "compare"
    /\ index' = st_bit
    /\ u_action_value' = u_tmp_action_value
    /\ UNCHANGED <<did_data, arguments>>

\* compare_did_data_bits() returns at the first bit that differs.
CompareBit ==
    /\ pc = "compare"
    /\ index <= sp_bit
    /\ ByteOf(index) < Size
    /\ pc' = IF did_data[ByteOf(index)][BitOf(index)] = u_action_value[0] THEN "compare"
                                                                          ELSE "differs"
    /\ u_action_value' = Halved(u_action_value)
    /\ index' = index + 1
    /\ UNCHANGED <<did_data, arguments>>

Compared ==
    /\ pc = "compare"
    /\ index > sp_bit
    /\ pc' = "equal"
    /\ UNCHANGED <<did_data, arguments, index, u_action_value>>

Next == CheckMarks \/ BeyondRecord \/ FillBit \/ Filled \/ CompareBit \/ Compared

Spec == Init /\ [][Next]_vars

-----------------------------------------------------------------------------
(* What must hold. *)

\* Bit n of the record after a call: the marked bits hold the value, lowest bit first and
\* zeros when the value has no more, and no other bit of the record changes.
BitAfter(n) ==
    IF n \notin st_bit..sp_bit THEN InitialBit(n)
    ELSE IF n - st_bit < Width THEN u_tmp_action_value[n - st_bit] ELSE 0

\* The record is filled as the marks say, across the borders of bytes, and what was
\* written compares equal to the value it was written from.
FillsTheMarkedBits ==
    /\ pc \in {"compare", "equal"} =>
         \A n \in 0..(8 * Size - 1) : did_data[ByteOf(n)][BitOf(n)] = BitAfter(n)
    /\ pc # "differs"

\* The marks that pass the check lead at most to the one byte behind the record, and only
\* if they end in it: st_bit or sp_bit further off is refused.
OneByteBeyondAtMost == pc = "undefined" => ByteOf(sp_bit) = Size
=============================================================================
