----------------------------- MODULE MCSamples -----------------------------
(***************************************************************************)
(* The small programs that main() calls, of which one runs at a time: the  *)
(* two pairs of a producer and a consumer, TestHandler and                 *)
(* produce_consume.h, test_wait_for(), and the UDS bit codec.  They share  *)
(* nothing.                                                                *)
(***************************************************************************)
EXTENDS TestHandler

CONSTANTS Count, MaxAccidents, Size, Width, Marks

ASSUME SamplesAssumption ==
    /\ Count \in Nat
    /\ MaxAccidents \in Nat
    /\ Size \in Nat
    /\ Width \in Nat \ {0}
    /\ Marks \subseteq Nat

VARIABLES sample,
          handler, test,
          bareConsumer, i, bareProducer, notified, accidents,
          pc, did_data, st_bit, sp_bit, u_tmp_action_value, index, u_action_value

bareVars == <<bareConsumer, i, bareProducer, notified, accidents>>

waitVars == <<handler, test>>

udsVars == <<pc, did_data, st_bit, sp_bit, u_tmp_action_value, index, u_action_value>>

\* All the values that u_action_value can hold.
Values == [0..(Width - 1) -> {0, 1}]

Bare == INSTANCE ProduceConsume WITH consumer <- bareConsumer, producer <- bareProducer

TimedWait == INSTANCE WaitFor

Codec == INSTANCE Uds

MCInit ==
    /\ sample \in {"TestHandler", "produce_consume", "test_wait_for", "uds"}
    /\ Init
    /\ Bare!Init
    /\ TimedWait!Init
    /\ Codec!Init
    /\ sample # "uds" => st_bit = 0 /\ sp_bit = 0
                        /\ u_action_value = [k \in 0..(Width - 1) |-> 0]

MCNext ==
    \/ sample = "TestHandler" /\ Next /\ UNCHANGED <<sample, bareVars, waitVars, udsVars>>
    \/ sample = "produce_consume" /\ Bare!Next /\ UNCHANGED <<sample, vars, waitVars, udsVars>>
    \/ sample = "test_wait_for" /\ TimedWait!Next /\ UNCHANGED <<sample, vars, bareVars, udsVars>>
    \/ sample = "uds" /\ Codec!Next /\ UNCHANGED <<sample, vars, bareVars, waitVars>>

MCSpec ==
    /\ MCInit
    /\ [][MCNext]_<<sample, vars, bareVars, waitVars, udsVars>>
    /\ WF_vars(sample = "TestHandler" /\ Consumer)
    /\ SF_vars(sample = "TestHandler" /\ Producer)
    /\ WF_waitVars(sample = "test_wait_for" /\ TimedWait!Handler)
    /\ WF_waitVars(sample = "test_wait_for" /\ TimedWait!Test)

-----------------------------------------------------------------------------
\* The properties of the parts.
EndsByAccidentOnly == Bare!EndsByAccidentOnly

FillsTheMarkedBits == Codec!FillsTheMarkedBits

OneByteBeyondAtMost == Codec!OneByteBeyondAtMost

\* start() of TestHandler and test_wait_for() return when they are called, also when a
\* notification is sent before anybody waits for it.
LostNotificationsAreSurvived ==
    /\ sample = "TestHandler" => StartReturns
    /\ sample = "test_wait_for" => TimedWait!TestReturns
=============================================================================
