----------------------------------- MODULE MCI2C -----------------------------------
(***************************************************************************)
(* One job for every I2C generator, at the smallest legal half period.     *)
(***************************************************************************)
EXTENDS I2CBus, MCEngine

Half == 4
Limit == 6

Transactions ==
  {[program |-> F!i2c_write(80, 105, Half, Limit), bytes |-> << >>,
    carries |-> <<160, 105>>, repeated |-> 0, reads |-> 0, half |-> Half, limit |-> Limit],
   [program |-> F!i2c_write_stream(80, 3, Half, Limit), bytes |-> <<165, 60, 255>>,
    carries |-> <<160, 165, 60, 255>>, repeated |-> 0, reads |-> 0, half |-> Half, limit |-> Limit],
   [program |-> F!i2c_read(80, 3, Half, Limit), bytes |-> << >>,
    carries |-> <<161>>, repeated |-> 0, reads |-> 3, half |-> Half, limit |-> Limit],
   [program |-> F!i2c_transaction(3, 1, Half, Limit), bytes |-> <<160, 7, 161>>,
    carries |-> <<160, 7, 161>>, repeated |-> 1, reads |-> 1, half |-> Half, limit |-> Limit]}

I2CJobs == {j \in Transactions : F!encode(j.program)}

I2CPrograms == {j.program : j \in I2CJobs}
I2CWords == UNION {{p[i] : i \in DOMAIN p} : p \in I2CPrograms}
I2CBytes == {0, PopReceived} \cup UNION {{j.bytes[i] : i \in DOMAIN j.bytes} : j \in I2CJobs}

I2CSpec == BusSpec /\ WF_i2cVars(Delivering)
=====================================================================================
