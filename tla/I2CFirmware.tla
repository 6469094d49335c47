-------------------------------- MODULE I2CFirmware --------------------------------
(***************************************************************************)
(* The I2C programs: SCL on lane 0 and SDA on lane 1, each driven low or   *)
(* released.  h is the half period, limit the timeout of every wait.       *)
(***************************************************************************)
EXTENDS Firmware

\* A line pulled low, and let go.
Low(lane, cycles) == patch({lane}, {}, {lane}, cycles)
Free(lane, cycles) == patch({lane}, {}, {}, cycles)

\* SCL let go, seen high, and held for half a period.
ReleaseClock(h, limit) == <<Free(0, 4), wait_pin(0, TRUE, limit), hold(h)>>

\* The clock is still high when the program turns to its queue.
i2c_start_clock_high(h, limit) ==
  <<drive({}, {}, h), wait_pin(0, TRUE, limit), wait_pin(1, TRUE, limit), Low(1, h)>>

i2c_start(h, limit) ==
  <<drive({}, {}, h), wait_pin(0, TRUE, limit), wait_pin(1, TRUE, limit),
    Low(1, h), Low(0, h)>>

\* SDA is let go before the clock has risen.
i2c_stop_early(h, limit) == <<Low(1, h), Free(1, h)>> \o ReleaseClock(h, limit)

i2c_stop(h, limit) == <<Low(1, h)>> \o ReleaseClock(h, limit) \o <<Free(1, h)>>

\* The bit is put on SDA when the clock has risen.
SendByteAfterRise(at, error, h, limit, sampling) ==
  <<hold(h), Free(0, 4), wait_pin(0, TRUE, limit), shift_out(1, FALSE, TRUE), hold(h)>>
  \o <<check_tx(1), Low(0, h), djnz(at), Free(1, h)>>
  \o ReleaseClock(h, limit) \o sampling
  \o <<branch_pin(1, TRUE, error), Low(0, h)>>

\* Eight bits from address at, then the acknowledge clock; error on NACK.  The
\* legacy program keeps the acknowledge for the host with a SAMPLE.
SendByte(at, error, h, limit, sampling) ==
  <<shift_out(1, FALSE, TRUE), hold(h)>> \o ReleaseClock(h, limit)
  \o <<check_tx(1), Low(0, h), djnz(at), Free(1, h)>>
  \o ReleaseClock(h, limit) \o sampling
  \o <<branch_pin(1, TRUE, error), Low(0, h)>>
i2c_send(at, error, h, limit) == SendByte(at, error, h, limit, << >>)
SendLength == Len(i2c_send(0, 0, 1, 1))

\* The trap without a STOP before it.
i2c_finish_no_stop(h, limit) ==
  i2c_stop(h, limit) \o <<HALT>> \o <<Low(0, h)>> \o <<TRAP>>

\* STOP and halt; then, as the target of a NACK, STOP and trap.
i2c_finish(h, limit) ==
  i2c_stop(h, limit) \o <<HALT>> \o <<Low(0, h)>> \o i2c_stop(h, limit) \o <<TRAP>>
ErrorOffset == Len(i2c_stop(1, 1)) + 1

i2c_write(address, byte, h, limit) ==
  LET send(at, error) == SendByte(at, error, h, limit, <<SAMPLE>>)
      start == i2c_start(h, limit)
      second == Len(start) + 1 + SendLength + 1
      error == second + 1 + SendLength + 1 + ErrorOffset
  IN  start \o <<load_byte(2 * address)>> \o send(Len(start) + 1, error)
      \o <<load_byte(byte)>> \o send(second + 1, error) \o i2c_finish(h, limit)

i2c_write_stream(address, count, h, limit) ==
  LET head == <<stream(count)>> \o i2c_start(h, limit) \o <<load_byte(2 * address)>>
      byte == Len(head) + SendLength
      error == byte + 1 + SendLength + 1 + ErrorOffset
  IN  head \o i2c_send(Len(head), error, h, limit)
      \o <<PULL>> \o i2c_send(byte + 1, error, h, limit)
      \o <<byte_loop(byte)>> \o i2c_finish(h, limit)

\* Bytes read from address at: eight bits, then ACK for all but the last, for
\* which SDA stays released.
ByteReads(at, h, limit) ==
  LET bit == at + 2
      final == bit + 7
  IN  <<load_byte(0), Free(1, h)>>
      \o ReleaseClock(h, limit) \o <<shift_in(1, FALSE), Low(0, h), djnz(bit), PUSH>>
      \o <<last_byte(final + 2), Low(1, h)>>
      \o ReleaseClock(h, limit) \o <<Low(0, h), Free(1, h), byte_loop(at)>>
ReadLength == Len(ByteReads(0, 1, 1))

i2c_read(address, count, h, limit) ==
  LET head == <<stream(count)>> \o i2c_start(h, limit) \o <<load_byte(2 * address + 1)>>
      byte == Len(head) + SendLength
  IN  head \o i2c_send(Len(head), byte + ReadLength + ErrorOffset, h, limit)
      \o ByteReads(byte, h, limit) \o i2c_finish(h, limit)

\* A repeated START that forgets to wait for the stretched clock.
RestartBlindly(send, h, limit) ==
  <<Free(1, h)>> \o <<Free(0, 4), hold(1), wait_pin(1, TRUE, limit), hold(h),
    Low(1, h), Low(0, h), jump(send)>>

\* A repeated START that pulls the byte it has already pulled.
RestartPullsAgain(send, h, limit) ==
  <<Free(1, h), Free(0, 4), wait_pin(0, TRUE, limit), wait_pin(1, TRUE, limit), hold(h),
    Low(1, h), Low(0, h), jump(send - 2)>>

Restart(send, h, limit) ==
  <<Free(1, h), Free(0, 4), wait_pin(0, TRUE, limit), wait_pin(1, TRUE, limit), hold(h),
    Low(1, h), Low(0, h), jump(send)>>

\* The host's bytes, the last of them after a repeated START; then the reads.
i2c_transaction(writes, reads, h, limit) ==
  LET head == <<stream(writes)>> \o i2c_start(h, limit)
      byte == Len(head)
      send == byte + 2
      read == send + SendLength + 2
      error == read + ReadLength + ErrorOffset
      restart == error + Len(i2c_stop(h, limit)) + 2
  IN  head \o <<PULL, last_byte(restart)>> \o i2c_send(send, error, h, limit)
      \o <<byte_loop(byte), stream(reads)>> \o ByteReads(read, h, limit)
      \o i2c_finish(h, limit) \o Restart(send, h, limit)
=====================================================================================
