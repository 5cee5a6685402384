------------------------------- MODULE Backoff ------------------------------
(***************************************************************************)
(* How long a persistent device waits before it connects again             *)
(* (get_backoff_duration, src/device.rs), in milliseconds: exponential in  *)
(* the failures before the last, with random jitter. DeviceTask models the *)
(* wait and leaves the time open; DeviceTaskProofs proves the bounds on it.*)
(***************************************************************************)
EXTENDS Integers

SLEEP_RECONNECT_MIN == 16
SLEEP_RECONNECT_MAX == 4096

\* 2u64.pow(failure_count.min(10))
Powers == <<1, 2, 4, 8, 16, 32, 64, 128, 256, 512, 1024>>
Power(failure_count) == Powers[(IF failure_count < 10 THEN failure_count ELSE 10) + 1]

BaseSecs(failure_count) ==
    IF Power(failure_count) * SLEEP_RECONNECT_MIN < SLEEP_RECONNECT_MAX
    THEN Power(failure_count) * SLEEP_RECONNECT_MIN ELSE SLEEP_RECONNECT_MAX

FixedMs(base) == (base * 1000 * 70) \div 100

\* random is the draw of the generator, any 64-bit number.
get_backoff_duration(failure_count, random) ==
    LET base == BaseSecs(failure_count)
        range == base * 1000 - FixedMs(base)
    IN  FixedMs(base) + (random % range)

Draws == Nat

=============================================================================
