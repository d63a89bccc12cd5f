------------------------------- MODULE Flag --------------------------------
(* Sml::FlagRegister (include/flag.hpp): a word of flags behind a mutex,    *)
(* here the set of its bits. Every operation is one critical section, so it *)
(* is one step; two of them together are two steps. StatusFlag              *)
(* (include/io/status_flag.hpp) names the bits of a channel.                *)

\* The bits of StatusFlag that a channel or a serial port uses.
StatusBits == {"opened", "ready_read", "ready_write", "failure", "timeouted"}

is_set(register, pattern) == register \cap pattern # {}
set(register, pattern) == register \cup pattern
reset(register, pattern) == register \ pattern

\* A bit in both patterns ends up reset.
set_reset(register, on, off) == reset(set(register, on), off)

cleared == {}
reset_error(register) == reset(register, {"failure", "timeouted"})
=============================================================================
