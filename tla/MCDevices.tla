----------------------------- MODULE MCDevices -----------------------------
(***************************************************************************)
(* Small instances of the device programs.                                 *)
(***************************************************************************)
EXTENDS Devices

\* One process, with a ring for several submissions; and two of them, on a ring
\* that turns around sooner.
OneClient == [clients |-> {1}, size |-> 5, guard |-> 1, len |-> 1, batch |-> 2,
              words |-> 8]
TwoClients == [clients |-> {1, 2}, size |-> 3, guard |-> 1, len |-> 1,
               batch |-> 1, words |-> 4]

\* Blocks of static code running into generated code, of generated code alone,
\* and of the kernel.
GuestBlocks == {<<1, 3>>, <<4, 5>>, <<6>>}
=============================================================================
