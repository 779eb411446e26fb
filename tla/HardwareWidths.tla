--------------------------- MODULE HardwareWidths ---------------------------
(***************************************************************************)
(* Unsigned registers of the game logic.  SystemVerilog truncates a result *)
(* to the width of the register it is assigned to, so every assignment of  *)
(* a sum or a difference goes through one of these.                        *)
(***************************************************************************)
EXTENDS Integers

\* logic [9:0]: screen coordinates, speeds, motions.
U10(n) == n % 1024

\* logic [10:0]: how far a lane of obstacles or the road has scrolled.
U11(n) == n % 2048

Reg10 == 0 .. 1023
Reg11 == 0 .. 2047

=============================================================================
