------------------------------- MODULE MCBus -------------------------------
(***************************************************************************)
(* Bus with one RAM word of two bytes: programs that access everything,    *)
(* with a silent line, and programs that use the serial port, with more    *)
(* transmission times and characters that arrive at any moment.            *)
(***************************************************************************)
EXTENDS Bus

CONSTANTS b0, b1

AllOrSerial ==
  {[to |-> Cell \cup {"rom", "flash", "serial"}, bytes |-> Byte, times |-> {5, 6},
    line |-> {FALSE}, ro |-> BOOLEAN],
   [to |-> {"rom", "flash", "serial", "status"}, bytes |-> {b0}, times |-> 5 .. 8,
    line |-> BOOLEAN, ro |-> {FALSE}]}
=============================================================================
