------------------------------- MODULE MCUart -------------------------------
(***************************************************************************)
(* Characters with alternating bits, with one bit low, with one bit high   *)
(* and the newline; lines that follow the halt line; strings without a     *)
(* newline; an empty string and an empty line.                             *)
(***************************************************************************)
EXTENDS UartProperties

SomeHalt == <<72, 10>>

SomeTexts ==
  { << <<85, 10>>, <<127, 1, 10>> >>,
    << <<170, 254, 10>>, <<72, 10>>, <<85, 10>> >>,
    << <<>>, <<10, 72>>, <<85, 72, 10, 255>>, <<10>> >>,
    << <<85, 85, 170, 1, 128, 85, 64, 10, 33, 85, 16, 10, 72, 10>> >> }
=============================================================================
