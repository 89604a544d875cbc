----------------------------- MODULE MCInitStruct -----------------------------
(***************************************************************************)
(* Tables of one and two commands: copies of bytes, words and longs behind *)
(* a gap of each form, and repetitions.                                    *)
(***************************************************************************)
EXTENDS InitStruct

Copy(unit, times, width, gap, bytes) ==
    [repeat |-> FALSE, unit |-> unit, times |-> times, width |-> width, gap |-> gap,
     bytes |-> bytes]

Repeat(unit, times, bytes) ==
    [repeat |-> TRUE, unit |-> unit, times |-> times, width |-> 0, gap |-> 0, bytes |-> bytes]

\* The forms that state their gap.
Gapped ==
    { Copy(1, 1, 1, 0, <<9>>), Copy(1, 2, 1, 3, <<9, 8>>), Copy(2, 1, 1, 2, <<9, 8>>),
      Copy(4, 1, 3, 1, <<9, 8, 7, 6>>), Copy(2, 2, 3, 0, <<5, 4, 3, 2>>) }

Ungapped ==
    { Copy(1, 1, 0, 0, <<9>>), Copy(2, 1, 0, 0, <<9, 8>>),
      Repeat(1, 3, <<9>>), Repeat(2, 2, <<9, 8>>), Repeat(4, 1, <<9, 8, 7, 6>>) }

MCPacked ==
    { << c >> : c \in Gapped \cup Ungapped }
    \cup { << c, d >> : c \in Gapped, d \in Gapped \cup Ungapped }
=============================================================================
