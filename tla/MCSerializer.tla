----------------------------- MODULE MCSerializer -----------------------------
(* The values for the runs of Serializer: every tag, the smallest and largest
   words, empty strings and arrays, and memory behind a value's end. *)
EXTENDS Serializer

Value(t, d) == [type |-> t, data |-> d]

Values ==
    { Value(Byte, 0), Value(Byte, 6),
      Value(Word, 655), Value(Word, Base * Base - 1),
      Value(String, <<>>), Value(String, <<65, 2>>), Value(String, <<66, 0, 5>>),
      Value(Wide, 258), Value(Wide, Base ^ WideBytes - 1),
      Value(Words, <<Base * Base - 1>>), Value(Words, <<3, Base * Base - 1, 0>>),
      Value(Wides, <<1, Base ^ WideBytes - 2, Base ^ WideBytes - 1, 9>>) }

MCCollections == UNION {[1 .. n -> Values] : n \in 0 .. 2}
(* Packets with something in them, for the run on what lies behind. *)
MCFilled == MCCollections \ {<<>>}
MCOthers == {<<Value(Byte, 6)>>, <<Value(Word, 655), Value(String, <<65, 2>>)>>}
==============================================================================
