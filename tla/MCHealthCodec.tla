---------------------------- MODULE MCHealthCodec ----------------------------
(***************************************************************************)
(* HealthCodec for TLC.                                                    *)
(***************************************************************************)
EXTENDS HealthCodec

Written(bs, status, service, valid) ==
    [bytes |-> bs, status |-> status, service |-> service, valid |-> valid]

Skip(bs) == Written(bs, {}, {}, Messages)
Bad(bs) == Written(bs, {}, {}, {})

I32(n) == AsI32(U64(n))
MinusOne == [g \in I32Groups |-> IF g = 4 THEN 15 ELSE 127]
Least == [g \in I32Groups |-> IF g = 4 THEN 8 ELSE 0]
Greatest == [g \in I32Groups |-> IF g = 4 THEN 7 ELSE 127]

Many(b, n) == [i \in 1 .. n |-> b]

SomeFields ==
    {\* the fields of the two messages, one of them in longer varints
     Written(<<8, 1>>, {I32(1)}, {}, Messages),
     Written(<<136, 0, 130, 128, 0>>, {I32(2)}, {}, Messages),
     Written(<<8>> \o Many(255, 9) \o <<1>>, {MinusOne}, {}, Messages),
     Written(<<10, 1, 97>>, {}, {<<97>>}, Messages),
     Written(<<10, 0>>, {}, {<<>>}, Messages),
     Written(<<10, 2, 195, 169>>, {}, {<<195, 169>>}, Messages),
     \* no text, which only a request looks at: no character, half of one
     Written(<<10, 1, 255>>, {}, {}, {"response"}),
     Written(<<10, 1, 195>>, {}, {}, {"response"}),
     \* field 1 of other wire types, and other fields
     Skip(<<9, 1, 2, 3, 4, 5, 6, 7, 8>>),
     Skip(<<13, 8, 1, 8, 1>>),
     Skip(<<18, 2, 8, 3>>),
     Skip(<<248, 255, 255, 255, 15, 1>>),
     \* field 0, field 2^29, a group, a length past the payload and past usize,
     \* ten bytes that are more than 64 bits, eleven bytes
     Bad(<<0, 1>>), Bad(<<128, 128, 128, 128, 16, 1>>), Bad(<<11>>),
     Bad(<<18>> \o Many(255, 9) \o <<1>>),
     Bad(<<8>> \o Many(255, 9) \o <<2>>),
     Bad(<<8>> \o Many(128, 10) \o <<0>>)}

SomeStatuses == {I32(0), I32(1), I32(2), I32(3), I32(127), I32(128), MinusOne, Least, Greatest}

SomeServices == {<<>>, <<97>>, Many(97, 127), Many(97, 128),
                 <<226, 130, 172, 240, 159, 152, 128>>}
=============================================================================
