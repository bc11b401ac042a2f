------------------------------- MODULE MCLink --------------------------------
\* Link with one command of each shape that drive64.go has.
EXTENDS Link

Shape(name, data, cmp, gate) == [name |-> name, data |-> data, cmp |-> cmp, gate |-> gate]

MCSetCic == Shape("setCicType", 0, TRUE, 1)
MCRead32 == Shape("piRead32", 1, TRUE, 0)
MCReadBurst == Shape("piReadBurst", 2, FALSE, 0)
MCWriteBurst == Shape("piWriteBurst", 0, FALSE, 2)

MCCommands == {MCSetCic, MCRead32, MCReadBurst, MCWriteBurst}
MCSupported == MCCommands \ {MCWriteBurst}
==============================================================================
