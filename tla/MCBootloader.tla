---------------------------- MODULE MCBootloader ----------------------------
EXTENDS Bootloader

CONSTANTS old, new

SomeLength  == [i \in Images |-> IF i = old THEN 2 ELSE 3]
SomeSectors == <<{1, 2}, {3}>>
=============================================================================
